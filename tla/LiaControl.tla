----------------------------- MODULE LiaControl -----------------------------
(***************************************************************************)
(* lia_rp.c and zynq_io.c: the command line program that reads and writes  *)
(* the registers of the programmable logic.  Nothing keeps two of them     *)
(* from running at once; each shares the registers with the others and     *)
(* changes the reset register by reading it, and writing it back later.    *)
(*                                                                         *)
(* A step is an access to a register.  The reset register is the set of    *)
(* its bits; a setting is a number, PowerOn while nobody has written it.   *)
(* A process may be killed between any two steps: SIGINT has its handler   *)
(* only when the program has got to its option, and only -o looks at it.   *)
(***************************************************************************)
EXTENDS Integers, Sequences

CONSTANTS
  Procs,      \* processes that run the program
  ResetBits,  \* the bits init_system clears, and sets again, in its order
  Defaults,   \* what it writes in between: a sequence of [reg, val]
  StsThere,   \* whether the block design has the status register
  Requests,   \* command lines, as records
  MaxFreq,    \* the highest frequency parse_param takes: 8400000
  FreqScale,  \* the frequency's fixed point: 2^8
  IntMax      \* the highest int32_t

VARIABLES
  reset,    \* the bits of CFG_RESET_GRAL that are one
  setting,  \* what the other registers hold
  pc,       \* where each process is
  cmd,      \* its command line
  mapped,   \* the devices it has mapped
  idx,      \* how far it is in a list of init_system
  seen,     \* reg_val: the reset register as it read it, until it writes it back
  ret,      \* where its init_system returns to
  alone,    \* history: no other process has run beside it
  raw,      \* history: somebody wrote the reset register by hand, with -w
  cut       \* history: somebody was killed in init_system

registers == <<reset, setting>>
history == <<raw, cut>>
processVars == <<pc, cmd, mapped, idx, seen, ret, alone>>
vars == <<registers, processVars, history>>

Settings == {Defaults[i].reg : i \in DOMAIN Defaults}
Bits == {ResetBits[i] : i \in DOMAIN ResetBits}

PowerOn == -1  \* reads as zero
Value(r) == IF setting[r] = PowerOn THEN 0 ELSE setting[r]

\* What the command lines and the lists of init_system look like.
LiaAssumption ==
  /\ ResetBits \in Seq(Nat) /\ ResetBits # << >>
  /\ Defaults # << >>
  /\ \A i \in DOMAIN Defaults : Defaults[i].val \in Nat
  /\ Defaults \in Seq({Defaults[i] : i \in DOMAIN Defaults})
  /\ "reset" \notin Settings
  /\ FreqScale \in Nat /\ IntMax \in Nat
  /\ \A c \in Requests :
       /\ c.op \in {"a", "i", "o", "r", "w", "s"}
       /\ c.op = "s" => c.reg \in Settings /\ c.val \in Nat
       /\ c.op = "w" /\ c.dev = "cfg" =>
            \/ c.reg = "reset" /\ c.val \subseteq Bits
            \/ c.reg \in Settings /\ c.val \in Nat

NoRequest == [op |-> "none"]

Init ==
  /\ reset = {}
  /\ setting = [r \in Settings |-> PowerOn]
  /\ pc = [p \in Procs |-> "off"]
  /\ cmd = [p \in Procs |-> NoRequest]
  /\ mapped = [p \in Procs |-> {}]
  /\ idx = [p \in Procs |-> 0]
  /\ seen = [p \in Procs |-> {}]
  /\ ret = [p \in Procs |-> "act"]
  /\ alone = [p \in Procs |-> FALSE]
  /\ raw = FALSE
  /\ cut = FALSE

----------------------------------------------------------------------------
Goto(p, from, to) ==
  /\ pc[p] = from
  /\ pc' = [pc EXCEPT ![p] = to]

\* The process is gone, by its return, a signal or an access to a device it
\* could not map.
Gone(p) ==
  /\ pc' = [pc EXCEPT ![p] = "off"]
  /\ cmd' = [cmd EXCEPT ![p] = NoRequest]
  /\ mapped' = [mapped EXCEPT ![p] = {}]
  /\ idx' = [idx EXCEPT ![p] = 0]
  /\ seen' = [seen EXCEPT ![p] = {}]
  /\ ret' = [ret EXCEPT ![p] = "act"]
  /\ alone' = [alone EXCEPT ![p] = FALSE]
  /\ UNCHANGED registers

InInit(p) == pc[p] \in {"clear read", "clear write", "configure", "release read", "release write"}

(* parse_param. *)

\* Only a frequency is refused for its value: atoi's result is never beyond
\* 2^31, whatever the other registers are given.
Accepted(c) == c.op = "s" /\ c.reg = "fv" => c.val <= MaxFreq

\* A request that is not accepted ends before any device is opened.
Start(p, c) ==
  /\ Accepted(c)
  /\ Goto(p, "off", "open")
  /\ cmd' = [cmd EXCEPT ![p] = c]
  /\ alone' = [q \in Procs |-> IF q = p THEN \A r \in Procs \ {p} : pc[r] = "off" ELSE FALSE]
  /\ UNCHANGED <<registers, mapped, idx, seen, ret, history>>

(* cfg_init and sts_init: main ignores what they return. *)

OpenDevices(p, got) ==
  /\ "sts" \in got => StsThere
  /\ Goto(p, "open", "first")
  /\ mapped' = [mapped EXCEPT ![p] = got]
  /\ UNCHANGED <<registers, cmd, idx, seen, ret, alone, history>>

\* get_memory_size exits when it cannot read the size.
NoSize(p) == pc[p] = "open" /\ Gone(p) /\ UNCHANGED history

----------------------------------------------------------------------------
(* main.                                                                   *)

\* Mutant of FirstAccess: the registers are always initialised.
FirstAccessAlways(p) ==
  /\ "cfg" \in mapped[p]
  /\ Goto(p, "first", "clear read")
  /\ idx' = [idx EXCEPT ![p] = 1]
  /\ UNCHANGED <<registers, cmd, mapped, seen, ret, alone, history>>

\* A reset register that is zero is taken for one nobody has written.
FirstAccess(p) ==
  /\ "cfg" \in mapped[p]
  /\ Goto(p, "first", IF reset = {} THEN "clear read" ELSE "act")
  /\ idx' = [idx EXCEPT ![p] = IF reset = {} THEN 1 ELSE 0]
  /\ UNCHANGED <<registers, cmd, mapped, seen, ret, alone, history>>

CfgFault(p) == pc[p] = "first" /\ "cfg" \notin mapped[p] /\ Gone(p) /\ UNCHANGED history

\* -i, also when the first access has done it already
InitAgain(p) ==
  /\ cmd[p].op = "i"
  /\ Goto(p, "act", "clear read")
  /\ idx' = [idx EXCEPT ![p] = 1]
  /\ ret' = [ret EXCEPT ![p] = "done"]
  /\ UNCHANGED <<registers, cmd, mapped, seen, alone, history>>

\* -o: the first reset bit is set, then the status register is read in a loop.
StreamRead(p) ==
  /\ cmd[p].op = "o"
  /\ Goto(p, "act", "stream write")
  /\ seen' = [seen EXCEPT ![p] = reset]
  /\ UNCHANGED <<registers, cmd, mapped, idx, ret, alone, history>>

\* Mutant of StreamWrite: the register is written back as it was read.
StreamWriteBack(p) ==
  /\ Goto(p, "stream write", "poll")
  /\ reset' = seen[p]
  /\ seen' = [seen EXCEPT ![p] = {}]
  /\ UNCHANGED <<setting, cmd, mapped, idx, ret, alone, history>>

StreamWrite(p) ==
  /\ Goto(p, "stream write", "poll")
  /\ reset' = seen[p] \cup {ResetBits[1]}
  /\ seen' = [seen EXCEPT ![p] = {}]
  /\ UNCHANGED <<setting, cmd, mapped, idx, ret, alone, history>>

\* The loop dies without the status register, and may die when the low half of
\* the status, by which it divides, is zero: some of these CPUs trap that.
PollFault(p, zero) ==
  /\ pc[p] = "poll"
  /\ "sts" \notin mapped[p] \/ zero
  /\ Gone(p)
  /\ UNCHANGED history

Interrupt(p) ==
  /\ "sts" \in mapped[p]
  /\ Goto(p, "poll", "done")
  /\ UNCHANGED <<registers, cmd, mapped, idx, seen, ret, alone, history>>

Return(p) == pc[p] = "done" /\ Gone(p) /\ UNCHANGED history

\* A process that waits for the bus cannot be killed.
Kill(p) ==
  /\ pc[p] \notin {"off", "hung", "done"}
  /\ Gone(p)
  /\ cut' = (cut \/ InInit(p))
  /\ UNCHANGED raw

----------------------------------------------------------------------------
(* zynq_io.c.                                                              *)

\* rd_cfg_status, and rd_reg_value of a device that is mapped
ReadRegister(p) ==
  /\ cmd[p].op = "a" \/ (cmd[p].op = "r" /\ cmd[p].dev \in mapped[p])
  /\ Goto(p, "act", "done")
  /\ UNCHANGED <<registers, cmd, mapped, idx, seen, ret, alone, history>>

\* rd_reg_value or wr_reg_value of one that is not
RegisterFault(p) ==
  /\ pc[p] = "act"
  /\ cmd[p].op \in {"r", "w"} /\ cmd[p].dev \notin mapped[p]
  /\ Gone(p)
  /\ UNCHANGED history

\* wr_reg_value: a value goes to the register as it was given.
WriteRegister(p) ==
  /\ cmd[p].op = "w" /\ cmd[p].dev = "cfg"
  /\ Goto(p, "act", "done")
  /\ IF cmd[p].reg = "reset"
     THEN reset' = cmd[p].val /\ raw' = TRUE /\ UNCHANGED setting
     ELSE setting' = [setting EXCEPT ![cmd[p].reg] = cmd[p].val] /\ UNCHANGED <<reset, raw>>
  /\ UNCHANGED <<cmd, mapped, idx, seen, ret, alone, cut>>

\* axi_sts_register drives none of the write channels: the write never ends.
WriteStatus(p) ==
  /\ cmd[p].op = "w" /\ cmd[p].dev = "sts" /\ "sts" \in mapped[p]
  /\ Goto(p, "act", "hung")
  /\ UNCHANGED <<registers, cmd, mapped, idx, seen, ret, alone, history>>

\* set_frequency converts a float to int32_t, which saturates on this CPU.
Stored(r, v) ==
  IF r # "fv" THEN v ELSE IF v * FreqScale > IntMax THEN IntMax ELSE v * FreqScale

SetRegister(p) ==
  /\ cmd[p].op = "s"
  /\ Goto(p, "act", "done")
  /\ setting' = [setting EXCEPT ![cmd[p].reg] = Stored(cmd[p].reg, cmd[p].val)]
  /\ UNCHANGED <<reset, cmd, mapped, idx, seen, ret, alone, history>>

(* init_system. *)

ClearRead(p) ==
  /\ Goto(p, "clear read", "clear write")
  /\ seen' = [seen EXCEPT ![p] = reset]
  /\ UNCHANGED <<registers, cmd, mapped, idx, ret, alone, history>>

ClearWrite(p) ==
  LET last == idx[p] = Len(ResetBits)
  IN  /\ Goto(p, "clear write", IF last THEN "configure" ELSE "clear read")
      /\ reset' = seen[p] \ {ResetBits[idx[p]]}
      /\ seen' = [seen EXCEPT ![p] = {}]
      /\ idx' = [idx EXCEPT ![p] = IF last THEN 1 ELSE idx[p] + 1]
      /\ UNCHANGED <<setting, cmd, mapped, ret, alone, history>>

\* Mutant of Configure: the last register is left out.
ConfigureAllButLast(p) ==
  LET last == idx[p] = Len(Defaults)
      d == Defaults[idx[p]]
  IN  /\ Goto(p, "configure", IF last THEN "release read" ELSE "configure")
      /\ setting' = IF last THEN setting ELSE [setting EXCEPT ![d.reg] = Stored(d.reg, d.val)]
      /\ idx' = [idx EXCEPT ![p] = IF last THEN 1 ELSE idx[p] + 1]
      /\ UNCHANGED <<reset, cmd, mapped, seen, ret, alone, history>>

Configure(p) ==
  LET last == idx[p] = Len(Defaults)
      d == Defaults[idx[p]]
  IN  /\ Goto(p, "configure", IF last THEN "release read" ELSE "configure")
      /\ setting' = [setting EXCEPT ![d.reg] = Stored(d.reg, d.val)]
      /\ idx' = [idx EXCEPT ![p] = IF last THEN 1 ELSE idx[p] + 1]
      /\ UNCHANGED <<reset, cmd, mapped, seen, ret, alone, history>>

ReleaseRead(p) ==
  /\ Goto(p, "release read", "release write")
  /\ seen' = [seen EXCEPT ![p] = reset]
  /\ UNCHANGED <<registers, cmd, mapped, idx, ret, alone, history>>

\* Mutant of ReleaseWrite: the bit replaces the others.
ReleaseWriteOnly(p) ==
  LET last == idx[p] = Len(ResetBits)
  IN  /\ Goto(p, "release write", IF last THEN ret[p] ELSE "release read")
      /\ reset' = {ResetBits[idx[p]]}
      /\ seen' = [seen EXCEPT ![p] = {}]
      /\ idx' = [idx EXCEPT ![p] = IF last THEN 0 ELSE idx[p] + 1]
      /\ UNCHANGED <<setting, cmd, mapped, ret, alone, history>>

ReleaseWrite(p) ==
  LET last == idx[p] = Len(ResetBits)
  IN  /\ Goto(p, "release write", IF last THEN ret[p] ELSE "release read")
      /\ reset' = seen[p] \cup {ResetBits[idx[p]]}
      /\ seen' = [seen EXCEPT ![p] = {}]
      /\ idx' = [idx EXCEPT ![p] = IF last THEN 0 ELSE idx[p] + 1]
      /\ UNCHANGED <<setting, cmd, mapped, ret, alone, history>>

----------------------------------------------------------------------------
(* The steps, by the function they are in.                                 *)

ParseParam(p) == \E c \in Requests : Start(p, c)

DevicesInit(p) == NoSize(p) \/ \E got \in SUBSET {"cfg", "sts"} : OpenDevices(p, got)

Main(p) ==
  \/ FirstAccess(p)
  \/ CfgFault(p)
  \/ InitAgain(p)
  \/ StreamRead(p)
  \/ StreamWrite(p)
  \/ \E zero \in BOOLEAN : PollFault(p, zero)
  \/ Return(p)

Registers(p) ==
  \/ ReadRegister(p)
  \/ RegisterFault(p)
  \/ WriteRegister(p)
  \/ WriteStatus(p)
  \/ SetRegister(p)

InitSystem(p) ==
  \/ ClearRead(p)
  \/ ClearWrite(p)
  \/ Configure(p)
  \/ ReleaseRead(p)
  \/ ReleaseWrite(p)

Signal(p) == Interrupt(p) \/ Kill(p)

Next ==
  \E p \in Procs :
    ParseParam(p) \/ DevicesInit(p) \/ Main(p) \/ Registers(p) \/ InitSystem(p) \/ Signal(p)

Spec == Init /\ [][Next]_vars

----------------------------------------------------------------------------
Configured == \A r \in Settings : setting[r] # PowerOn

TypeOK ==
  /\ reset \subseteq Bits
  /\ setting \in [Settings -> Nat \cup {PowerOn}]
  /\ pc \in [Procs -> {"off", "open", "first", "act", "clear read", "clear write", "configure",
                       "release read", "release write", "stream write", "poll", "done", "hung"}]
  /\ DOMAIN cmd = Procs /\ \A p \in Procs : cmd[p] = NoRequest \/ cmd[p] \in Requests
  /\ mapped \in [Procs -> SUBSET {"cfg", "sts"}]
  /\ idx \in [Procs -> Nat]
  /\ seen \in [Procs -> SUBSET Bits]
  /\ ret \in [Procs -> {"act", "done"}]
  /\ alone \in [Procs -> BOOLEAN]
  /\ raw \in BOOLEAN
  /\ cut \in BOOLEAN

\* A module leaves its reset only when every register has been given a value,
\* however many processes initialise at the same time, change registers
\* meanwhile or are killed on the way: no module runs on what the registers
\* hold at power-on.  (-w to the reset register excepted: nothing guards it.)
ConfiguredBeforeReleased == reset # {} /\ ~raw => Configured

\* A process that had the registers to itself leaves all modules released and
\* configured: one that was asked to initialise always, whatever was left by
\* others before; and, where one bit resets everything, any one, since a
\* reset that was left half way is taken for a first access and done again.
LoneRunLeavesReady ==
  \A p \in Procs :
    /\ pc[p] = "done" /\ alone[p]
    /\ \/ cmd[p].op = "i"
       \/ Len(ResetBits) = 1 /\ ~raw
    => Bits \subseteq reset /\ Configured

\* Where one bit resets everything, initialisations that overlap, however they
\* interleave their reading and writing back of it, leave the modules released
\* when the last of them has returned: each clears the bit before it sets it.
\* (Unless one was killed, or somebody wrote the register by hand.)
ReleasedAtRest ==
  /\ Len(ResetBits) = 1 /\ ~raw /\ ~cut
  /\ Configured /\ \A p \in Procs : ~InInit(p)
  => reset = Bits
=============================================================================
