-------------------------- MODULE LiaControlProofs --------------------------
(***************************************************************************)
(* The register program, for any number of processes, any reset bits, any  *)
(* list of registers and any command lines: an initialisation that         *)
(* overlaps others never releases a module too early.                      *)
(***************************************************************************)
EXTENDS LiaControl, TLAPS

(* Past here a process has seen the registers configured, or was led on by *)
(* a reset register written by hand.                                       *)
Trusting == {"act", "stream write"}

Releasing == {"release read", "release write"}

\* A process that is past writing the registers has written them all.
ReleasesConfigured == \A p \in Procs : pc[p] \in Releasing => Configured

\* One that is half way has written those before.
ConfiguresInOrder ==
  \A p \in Procs : pc[p] = "configure" =>
    /\ idx[p] \in DOMAIN Defaults
    /\ \A i \in 1 .. idx[p] - 1 : setting[Defaults[i].reg] # PowerOn

\* What was read from a reset register that is not zero, and the option that
\* follows it, need the same.
TrustIsGood ==
  \A p \in Procs : pc[p] \in Trusting \/ seen[p] # {} => raw \/ Configured

Indices == \A p \in Procs :
  pc[p] \in {"clear read", "clear write", "release read", "release write"} =>
    idx[p] \in DOMAIN ResetBits

IInv ==
  /\ TypeOK
  /\ Indices
  /\ ReleasesConfigured
  /\ ConfiguresInOrder
  /\ TrustIsGood
  /\ ConfiguredBeforeReleased

\* The lists of init_system are not empty and hold registers and values.
LEMMA Lists ==
  ASSUME LiaAssumption
  PROVE  /\ Len(ResetBits) \in Nat \ {0} /\ DOMAIN ResetBits = 1 .. Len(ResetBits)
         /\ Len(Defaults) \in Nat \ {0} /\ DOMAIN Defaults = 1 .. Len(Defaults)
         /\ \A i \in DOMAIN ResetBits : ResetBits[i] \in Bits
         /\ \A i \in DOMAIN Defaults : Defaults[i].reg \in Settings /\ Defaults[i].val \in Nat
BY DEF LiaAssumption, Bits, Settings

\* What a register is given is a natural number.
LEMMA StoredNat ==
  ASSUME LiaAssumption, NEW r, NEW v \in Nat
  PROVE  Stored(r, v) \in Nat
<1>1. FreqScale \in Nat /\ IntMax \in Nat
  BY DEF LiaAssumption
<1>2. v * FreqScale \in Nat
  BY <1>1
<1> QED
  BY <1>1, <1>2 DEF Stored

\* A process with a command has one of the requests.
LEMMA HasRequest ==
  ASSUME TypeOK, NEW p \in Procs, cmd[p].op # "none"
  PROVE  cmd[p] \in Requests
<1>1. NoRequest.op = "none"
  BY DEF NoRequest
<1>2. cmd[p] = NoRequest \/ cmd[p] \in Requests
  BY DEF TypeOK
<1> QED
  BY <1>1, <1>2

\* No process runs and no register is written.
LEMMA InitInv ==
  ASSUME LiaAssumption, Init
  PROVE  IInv
BY DEF Init, IInv, TypeOK, Indices, ReleasesConfigured, ConfiguresInOrder, TrustIsGood,
       ConfiguredBeforeReleased, Trusting, Releasing, PowerOn

\* No register goes back to what it held at power-on.
LEMMA StaysConfigured ==
  ASSUME TypeOK,
         UNCHANGED setting
           \/ \E r \in Settings, v \in Nat : setting' = [setting EXCEPT ![r] = v]
  PROVE  /\ Configured => Configured'
         /\ setting' \in [Settings -> Nat \cup {PowerOn}]
         /\ \A r \in Settings : setting[r] # PowerOn => setting'[r] # PowerOn
<1>1. setting \in [Settings -> Nat \cup {PowerOn}]
  BY DEF TypeOK
<1>2. CASE UNCHANGED setting
  BY <1>1, <1>2 DEF Configured
<1>3. CASE \E r \in Settings, v \in Nat : setting' = [setting EXCEPT ![r] = v]
  <2>1. PICK r \in Settings, v \in Nat : setting' = [setting EXCEPT ![r] = v]
    BY <1>3
  <2>2. v # PowerOn
    BY DEF PowerOn
  <2>3. \A s \in Settings : setting'[s] = IF s = r THEN v ELSE setting[s]
    BY <1>1, <2>1
  <2> QED
    BY <1>1, <2>1, <2>2, <2>3 DEF Configured
<1> QED
  BY <1>2, <1>3

\* A step of one process that leaves the registers and the by-hand mark alone,
\* and after which that process is as it has to be, keeps the invariant.
LEMMA LocalStep ==
  ASSUME IInv, NEW p \in Procs, TypeOK', UNCHANGED <<registers, raw>>,
         \A q \in Procs \ {p} : pc'[q] = pc[q] /\ idx'[q] = idx[q] /\ seen'[q] = seen[q],
         pc'[p] \notin {"configure", "release read", "release write"},
         pc'[p] \in {"clear read", "clear write"} => idx'[p] \in DOMAIN ResetBits,
         pc'[p] \in Trusting \/ seen'[p] # {} => raw \/ Configured
  PROVE  IInv'
<1>1. Configured' <=> Configured
  BY DEF Configured, registers
<1>2. ReleasesConfigured' /\ ConfiguresInOrder'
  BY <1>1 DEF IInv, ReleasesConfigured, ConfiguresInOrder, Releasing, registers
<1>3. TrustIsGood' /\ ConfiguredBeforeReleased'
  BY <1>1 DEF IInv, TrustIsGood, ConfiguredBeforeReleased, registers
<1>4. Indices'
  BY DEF IInv, Indices
<1> QED
  BY <1>2, <1>3, <1>4 DEF IInv

\* What Gone does to the process.
LEMMA GoneStep ==
  ASSUME IInv, NEW p \in Procs, Gone(p), UNCHANGED raw, cut' \in BOOLEAN
  PROVE  IInv'
<1>1. TypeOK'
  BY DEF IInv, TypeOK, Gone, registers
<1>2. /\ \A q \in Procs \ {p} : pc'[q] = pc[q] /\ idx'[q] = idx[q] /\ seen'[q] = seen[q]
      /\ pc'[p] = "off" /\ seen'[p] = {}
  BY DEF IInv, TypeOK, Gone
<1> QED
  BY <1>1, <1>2, LocalStep DEF Trusting, Gone

----------------------------------------------------------------------------
\* parse_param: a process that starts has read nothing yet.
LEMMA StartInv ==
  ASSUME IInv, NEW p \in Procs, ParseParam(p)
  PROVE  IInv'
<1>1. PICK c \in Requests : Start(p, c)
  BY DEF ParseParam
<1>2. TypeOK'
  BY <1>1 DEF IInv, TypeOK, Start, Goto, registers, history
<1>3. UNCHANGED <<registers, raw, idx, seen>> /\ pc[p] = "off" /\ pc' = [pc EXCEPT ![p] = "open"]
  BY <1>1 DEF Start, Goto, history
<1> QED
  BY <1>2, <1>3, LocalStep DEF Trusting, IInv, TypeOK, TrustIsGood

\* cfg_init and sts_init write no register.
LEMMA DevicesInitInv ==
  ASSUME IInv, NEW p \in Procs, DevicesInit(p)
  PROVE  IInv'
<1>1. CASE NoSize(p)
  BY <1>1, GoneStep DEF NoSize, history, IInv, TypeOK
<1>2. CASE \E got \in SUBSET {"cfg", "sts"} : OpenDevices(p, got)
  <2>1. PICK got \in SUBSET {"cfg", "sts"} : OpenDevices(p, got)
    BY <1>2
  <2>2. TypeOK'
    BY <2>1 DEF IInv, TypeOK, OpenDevices, Goto, registers, history
  <2>3. UNCHANGED <<registers, raw, idx, seen>> /\ pc' = [pc EXCEPT ![p] = "first"]
    BY <2>1 DEF OpenDevices, Goto, history
  <2> QED
    BY <2>2, <2>3, LocalStep DEF Trusting, IInv, TypeOK, TrustIsGood
<1> QED
  BY <1>1, <1>2 DEF DevicesInit

\* The steps of main and of a signal.  Only the option -o changes a register
\* here: it sets a bit, after a first access that found another.
LEMMA MainInv ==
  ASSUME LiaAssumption, IInv, NEW p \in Procs, Main(p) \/ Signal(p)
  PROVE  IInv'
<1> USE DEF IInv
<1>0. 1 \in DOMAIN ResetBits /\ ResetBits[1] \in Bits
  BY Lists
<1>1. CASE FirstAccess(p)
  <2>1. TypeOK'
    BY <1>1 DEF TypeOK, FirstAccess, Goto, registers, history
  <2>2. UNCHANGED <<registers, raw, seen>> /\ pc' = [pc EXCEPT ![p] = IF reset = {} THEN "clear read" ELSE "act"]
        /\ idx' = [idx EXCEPT ![p] = IF reset = {} THEN 1 ELSE 0]
    BY <1>1 DEF FirstAccess, Goto, history
  <2>3. reset # {} => raw \/ Configured
    BY DEF ConfiguredBeforeReleased
  <2> QED
    BY <1>0, <2>1, <2>2, <2>3, LocalStep DEF Trusting, TypeOK, TrustIsGood
<1>2. CASE InitAgain(p)
  <2>1. TypeOK'
    BY <1>2 DEF TypeOK, InitAgain, Goto, registers, history
  <2>2. UNCHANGED <<registers, raw, seen>> /\ pc' = [pc EXCEPT ![p] = "clear read"]
        /\ idx' = [idx EXCEPT ![p] = 1]
    BY <1>2 DEF InitAgain, Goto, history
  <2> QED
    BY <1>0, <2>1, <2>2, LocalStep DEF Trusting, TypeOK, TrustIsGood
<1>3. CASE StreamRead(p)
  <2>1. TypeOK'
    BY <1>3 DEF TypeOK, StreamRead, Goto, registers, history
  <2>2. UNCHANGED <<registers, raw, idx>> /\ pc[p] = "act" /\ pc' = [pc EXCEPT ![p] = "stream write"]
        /\ seen' = [seen EXCEPT ![p] = reset]
    BY <1>3 DEF StreamRead, Goto, history
  <2> QED
    BY <2>1, <2>2, LocalStep DEF Trusting, TypeOK, TrustIsGood
<1>4. CASE StreamWrite(p)
  <2>1. TypeOK'
    BY <1>0, <1>4 DEF TypeOK, StreamWrite, Goto, registers, history
  <2>2. /\ pc[p] = "stream write" /\ pc' = [pc EXCEPT ![p] = "poll"]
        /\ seen' = [seen EXCEPT ![p] = {}] /\ UNCHANGED <<setting, idx, raw>>
    BY <1>4 DEF StreamWrite, Goto, history
  <2>3. Configured' <=> Configured
    BY <2>2 DEF Configured
  <2>4. raw' \/ Configured'
    BY <2>2, <2>3 DEF TrustIsGood, Trusting
  <2>5. ReleasesConfigured' /\ ConfiguresInOrder' /\ Indices'
    BY <2>2, <2>3 DEF TypeOK, ReleasesConfigured, ConfiguresInOrder, Indices, Releasing
  <2> QED
    BY <2>1, <2>4, <2>5 DEF TrustIsGood, ConfiguredBeforeReleased
<1>5. CASE Interrupt(p)
  <2>1. TypeOK'
    BY <1>5 DEF TypeOK, Interrupt, Goto, registers, history
  <2>2. UNCHANGED <<registers, raw, idx, seen>> /\ pc' = [pc EXCEPT ![p] = "done"]
    BY <1>5 DEF Interrupt, Goto, history
  <2> QED
    BY <2>1, <2>2, LocalStep DEF Trusting, TypeOK, TrustIsGood
<1>6. CASE CfgFault(p) \/ (\E zero \in BOOLEAN : PollFault(p, zero)) \/ Return(p) \/ Kill(p)
  <2>1. Gone(p) /\ UNCHANGED raw /\ cut' \in BOOLEAN
    BY <1>6 DEF CfgFault, PollFault, Return, Kill, history, TypeOK
  <2> QED
    BY <2>1, GoneStep
<1> QED
  BY <1>1, <1>2, <1>3, <1>4, <1>5, <1>6 DEF Main, Signal

\* Writing a register beside the reset register disturbs nobody.
LEMMA SettingStep ==
  ASSUME LiaAssumption, IInv, NEW p \in Procs, NEW r \in Settings, NEW v \in Nat,
         pc[p] = "act", pc' = [pc EXCEPT ![p] = "done"],
         setting' = [setting EXCEPT ![r] = v],
         UNCHANGED <<reset, cmd, mapped, idx, seen, ret, alone, history>>
  PROVE  IInv'
<1> USE DEF IInv
<1>1. /\ Configured => Configured'
      /\ setting' \in [Settings -> Nat \cup {PowerOn}]
      /\ \A q \in Settings : setting[q] # PowerOn => setting'[q] # PowerOn
  BY StaysConfigured
<1>2. TypeOK'
  BY <1>1 DEF TypeOK, history
<1>3. ReleasesConfigured' /\ Indices'
  BY <1>1 DEF TypeOK, ReleasesConfigured, Indices, Releasing
<1>4. ConfiguresInOrder'
  <2> SUFFICES ASSUME NEW q \in Procs, pc'[q] = "configure"
               PROVE  /\ idx'[q] \in DOMAIN Defaults
                      /\ \A i \in 1 .. idx'[q] - 1 : setting'[Defaults[i].reg] # PowerOn
    BY DEF ConfiguresInOrder
  <2>1. pc[q] = "configure" /\ idx'[q] = idx[q]
    BY DEF TypeOK
  <2>2. /\ idx[q] \in DOMAIN Defaults
        /\ \A i \in 1 .. idx[q] - 1 : setting[Defaults[i].reg] # PowerOn
    BY <2>1 DEF ConfiguresInOrder
  <2>3. \A i \in 1 .. idx[q] - 1 : Defaults[i].reg \in Settings
    BY <2>2, Lists
  <2> QED
    BY <1>1, <2>1, <2>2, <2>3
<1>5. TrustIsGood' /\ ConfiguredBeforeReleased'
  BY <1>1 DEF TypeOK, TrustIsGood, Trusting, ConfiguredBeforeReleased, history
<1> QED
  BY <1>2, <1>3, <1>4, <1>5

\* Reading and writing a register by its option.
LEMMA RegistersInv ==
  ASSUME LiaAssumption, IInv, NEW p \in Procs, Registers(p)
  PROVE  IInv'
<1> USE DEF IInv
<1>1. CASE ReadRegister(p) \/ WriteStatus(p)
  <2>1. TypeOK'
    BY <1>1 DEF TypeOK, ReadRegister, WriteStatus, Goto, registers, history
  <2>2. UNCHANGED <<registers, raw, idx, seen>> /\ pc[p] = "act"
        /\ (pc' = [pc EXCEPT ![p] = "done"] \/ pc' = [pc EXCEPT ![p] = "hung"])
    BY <1>1 DEF ReadRegister, WriteStatus, Goto, history
  <2>3. pc'[p] \in {"done", "hung"} /\ \A q \in Procs \ {p} : pc'[q] = pc[q]
    BY <2>2 DEF TypeOK
  <2>4. raw \/ Configured
    BY <2>2 DEF TrustIsGood, Trusting
  <2> QED
    BY <2>1, <2>2, <2>3, <2>4, LocalStep
<1>2. CASE RegisterFault(p)
  <2>1. Gone(p) /\ UNCHANGED raw /\ cut' \in BOOLEAN
    BY <1>2 DEF RegisterFault, history, TypeOK
  <2> QED
    BY <2>1, GoneStep
<1>3. CASE WriteRegister(p)
  <2>1. cmd[p] \in Requests /\ cmd[p].op = "w" /\ cmd[p].dev = "cfg"
    BY <1>3, HasRequest DEF WriteRegister
  <2>2. \/ cmd[p].reg = "reset" /\ cmd[p].val \subseteq Bits
        \/ cmd[p].reg \in Settings /\ cmd[p].val \in Nat
    BY <2>1 DEF LiaAssumption
  <2>3. CASE cmd[p].reg # "reset"
    BY <1>3, <2>2, <2>3, SettingStep DEF WriteRegister, Goto, history
  <2>4. CASE cmd[p].reg = "reset" /\ cmd[p].val \subseteq Bits
    <3>1. reset' = cmd[p].val /\ raw' = TRUE /\ pc' = [pc EXCEPT ![p] = "done"]
          /\ UNCHANGED <<setting, cmd, mapped, idx, seen, ret, alone, cut>>
      BY <1>3, <2>4 DEF WriteRegister, Goto
    <3>2. TypeOK'
      BY <2>4, <3>1 DEF TypeOK
    <3>3. Configured' <=> Configured
      BY <3>1 DEF Configured
    <3> QED
      BY <3>1, <3>2, <3>3 DEF TypeOK, ReleasesConfigured, ConfiguresInOrder, Indices, Releasing,
                              TrustIsGood, ConfiguredBeforeReleased
  <2> QED
    BY <2>2, <2>3, <2>4 DEF LiaAssumption
<1>4. CASE SetRegister(p)
  <2>1. cmd[p] \in Requests /\ cmd[p].op = "s" /\ pc[p] = "act"
    BY <1>4, HasRequest DEF SetRegister, Goto
  <2>2. cmd[p].reg \in Settings /\ Stored(cmd[p].reg, cmd[p].val) \in Nat
    BY <2>1, StoredNat DEF LiaAssumption
  <2> QED
    BY <1>4, <2>2, SettingStep DEF SetRegister, Goto
<1> QED
  BY <1>1, <1>2, <1>3, <1>4 DEF Registers

\* init_system: the registers are written in order, and only the last of them
\* leads on to the reset bits.
LEMMA InitSystemInv ==
  ASSUME LiaAssumption, IInv, NEW p \in Procs, InitSystem(p)
  PROVE  IInv'
<1> USE DEF IInv
<1>0. /\ Len(ResetBits) \in Nat \ {0} /\ DOMAIN ResetBits = 1 .. Len(ResetBits)
      /\ Len(Defaults) \in Nat \ {0} /\ DOMAIN Defaults = 1 .. Len(Defaults)
  BY Lists
<1>n. Len(ResetBits) \in Nat \ {0} /\ Len(Defaults) \in Nat \ {0}
  BY Lists
<1>b. \A i \in 1 .. Len(ResetBits) : ResetBits[i] \in Bits
  BY Lists
<1>d. \A i \in 1 .. Len(Defaults) : Defaults[i].reg \in Settings /\ Defaults[i].val \in Nat
  BY Lists
<1>1. CASE ClearRead(p)
  <2>1. TypeOK'
    BY <1>1 DEF TypeOK, ClearRead, Goto, registers, history
  <2>2. UNCHANGED <<registers, raw, idx>> /\ pc[p] = "clear read"
        /\ pc' = [pc EXCEPT ![p] = "clear write"] /\ seen' = [seen EXCEPT ![p] = reset]
    BY <1>1 DEF ClearRead, Goto, history
  <2>3. reset # {} => raw \/ Configured
    BY DEF ConfiguredBeforeReleased
  <2> QED
    BY <2>1, <2>2, <2>3, LocalStep DEF Trusting, TypeOK, Indices
<1>2. CASE ClearWrite(p)
  <2>1. /\ pc[p] = "clear write"
        /\ pc' = [pc EXCEPT ![p] = IF idx[p] = Len(ResetBits) THEN "configure" ELSE "clear read"]
        /\ idx' = [idx EXCEPT ![p] = IF idx[p] = Len(ResetBits) THEN 1 ELSE idx[p] + 1]
        /\ reset' = seen[p] \ {ResetBits[idx[p]]} /\ seen' = [seen EXCEPT ![p] = {}]
        /\ UNCHANGED <<setting, cmd, mapped, ret, alone, history>>
    BY <1>2 DEF ClearWrite, Goto
  <2>i. idx[p] \in 1 .. Len(ResetBits)
    BY <1>0, <2>1 DEF Indices
  <2>c. idx'[p] = IF idx[p] = Len(ResetBits) THEN 1 ELSE idx[p] + 1
    BY <2>1 DEF TypeOK
  <2>a. idx'[p] \in Nat /\ idx[p] \in Nat /\ (idx[p] # Len(ResetBits) => idx'[p] \in 1 .. Len(ResetBits))
    BY <1>n, <2>i, <2>c
  <2>2. TypeOK'
    BY <2>1, <2>a DEF TypeOK, history
  <2>3. (Configured' <=> Configured) /\ raw' = raw
    BY <2>1 DEF Configured, history
  <2>4. ReleasesConfigured' /\ Indices'
    BY <1>0, <2>1, <2>i, <2>3, <2>a DEF TypeOK, ReleasesConfigured, Indices, Releasing
  <2>5. ConfiguresInOrder'
    <3> SUFFICES ASSUME NEW q \in Procs, pc'[q] = "configure"
                 PROVE  /\ idx'[q] \in DOMAIN Defaults
                        /\ \A i \in 1 .. idx'[q] - 1 : setting'[Defaults[i].reg] # PowerOn
      BY DEF ConfiguresInOrder
    <3>1. CASE q = p
      <4>1. idx'[p] = 1
        BY <2>1, <2>c, <3>1 DEF TypeOK
      <4> QED
        BY <1>0, <3>1, <4>1
    <3>2. CASE q # p
      <4>1. pc[q] = "configure" /\ idx'[q] = idx[q] /\ setting' = setting
        BY <2>1, <3>2 DEF TypeOK
      <4> QED
        BY <4>1 DEF ConfiguresInOrder
    <3> QED
      BY <3>1, <3>2
  <2>6. reset' # {} => raw \/ Configured
    BY <2>1 DEF TrustIsGood
  <2> QED
    BY <2>1, <2>2, <2>3, <2>4, <2>5, <2>6 DEF TypeOK, TrustIsGood, Trusting, ConfiguredBeforeReleased
<1>3. CASE Configure(p)
  <2> DEFINE d == Defaults[idx[p]]
  <2>1. /\ pc[p] = "configure"
        /\ pc' = [pc EXCEPT ![p] = IF idx[p] = Len(Defaults) THEN "release read" ELSE "configure"]
        /\ idx' = [idx EXCEPT ![p] = IF idx[p] = Len(Defaults) THEN 1 ELSE idx[p] + 1]
        /\ setting' = [setting EXCEPT ![d.reg] = Stored(d.reg, d.val)]
        /\ UNCHANGED <<reset, cmd, mapped, seen, ret, alone, history>>
    BY <1>3 DEF Configure, Goto
  <2>i. idx[p] \in 1 .. Len(Defaults)
    BY <1>0, <2>1 DEF ConfiguresInOrder
  <2>c. idx'[p] = IF idx[p] = Len(Defaults) THEN 1 ELSE idx[p] + 1
    BY <2>1 DEF TypeOK
  <2>a. idx'[p] \in Nat /\ idx[p] \in Nat /\ (idx[p] # Len(Defaults) => idx'[p] \in 1 .. Len(Defaults))
    BY <1>n, <2>i, <2>c
  <2>2. d.reg \in Settings /\ Stored(d.reg, d.val) \in Nat
    BY <1>d, <2>i, StoredNat
  <2>3. /\ Configured => Configured'
        /\ setting' \in [Settings -> Nat \cup {PowerOn}]
        /\ \A r \in Settings : setting[r] # PowerOn => setting'[r] # PowerOn
    BY <2>1, <2>2, StaysConfigured
  <2>4. TypeOK'
    BY <1>0, <2>1, <2>3, <2>a DEF TypeOK, history
  <2>5. \A i \in 1 .. idx[p] : setting'[Defaults[i].reg] # PowerOn
    <3>1. setting'[d.reg] # PowerOn
      <4>1. setting'[d.reg] = Stored(d.reg, d.val)
        BY <2>1, <2>2 DEF TypeOK
      <4> QED
        BY <2>2, <4>1 DEF PowerOn
    <3>2. \A i \in 1 .. idx[p] - 1 : setting[Defaults[i].reg] # PowerOn
      BY <2>1 DEF ConfiguresInOrder
    <3>3. \A i \in 1 .. idx[p] - 1 : Defaults[i].reg \in Settings
      BY <1>d, <1>n, <2>i
    <3>4. \A i \in 1 .. idx[p] : i = idx[p] \/ i \in 1 .. idx[p] - 1
      BY <2>a
    <3> QED
      BY <2>3, <3>1, <3>2, <3>3, <3>4
  <2>6. ASSUME idx[p] = Len(Defaults) PROVE Configured'
    BY <1>0, <2>5, <2>6 DEF Configured, Settings
  <2>s. \A q \in Procs \ {p} : pc'[q] = pc[q] /\ idx'[q] = idx[q]
    BY <2>1 DEF TypeOK
  <2>t. pc'[p] = IF idx[p] = Len(Defaults) THEN "release read" ELSE "configure"
    BY <2>1 DEF TypeOK
  <2>7. ReleasesConfigured' /\ Indices'
    <3>1. ReleasesConfigured'
      BY <2>3, <2>6, <2>s, <2>t DEF ReleasesConfigured, Releasing
    <3>2. 1 \in DOMAIN ResetBits
      BY <1>0
    <3>3. Indices'
      BY <2>s, <2>t, <2>c, <3>2 DEF Indices
    <3> QED
      BY <3>1, <3>3
  <2>8. ConfiguresInOrder'
    <3> SUFFICES ASSUME NEW q \in Procs, pc'[q] = "configure"
                 PROVE  /\ idx'[q] \in DOMAIN Defaults
                        /\ \A i \in 1 .. idx'[q] - 1 : setting'[Defaults[i].reg] # PowerOn
      BY DEF ConfiguresInOrder
    <3>1. CASE q = p
      <4>1. idx[p] # Len(Defaults) /\ idx'[p] = idx[p] + 1
        BY <2>1, <3>1 DEF TypeOK
      <4> QED
        BY <1>0, <2>1, <2>5, <2>a, <3>1, <4>1
    <3>2. CASE q # p
      <4>1. pc[q] = "configure" /\ idx'[q] = idx[q]
        BY <2>1, <3>2 DEF TypeOK
      <4>2. /\ idx[q] \in DOMAIN Defaults
            /\ \A i \in 1 .. idx[q] - 1 : setting[Defaults[i].reg] # PowerOn
        BY <4>1 DEF ConfiguresInOrder
      <4> QED
        BY <1>0, <1>d, <2>3, <4>1, <4>2
    <3> QED
      BY <3>1, <3>2
  <2>9. TrustIsGood' /\ ConfiguredBeforeReleased'
    BY <2>1, <2>3 DEF TypeOK, TrustIsGood, Trusting, ConfiguredBeforeReleased, history
  <2> QED
    BY <2>4, <2>7, <2>8, <2>9
<1>4. CASE ReleaseRead(p)
  <2>1. /\ pc[p] = "release read" /\ pc' = [pc EXCEPT ![p] = "release write"]
        /\ seen' = [seen EXCEPT ![p] = reset]
        /\ UNCHANGED <<registers, cmd, mapped, idx, ret, alone, history>>
    BY <1>4 DEF ReleaseRead, Goto
  <2>2. TypeOK'
    BY <2>1 DEF TypeOK, registers, history
  <2>3. (Configured' <=> Configured) /\ raw' = raw
    BY <2>1 DEF Configured, registers, history
  <2>4. ReleasesConfigured' /\ Indices' /\ ConfiguresInOrder'
    BY <2>1, <2>3 DEF TypeOK, ReleasesConfigured, Indices, ConfiguresInOrder, Releasing, registers
  <2> QED
    BY <2>1, <2>2, <2>3, <2>4 DEF TypeOK, TrustIsGood, Trusting, ConfiguredBeforeReleased, registers
<1>5. CASE ReleaseWrite(p)
  <2>1. /\ pc[p] = "release write"
        /\ pc' = [pc EXCEPT ![p] = IF idx[p] = Len(ResetBits) THEN ret[p] ELSE "release read"]
        /\ idx' = [idx EXCEPT ![p] = IF idx[p] = Len(ResetBits) THEN 0 ELSE idx[p] + 1]
        /\ reset' = seen[p] \cup {ResetBits[idx[p]]} /\ seen' = [seen EXCEPT ![p] = {}]
        /\ UNCHANGED <<setting, cmd, mapped, ret, alone, history>>
    BY <1>5 DEF ReleaseWrite, Goto
  <2>i. idx[p] \in 1 .. Len(ResetBits)
    BY <1>0, <2>1 DEF Indices
  <2>c. idx'[p] = IF idx[p] = Len(ResetBits) THEN 0 ELSE idx[p] + 1
    BY <2>1 DEF TypeOK
  <2>a. idx'[p] \in Nat /\ idx[p] \in Nat /\ (idx[p] # Len(ResetBits) => idx'[p] \in 1 .. Len(ResetBits))
    BY <1>n, <2>i, <2>c
  <2>2. TypeOK'
    BY <1>b, <2>1, <2>i, <2>a DEF TypeOK, history
  <2>3. (Configured' <=> Configured) /\ raw' = raw /\ Configured
    BY <2>1 DEF Configured, ReleasesConfigured, Releasing, history
  <2>4. ReleasesConfigured' /\ Indices'
    BY <1>0, <2>1, <2>i, <2>3, <2>a DEF TypeOK, ReleasesConfigured, Indices, Releasing
  <2>5. ConfiguresInOrder'
    BY <2>1 DEF TypeOK, ConfiguresInOrder
  <2> QED
    BY <2>2, <2>3, <2>4, <2>5 DEF TrustIsGood, ConfiguredBeforeReleased
<1> QED
  BY <1>1, <1>2, <1>3, <1>4, <1>5 DEF InitSystem

\* Where nothing changes nothing is broken.
LEMMA StutterInv ==
  ASSUME IInv, UNCHANGED vars
  PROVE  IInv'
BY DEF IInv, TypeOK, Indices, ReleasesConfigured, ConfiguresInOrder, TrustIsGood, Configured,
       ConfiguredBeforeReleased, vars, registers, processVars, history

\* Every step keeps what holds of the registers and the processes.
LEMMA StepInv ==
  ASSUME LiaAssumption, IInv, [Next]_vars
  PROVE  IInv'
BY StartInv, DevicesInitInv, MainInv, RegistersInv, InitSystemInv, StutterInv DEF Next

\* zynq_io.c, init_system: however many processes run, overlap and die, a
\* module is out of reset only when every register has been written, unless
\* the reset register was written by hand.
THEOREM RegisterProgramSafe ==
  ASSUME LiaAssumption
  PROVE  Spec => [](TypeOK /\ ConfiguredBeforeReleased)
<1>1. Init => IInv
  BY InitInv
<1>2. IInv /\ [Next]_vars => IInv'
  BY StepInv
<1>3. IInv => TypeOK /\ ConfiguredBeforeReleased
  BY DEF IInv
<1> QED
  BY <1>1, <1>2, <1>3, PTL DEF Spec

----------------------------------------------------------------------------
(* A process that runs alone.                                              *)

\* What the one process that runs has to be like.
LoneReady(p) ==
  /\ pc[p] = "release read" => \A i \in 1 .. idx[p] - 1 : ResetBits[i] \in reset
  /\ pc[p] = "release write" => \A i \in 1 .. idx[p] - 1 : ResetBits[i] \in seen[p]
  /\ Len(ResetBits) = 1 /\ ~raw /\ pc[p] \in {"act", "stream write", "poll", "done"} => Bits \subseteq reset
  /\ cmd[p].op = "i" /\ pc[p] = "done" => Bits \subseteq reset /\ Configured

LoneInv ==
  /\ \A p \in Procs : pc[p] \in {"stream write", "poll"} => cmd[p].op = "o"
  /\ \A p \in Procs : alone[p] => LoneReady(p) /\ \A q \in Procs \ {p} : pc[q] = "off"

\* A step of a process that is under way is a step of the only one, or of one
\* beside which nobody is alone.
LEMMA LoneFrame ==
  ASSUME LoneInv, NEW p \in Procs, pc[p] # "off",
         \A q \in Procs \ {p} : pc'[q] = pc[q] /\ cmd'[q] = cmd[q] /\ alone'[q] = alone[q],
         alone'[p] => alone[p] /\ LoneReady(p)',
         pc'[p] \in {"stream write", "poll"} => cmd'[p].op = "o"
  PROVE  LoneInv'
BY DEF LoneInv

\* With one bit there is nothing between none of it and all of it.
LEMMA OneBit ==
  ASSUME LiaAssumption, Len(ResetBits) = 1
  PROVE  Bits = {ResetBits[1]}
BY Lists DEF Bits

\* One back from the next is where it was.
LEMMA BackOne ==
  ASSUME NEW a, NEW b \in Nat, a = b + 1
  PROVE  a - 1 = b
OBVIOUS

\* A step keeps what holds of a process nobody runs beside.
LEMMA LoneStep ==
  ASSUME LiaAssumption, IInv, LoneInv, [Next]_vars
  PROVE  LoneInv'
<1> USE DEF IInv
<1>1. CASE UNCHANGED vars
  BY <1>1 DEF LoneInv, LoneReady, Configured, vars, registers, processVars, history
<1>2. ASSUME NEW p \in Procs, ParseParam(p) PROVE LoneInv'
  <2>1. PICK c \in Requests : Start(p, c)
    BY <1>2 DEF ParseParam
  <2>2. /\ pc[p] = "off" /\ pc' = [pc EXCEPT ![p] = "open"]
        /\ cmd' = [cmd EXCEPT ![p] = c]
        /\ alone' = [q \in Procs |-> IF q = p THEN \A r \in Procs \ {p} : pc[r] = "off" ELSE FALSE]
    BY <2>1 DEF Start, Goto
  <2> QED
    BY <2>2 DEF TypeOK, LoneInv, LoneReady
<1>3. ASSUME NEW p \in Procs, Gone(p), pc[p] # "off" PROVE LoneInv'
  <2>1. /\ pc'[p] = "off" /\ alone'[p] = FALSE
        /\ \A q \in Procs \ {p} : pc'[q] = pc[q] /\ cmd'[q] = cmd[q] /\ alone'[q] = alone[q]
    BY <1>3 DEF Gone, TypeOK
  <2> QED
    BY <1>3, <2>1, LoneFrame
<1>4. ASSUME NEW p \in Procs, DevicesInit(p) PROVE LoneInv'
  <2>1. CASE NoSize(p)
    BY <2>1, <1>3 DEF NoSize
  <2>2. CASE \E got \in SUBSET {"cfg", "sts"} : OpenDevices(p, got)
    <3>1. pc[p] = "open" /\ pc' = [pc EXCEPT ![p] = "first"] /\ UNCHANGED <<cmd, alone>>
      BY <2>2 DEF OpenDevices, Goto
    <3>2. pc'[p] = "first" /\ \A q \in Procs \ {p} : pc'[q] = pc[q]
      BY <3>1 DEF TypeOK
    <3>3. LoneReady(p)'
      BY <3>2 DEF LoneReady
    <3> QED
      BY <3>1, <3>2, <3>3, LoneFrame
  <2> QED
    BY <1>4, <2>1, <2>2 DEF DevicesInit
<1>5. ASSUME NEW p \in Procs, Main(p) \/ Signal(p) PROVE LoneInv'
  <2>1. CASE FirstAccess(p)
    <3>1. /\ pc[p] = "first" /\ pc' = [pc EXCEPT ![p] = IF reset = {} THEN "clear read" ELSE "act"]
          /\ UNCHANGED <<reset, raw, cmd, alone>>
      BY <2>1 DEF FirstAccess, Goto, registers, history
    <3>2. Len(ResetBits) = 1 /\ reset # {} => Bits \subseteq reset
      <4> SUFFICES ASSUME Len(ResetBits) = 1, reset # {} PROVE Bits \subseteq reset
        OBVIOUS
      <4>1. Bits = {ResetBits[1]} /\ reset \subseteq Bits
        BY OneBit DEF TypeOK
      <4> QED
        BY <4>1
    <3>3. alone'[p] => LoneReady(p)'
      BY <3>1, <3>2 DEF TypeOK, LoneReady
    <3> QED
      BY <3>1, <3>3, LoneFrame DEF TypeOK
  <2>2. CASE InitAgain(p)
    <3>1. pc[p] = "act" /\ pc' = [pc EXCEPT ![p] = "clear read"] /\ UNCHANGED <<cmd, alone>>
      BY <2>2 DEF InitAgain, Goto
    <3> QED
      BY <3>1, LoneFrame DEF TypeOK, LoneReady
  <2>3. CASE StreamRead(p)
    <3>1. /\ pc[p] = "act" /\ pc' = [pc EXCEPT ![p] = "stream write"] /\ cmd[p].op = "o"
          /\ UNCHANGED <<reset, raw, cmd, alone>>
      BY <2>3 DEF StreamRead, Goto, registers, history
    <3>2. pc'[p] = "stream write" /\ \A q \in Procs \ {p} : pc'[q] = pc[q]
      BY <3>1 DEF TypeOK
    <3>3. alone'[p] => LoneReady(p)'
      BY <3>1, <3>2 DEF LoneInv, LoneReady
    <3> QED
      BY <3>1, <3>2, <3>3, LoneFrame
  <2>4. CASE StreamWrite(p)
    <3>1. /\ pc[p] = "stream write" /\ pc' = [pc EXCEPT ![p] = "poll"]
          /\ reset' = seen[p] \cup {ResetBits[1]} /\ UNCHANGED <<cmd, alone>>
      BY <2>4 DEF StreamWrite, Goto
    <3>2. cmd[p].op = "o" /\ (Len(ResetBits) = 1 => Bits \subseteq reset')
      BY <3>1, OneBit DEF LoneInv
    <3>3. pc'[p] = "poll" /\ \A q \in Procs \ {p} : pc'[q] = pc[q]
      BY <3>1 DEF TypeOK
    <3>4. LoneReady(p)'
      BY <3>2, <3>3 DEF LoneReady
    <3>5. alone'[p] => alone[p]
      BY <3>1
    <3> QED
      BY <3>1, <3>2, <3>3, <3>4, <3>5, LoneFrame
  <2>5. CASE Interrupt(p)
    <3>1. /\ pc[p] = "poll" /\ pc' = [pc EXCEPT ![p] = "done"]
          /\ UNCHANGED <<reset, raw, cmd, alone>>
      BY <2>5 DEF Interrupt, Goto, registers, history
    <3>2. cmd[p].op = "o"
      BY <3>1 DEF LoneInv
    <3>3. pc'[p] = "done" /\ \A q \in Procs \ {p} : pc'[q] = pc[q]
      BY <3>1 DEF TypeOK
    <3>4. alone'[p] => LoneReady(p)'
      BY <3>1, <3>2, <3>3 DEF LoneInv, LoneReady
    <3> QED
      BY <3>1, <3>3, <3>4, LoneFrame
  <2>6. CASE CfgFault(p) \/ (\E zero \in BOOLEAN : PollFault(p, zero)) \/ Return(p) \/ Kill(p)
    <3>1. Gone(p) /\ pc[p] # "off"
      BY <2>6 DEF CfgFault, PollFault, Return, Kill
    <3> QED
      BY <3>1, <1>3
  <2> QED
    BY <1>5, <2>1, <2>2, <2>3, <2>4, <2>5, <2>6 DEF Main, Signal
<1>6. ASSUME NEW p \in Procs, Registers(p) PROVE LoneInv'
  <2>1. CASE RegisterFault(p)
    BY <2>1, <1>3 DEF RegisterFault
  <2>2. CASE ~RegisterFault(p)
    <3>1. /\ pc[p] = "act" /\ cmd[p].op # "i"
          /\ (pc' = [pc EXCEPT ![p] = "done"] \/ pc' = [pc EXCEPT ![p] = "hung"])
          /\ (UNCHANGED <<reset, raw>> \/ raw' = TRUE) /\ UNCHANGED <<cmd, alone>>
      BY <1>6, <2>2 DEF Registers, ReadRegister, WriteStatus, WriteRegister, SetRegister, Goto, registers, history
    <3>2. pc'[p] \in {"done", "hung"} /\ \A q \in Procs \ {p} : pc'[q] = pc[q]
      BY <3>1 DEF TypeOK
    <3>3. alone'[p] => LoneReady(p)'
      <4>1. CASE raw'
        BY <3>1, <3>2, <4>1 DEF LoneReady
      <4>2. CASE ~raw'
        <5>1. UNCHANGED <<reset, raw>>
          BY <3>1, <4>2
        <5> QED
          BY <3>1, <3>2, <5>1 DEF LoneInv, LoneReady
      <4> QED
        BY <4>1, <4>2
    <3> QED
      BY <3>1, <3>2, <3>3, LoneFrame
  <2> QED
    BY <2>1, <2>2
<1>7. ASSUME NEW p \in Procs, InitSystem(p) PROVE LoneInv'
  <2>0. Len(ResetBits) \in Nat \ {0} /\ DOMAIN ResetBits = 1 .. Len(ResetBits)
    BY Lists
  <2>1. CASE ClearRead(p) \/ ClearWrite(p)
    <3>1. /\ pc[p] \in {"clear read", "clear write"} /\ UNCHANGED <<cmd, alone>>
          /\ \E to \in {"clear read", "clear write", "configure"} : pc' = [pc EXCEPT ![p] = to]
      BY <2>1 DEF ClearRead, ClearWrite, Goto
    <3>2. /\ pc'[p] \in {"clear read", "clear write", "configure"}
          /\ \A q \in Procs \ {p} : pc'[q] = pc[q]
      BY <3>1 DEF TypeOK
    <3>3. LoneReady(p)'
      BY <3>2 DEF LoneReady
    <3> QED
      BY <3>1, <3>2, <3>3, LoneFrame
  <2>2. CASE Configure(p)
    <3>1. /\ pc[p] = "configure" /\ UNCHANGED <<cmd, alone>>
          /\ pc' = [pc EXCEPT ![p] = IF idx[p] = Len(Defaults) THEN "release read" ELSE "configure"]
          /\ idx' = [idx EXCEPT ![p] = IF idx[p] = Len(Defaults) THEN 1 ELSE idx[p] + 1]
      BY <2>2 DEF Configure, Goto
    <3>2. pc'[p] = "configure" \/ (pc'[p] = "release read" /\ idx'[p] = 1)
      BY <3>1 DEF TypeOK
    <3>3. LoneReady(p)'
      <4>1. \A i \in 1 .. 1 - 1 : FALSE
        OBVIOUS
      <4> QED
        BY <3>2, <4>1 DEF LoneReady
    <3> QED
      BY <3>1, <3>2, <3>3, LoneFrame DEF TypeOK
  <2>3. CASE ReleaseRead(p)
    <3>1. /\ pc[p] = "release read" /\ pc' = [pc EXCEPT ![p] = "release write"]
          /\ seen' = [seen EXCEPT ![p] = reset] /\ UNCHANGED <<idx, cmd, alone>>
      BY <2>3 DEF ReleaseRead, Goto
    <3>2. alone'[p] => LoneReady(p)'
      BY <3>1 DEF TypeOK, LoneInv, LoneReady
    <3> QED
      BY <3>1, <3>2, LoneFrame DEF TypeOK
  <2>4. CASE ReleaseWrite(p)
    <3>1. /\ pc[p] = "release write" /\ UNCHANGED <<setting, ret, cmd, alone>>
          /\ pc' = [pc EXCEPT ![p] = IF idx[p] = Len(ResetBits) THEN ret[p] ELSE "release read"]
          /\ idx' = [idx EXCEPT ![p] = IF idx[p] = Len(ResetBits) THEN 0 ELSE idx[p] + 1]
          /\ reset' = seen[p] \cup {ResetBits[idx[p]]}
      BY <2>4 DEF ReleaseWrite, Goto
    <3>2. Configured'
      BY <3>1 DEF ReleasesConfigured, Releasing, Configured
    <3>3. /\ pc'[p] = IF idx[p] = Len(ResetBits) THEN ret[p] ELSE "release read"
          /\ idx'[p] = IF idx[p] = Len(ResetBits) THEN 0 ELSE idx[p] + 1
          /\ ret[p] \in {"act", "done"} /\ idx[p] \in Nat
      BY <3>1 DEF TypeOK
    <3>4. ASSUME alone[p] PROVE \A i \in 1 .. idx[p] : ResetBits[i] \in reset'
      <4>1. \A i \in 1 .. idx[p] - 1 : ResetBits[i] \in seen[p]
        BY <3>1, <3>4 DEF LoneInv, LoneReady
      <4>2. \A i \in 1 .. idx[p] : i = idx[p] \/ i \in 1 .. idx[p] - 1
        <5>1. idx[p] \in Nat
          BY <3>3
        <5> QED
          BY <5>1
      <4> QED
        BY <3>1, <4>1, <4>2
    <3>5. ASSUME alone[p], idx[p] = Len(ResetBits) PROVE Bits \subseteq reset'
      BY <2>0, <3>4, <3>5 DEF Bits
    <3>6. alone'[p] => LoneReady(p)'
      <4> SUFFICES ASSUME alone[p] PROVE LoneReady(p)'
        BY <3>1
      <4>1. CASE idx[p] = Len(ResetBits)
        <5>1. pc'[p] \in {"act", "done"} /\ Bits \subseteq reset'
          BY <3>3, <3>5, <4>1
        <5> QED
          BY <3>2, <5>1 DEF LoneReady
      <4>2. CASE idx[p] # Len(ResetBits)
        <5>1. pc'[p] = "release read" /\ idx'[p] = idx[p] + 1
          BY <3>3, <4>2
        <5>2. idx[p] \in Nat
          BY <3>3
        <5>3. idx'[p] - 1 = idx[p]
          BY <5>1, <5>2, BackOne
        <5> QED
          BY <3>4, <5>1, <5>3 DEF LoneReady
      <4> QED
        BY <4>1, <4>2
    <3> QED
      BY <3>1, <3>3, <3>6, LoneFrame DEF TypeOK
  <2> QED
    BY <1>7, <2>1, <2>2, <2>3, <2>4 DEF InitSystem
<1> QED
  BY <1>1, <1>2, <1>4, <1>5, <1>6, <1>7 DEF Next

\* What the two invariants say of a process that has finished.
LEMMA InvReady ==
  ASSUME LiaAssumption, IInv, LoneInv
  PROVE  LoneRunLeavesReady
<1> SUFFICES ASSUME NEW p \in Procs, pc[p] = "done", alone[p],
                    cmd[p].op = "i" \/ (Len(ResetBits) = 1 /\ ~raw)
             PROVE  Bits \subseteq reset /\ Configured
  BY DEF LoneRunLeavesReady
<1>1. CASE cmd[p].op = "i"
  BY <1>1 DEF LoneInv, LoneReady
<1>2. CASE Len(ResetBits) = 1 /\ ~raw
  <2>1. Bits \subseteq reset
    BY <1>2 DEF LoneInv, LoneReady
  <2>2. reset # {}
    BY <1>2, <2>1, OneBit
  <2> QED
    BY <1>2, <2>1, <2>2 DEF IInv, ConfiguredBeforeReleased
<1> QED
  BY <1>1, <1>2

\* zynq_io.c, init_system, and lia_rp.c, main: whatever the registers hold when
\* a process starts, it leaves every module released and configured if nobody
\* runs beside it and it was asked to initialise, or there is one bit only.
THEOREM LoneRunReady ==
  ASSUME LiaAssumption
  PROVE  Spec => []LoneRunLeavesReady
<1>1. Init => IInv /\ LoneInv
  BY InitInv DEF Init, LoneInv
<1>2. (IInv /\ LoneInv) /\ [Next]_vars => (IInv /\ LoneInv)'
  BY StepInv, LoneStep
<1> QED
  BY <1>1, <1>2, InvReady, PTL DEF Spec

----------------------------------------------------------------------------
(* Processes that initialise at the same time.                             *)

\* While the bit is clear there is somebody who will set it.
RestInv ==
  Len(ResetBits) = 1 /\ ~raw /\ ~cut /\ Configured /\ reset = {} => \E p \in Procs : InInit(p)

\* Each initialisation clears the bit before it sets it: while it is clear,
\* somebody is still between the two.
LEMMA RestStep ==
  ASSUME LiaAssumption, IInv, RestInv, [Next]_vars
  PROVE  RestInv'
<1> USE DEF IInv
<1>1. CASE UNCHANGED vars
  BY <1>1 DEF RestInv, InInit, Configured, vars, registers, processVars, history
<1>2. ASSUME NEW p \in Procs, UNCHANGED <<registers, raw>>, cut => cut',
             InInit(p) => InInit(p)' \/ cut',
             \A q \in Procs \ {p} : pc'[q] = pc[q]
      PROVE  RestInv'
  BY <1>2 DEF RestInv, InInit, Configured, registers
<1>3. ASSUME NEW p \in Procs, InInit(p)' PROVE RestInv'
  BY <1>3 DEF RestInv
<1>4. ASSUME reset' # {} \/ raw' PROVE RestInv'
  BY <1>4 DEF RestInv
<1>5. ASSUME NEW p \in Procs, Gone(p), ~InInit(p) \/ cut', UNCHANGED raw, cut => cut' PROVE RestInv'
  <2>1. UNCHANGED <<registers, raw>> /\ \A q \in Procs \ {p} : pc'[q] = pc[q]
    BY <1>5 DEF Gone, TypeOK
  <2> QED
    BY <1>2, <1>5, <2>1
<1>6. ASSUME NEW p \in Procs, ParseParam(p) \/ DevicesInit(p) PROVE RestInv'
  <2>1. CASE NoSize(p)
    BY <1>5, <2>1 DEF NoSize, history, InInit
  <2>2. CASE ~NoSize(p)
    <3>1. /\ UNCHANGED <<registers, raw, cut>> /\ pc[p] \in {"off", "open"}
          /\ \E to \in {"open", "first"} : pc' = [pc EXCEPT ![p] = to]
      BY <1>6, <2>2 DEF ParseParam, Start, DevicesInit, OpenDevices, Goto, registers, history
    <3>2. \A q \in Procs \ {p} : pc'[q] = pc[q]
      BY <3>1 DEF TypeOK
    <3> QED
      BY <1>2, <3>1, <3>2 DEF InInit
  <2> QED
    BY <2>1, <2>2
<1>7. ASSUME NEW p \in Procs, Main(p) \/ Signal(p) PROVE RestInv'
  <2>1. CASE FirstAccess(p) \/ InitAgain(p) \/ StreamRead(p) \/ Interrupt(p)
    <3>1. /\ UNCHANGED <<registers, raw, cut>> /\ pc[p] \in {"first", "act", "poll"}
          /\ \E to \in {"clear read", "act", "stream write", "done"} : pc' = [pc EXCEPT ![p] = to]
      BY <2>1 DEF FirstAccess, InitAgain, StreamRead, Interrupt, Goto, registers, history
    <3>2. \A q \in Procs \ {p} : pc'[q] = pc[q]
      BY <3>1 DEF TypeOK
    <3> QED
      BY <1>2, <3>1, <3>2 DEF InInit
  <2>2. CASE StreamWrite(p)
    BY <1>4, <2>2 DEF StreamWrite
  <2>3. CASE CfgFault(p) \/ (\E zero \in BOOLEAN : PollFault(p, zero)) \/ Return(p) \/ Kill(p)
    <3>1. Gone(p) /\ UNCHANGED raw /\ (cut => cut') /\ (~InInit(p) \/ cut')
      <4>1. CASE Kill(p)
        <5>1. Gone(p) /\ UNCHANGED raw /\ cut' = (cut \/ InInit(p))
          BY <4>1 DEF Kill
        <5> QED
          BY <5>1, Zenon
      <4>2. CASE CfgFault(p) \/ (\E zero \in BOOLEAN : PollFault(p, zero)) \/ Return(p)
        <5>1. Gone(p) /\ UNCHANGED <<raw, cut>> /\ pc[p] \in {"first", "poll", "done"}
          BY <4>2 DEF CfgFault, PollFault, Return, history
        <5> QED
          BY <5>1 DEF InInit
      <4> QED
        BY <2>3, <4>1, <4>2
    <3> QED
      BY <1>5, <3>1
  <2> QED
    BY <1>7, <2>1, <2>2, <2>3 DEF Main, Signal
<1>8. ASSUME NEW p \in Procs, Registers(p) PROVE RestInv'
  <2>1. CASE RegisterFault(p)
    BY <1>5, <2>1 DEF RegisterFault, history, InInit
  <2>2. CASE ReadRegister(p) \/ WriteStatus(p)
    <3>1. /\ UNCHANGED <<registers, raw, cut>> /\ pc[p] = "act"
          /\ \E to \in {"done", "hung"} : pc' = [pc EXCEPT ![p] = to]
      BY <2>2 DEF ReadRegister, WriteStatus, Goto, history
    <3> QED
      BY <1>2, <3>1 DEF TypeOK, InInit
  <2>3. CASE WriteRegister(p) \/ SetRegister(p)
    <3>1. /\ pc[p] = "act" /\ pc' = [pc EXCEPT ![p] = "done"] /\ cut' = cut
          /\ raw' \/ (UNCHANGED <<reset, raw>>)
      BY <2>3 DEF WriteRegister, SetRegister, Goto, history
    <3>2. raw \/ Configured
      BY <3>1 DEF TrustIsGood, Trusting
    <3>3. \A q \in Procs : InInit(q) => InInit(q)'
      BY <3>1 DEF InInit, TypeOK
    <3> QED
      BY <3>1, <3>2, <3>3 DEF RestInv
  <2> QED
    BY <1>8, <2>1, <2>2, <2>3 DEF Registers
<1>9. ASSUME NEW p \in Procs, InitSystem(p) PROVE RestInv'
  <2>1. CASE ReleaseWrite(p)
    BY <1>4, <2>1 DEF ReleaseWrite
  <2>2. CASE ~ReleaseWrite(p)
    <3>1. \E to \in {"clear read", "clear write", "configure", "release read", "release write"} :
             pc' = [pc EXCEPT ![p] = to]
      BY <1>9, <2>2 DEF InitSystem, ClearRead, ClearWrite, Configure, ReleaseRead, Goto
    <3> QED
      BY <1>3, <3>1 DEF TypeOK, InInit
  <2> QED
    BY <2>1, <2>2
<1> QED
  BY <1>1, <1>6, <1>7, <1>8, <1>9 DEF Next

\* What the two invariants say when everybody has returned.
LEMMA InvRest ==
  ASSUME LiaAssumption, IInv, RestInv
  PROVE  ReleasedAtRest
<1> SUFFICES ASSUME Len(ResetBits) = 1, ~raw, ~cut, Configured, \A p \in Procs : ~InInit(p)
             PROVE  reset = Bits
  BY DEF ReleasedAtRest
<1>1. reset # {} /\ reset \subseteq Bits
  BY DEF IInv, TypeOK, RestInv
<1> QED
  BY <1>1, OneBit

\* The three invariants hold at first: nobody runs, and nothing is written.
LEMMA InitAll ==
  ASSUME LiaAssumption, Init
  PROVE  IInv /\ LoneInv /\ RestInv
<1>1. IInv
  BY InitInv
<1>2. LoneInv
  BY DEF Init, LoneInv
<1>3. RestInv
  <2>1. 1 \in DOMAIN Defaults
    BY Lists
  <2>2. Defaults[1].reg \in Settings /\ setting[Defaults[1].reg] = PowerOn
    BY <2>1 DEF Init, Settings
  <2> QED
    BY <2>2 DEF RestInv, Configured
<1> QED
  BY <1>1, <1>2, <1>3

\* With one reset bit, initialisations that overlap leave it set.
THEOREM ReleasedWhenAtRest ==
  ASSUME LiaAssumption
  PROVE  Spec => []ReleasedAtRest
<1>1. (IInv /\ RestInv) /\ [Next]_vars => (IInv /\ RestInv)'
  BY StepInv, RestStep
<1> QED
  BY InitAll, <1>1, InvRest, PTL DEF Spec
=============================================================================
