---------------------------- MODULE LagoTrigger -----------------------------
(***************************************************************************)
(* cores/axis_lago_trigger: it watches the ADC samples of two channels and *)
(* sends records to a sink: the samples around a trigger with a time and a *)
(* count word, the peak of a sub-trigger, and a block of metadata at each  *)
(* PPS pulse.  Its state machine looks for these only when it is idle.     *)
(*                                                                         *)
(* A step is an edge of the ADC clock; its parameters are pps_i, the       *)
(* sample on s_axis_tdata and m_axis_tready.                               *)
(*                                                                         *)
(* Data.  A sample is a level of each channel.  A word is a kind, an index *)
(* and a source.  The index is the number of an ADC sample, counted from   *)
(* that of the record's trigger, or the place in an array.  The source of  *)
(* a time or count word is a trigger, of a sub-trigger's word a peak,      *)
(* counted from that of the record.                                        *)
(***************************************************************************)
EXTENDS Integers

CONSTANTS
  Channels,     \* {"a", "b"}
  Samples,      \* what s_axis_tdata may be: a level of each channel
  TrigLevel,    \* trig_lvl_i
  SubtrigLevel, \* subtrig_lvl_i
  DataLen,      \* DATA_ARRAY_LENGTH: 12
  MetaLen,      \* METADATA_ARRAY_LENGTH: 10
  SubtrigLen,   \* SUBTRIG_ARRAY_LENGTH: 3
  MaxLate       \* bound: triggers and samples are counted up to it

ASSUME LagoAssumption ==
  /\ Samples \subseteq [Channels -> Int]
  /\ [ch \in Channels |-> 0] \in Samples
  /\ TrigLevel \in Int /\ SubtrigLevel \in Int
  /\ DataLen \in Nat /\ DataLen >= 5
  /\ MetaLen \in Nat \ {0} /\ SubtrigLen \in Nat \ {0}
  /\ MaxLate \in Nat /\ MaxLate >= DataLen

VARIABLES
  adc,       \* adc_dat_a_reg and adc_dat_b_reg, the oldest sample at 0
  state,     \* state_reg
  count,     \* wr_count_reg
  data,      \* data_to_fifo_reg
  tvalid,    \* axis_tvalid_reg
  latched,   \* the trigger that tr_status_reg and cnt_status_reg are from or
             \* the peak that array_scalers_reg is from
  rel,       \* number of the sample in adc[0]
  got,       \* words the sink took of this record
  inOrder,   \* whether they are the words of the record, in order
  stalled,   \* whether tready was low during the record
  sources    \* of its time and count words, or of a sub-trigger's words

registers == <<adc, state, count, data, tvalid, latched>>
monitors == <<rel, got, inOrder, stalled, sources>>
lagoVars == <<registers, monitors>>

Word(kind, i, source) == [kind |-> kind, i |-> i, source |-> source]

NoWord == Word("none", 0, 0)

Limited(n) == IF n < MaxLate THEN n ELSE MaxLate

LagoInit ==
  /\ adc = [k \in 0 .. DataLen - 1 |-> [ch \in Channels |-> 0]]
  /\ state = "idle"
  /\ count = 0
  /\ data = NoWord
  /\ tvalid = FALSE
  /\ latched = 0
  /\ rel = 0
  /\ got = 0
  /\ inOrder = TRUE
  /\ stalled = FALSE
  /\ sources = {}

LagoReset ==
  /\ adc' = [k \in 0 .. DataLen - 1 |-> [ch \in Channels |-> 0]]
  /\ state' = "idle"
  /\ count' = 0
  /\ data' = NoWord
  /\ tvalid' = FALSE
  /\ latched' = 0
  /\ rel' = 0
  /\ got' = 0
  /\ inOrder' = TRUE
  /\ stalled' = FALSE
  /\ sources' = {}

----------------------------------------------------------------------------
(* The comparisons.                                                        *)

At(k, ch) == adc[k][ch]

\* tr_s: a channel crosses the level after two samples below it.
Trigger ==
  \E ch \in Channels :
    /\ At(3, ch) >= TrigLevel
    /\ At(2, ch) < TrigLevel
    /\ At(1, ch) < TrigLevel

\* subtr_s: a peak, or the first of two equal samples, below the level.
Subtrigger ==
  \E ch \in Channels :
    /\ At(2, ch) >= SubtrigLevel
    /\ At(1, ch) < At(2, ch)
    /\ \/ At(3, ch) < At(2, ch)
       \/ At(3, ch) = At(2, ch) /\ At(4, ch) < At(2, ch)
    /\ \A k \in 2 .. 4 : At(k, ch) < TrigLevel

Shifted(sample) ==
  [k \in 0 .. DataLen - 1 |-> IF k = DataLen - 1 THEN sample ELSE adc[k + 1]]

----------------------------------------------------------------------------
(* The state machine: the next values of state, count, data and tvalid.    *)

\* One word further, if the sink is ready.
Advance(tready, word) ==
  /\ count' = IF tready THEN count + 1 ELSE count
  /\ data' = IF tready THEN word ELSE data
  /\ tvalid' = TRUE

\* The end of a block; tready is not looked at.
LeaveBlock ==
  /\ state' = "idle"
  /\ count' = 0
  /\ tvalid' = FALSE
  /\ UNCHANGED data

\* PPS comes first, then a trigger, then a sub-trigger.  The array is read
\* before it is written: the word is that of the last second or peak.
IdleEdge(pps) ==
  /\ state = "idle"
  /\ state' = IF pps THEN "pps" ELSE IF Trigger THEN "trigger"
              ELSE IF Subtrigger THEN "subtrigger" ELSE "idle"
  /\ data' = IF pps THEN Word("stale", count, 0)
             ELSE IF ~Trigger /\ Subtrigger THEN Word("stale", count, 0) ELSE data
  /\ UNCHANGED <<count, tvalid>>

\* Mutant of TriggerEdge: the time word stays that of the record's trigger.
TriggerEdgeFirstTime(tready) ==
  /\ state = "trigger"
  /\ IF count = DataLen
     THEN /\ state' = "time"
          /\ count' = 0
          /\ data' = Word("time", 0, 0)
          /\ tvalid' = TRUE
     ELSE Advance(tready, Word("adc", rel, 0)) /\ UNCHANGED state

TriggerEdge(tready) ==
  /\ state = "trigger"
  /\ IF count = DataLen
     THEN /\ state' = "time"
          /\ count' = 0
          /\ data' = Word("time", 0, latched)
          /\ tvalid' = TRUE
     ELSE Advance(tready, Word("adc", rel, 0)) /\ UNCHANGED state

\* Mutant of TimeEdge: the count word follows whether the sink is ready or not.
TimeEdgeHasty(tready) ==
  /\ state = "time"
  /\ tvalid' = TRUE
  /\ data' = Word("count", 0, latched)
  /\ state' = "count"
  /\ UNCHANGED count

TimeEdge(tready) ==
  /\ state = "time"
  /\ tvalid' = TRUE
  /\ IF tready
     THEN data' = Word("count", 0, latched) /\ state' = "count"
     ELSE UNCHANGED <<data, state>>
  /\ UNCHANGED count

CountEdge(tready) ==
  /\ state = "count"
  /\ tvalid' = ~tready
  /\ state' = IF tready THEN "idle" ELSE "count"
  /\ UNCHANGED <<count, data>>

SubtriggerEdge(tready) ==
  /\ state = "subtrigger"
  /\ IF count = SubtrigLen
     THEN LeaveBlock
     ELSE Advance(tready, Word("sub", count, latched)) /\ UNCHANGED state

\* Mutant of PpsBlockEdge: the block ends a word early.
PpsBlockEdgeShort(tready) ==
  /\ state = "pps"
  /\ IF count = MetaLen - 1
     THEN LeaveBlock
     ELSE Advance(tready, Word("pps", count, 0)) /\ UNCHANGED state

PpsBlockEdge(tready) ==
  /\ state = "pps"
  /\ IF count = MetaLen
     THEN LeaveBlock
     ELSE Advance(tready, Word("pps", count, 0)) /\ UNCHANGED state

----------------------------------------------------------------------------
(* What is seen of it: the monitors are not in the code.                   *)

\* Whether a word is word n of a record of this kind.
Fits(word, kind, n) ==
  IF kind # "trigger" THEN word.kind = (IF kind = "pps" THEN "pps" ELSE "sub") /\ word.i = n
  ELSE IF n < DataLen THEN word.kind = "adc" /\ word.i = n - 2
  ELSE word.kind = IF n = DataLen THEN "time" ELSE "count"

RecordLen(kind) ==
  IF kind = "pps" THEN MetaLen ELSE IF kind = "subtrigger" THEN SubtrigLen ELSE DataLen + 2

Kind == IF state \in {"time", "count"} THEN "trigger" ELSE state

Taken(tready) == tvalid /\ tready

\* The words of a stalled record are counted only.
Observe(tready) ==
  IF state = "idle"
  THEN /\ got' = 0
       /\ inOrder' = TRUE
       /\ stalled' = FALSE
       /\ sources' = {}
       /\ rel' = IF state' = "trigger" THEN -2 ELSE 0
  ELSE /\ got' = IF Taken(tready) THEN got + 1 ELSE got
       /\ stalled' = (stalled \/ ~tready)
       /\ inOrder' = (inOrder /\ (Taken(tready) /\ ~stalled => Fits(data, Kind, got)))
       /\ sources' = IF stalled' THEN {}
                     ELSE IF Taken(tready) /\ data.kind \in {"time", "count", "sub"}
                          THEN sources \cup {data.source} ELSE sources
       /\ rel' = IF Kind = "trigger" /\ ~stalled' THEN Limited(rel + 1) ELSE 0

LatchedNext ==
  IF state = "idle" \/ stalled' THEN 0
  ELSE IF (IF Kind = "subtrigger" THEN Subtrigger ELSE Trigger) THEN Limited(latched + 1)
  ELSE latched

LagoEdge(pps, sample, tready) ==
  /\ \/ IdleEdge(pps)
     \/ TriggerEdge(tready)
     \/ TimeEdge(tready)
     \/ CountEdge(tready)
     \/ SubtriggerEdge(tready)
     \/ PpsBlockEdge(tready)
  /\ adc' = Shifted(sample)
  /\ Observe(tready)
  /\ latched' = LatchedNext
=============================================================================
