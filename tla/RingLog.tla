------------------------------ MODULE RingLog ------------------------------
(***************************************************************************)
(* What a recorder of this repository promises to the program that reads   *)
(* the RAM: a ring of Size words that takes the words of a stream one by   *)
(* one, and a position (the status register) where the next one goes.      *)
(* A word is its number in the stream.  ClearLog starts a new recording.   *)
(***************************************************************************)
EXTENDS Integers

CONSTANT Size  \* words of the ring

ASSUME SizeAssumption == Size \in Nat \ {0}

VARIABLES
  position,  \* the word the next one overwrites
  count,     \* words of this recording
  ram        \* the ring; NoWord where this recording has not come yet

logVars == <<position, count, ram>>

NoWord == -1

LogInit ==
  /\ position = 0
  /\ count = 0
  /\ ram = [a \in 0 .. Size - 1 |-> NoWord]

AppendWord ==
  /\ ram' = [ram EXCEPT ![position] = count]
  /\ position' = (position + 1) % Size
  /\ count' = count + 1

ClearLog ==
  /\ position' = 0
  /\ count' = 0
  /\ ram' = [a \in 0 .. Size - 1 |-> NoWord]

LogNext == AppendWord \/ ClearLog

LogSpec == LogInit /\ [][LogNext]_logVars

----------------------------------------------------------------------------
LogTypeOK ==
  /\ position \in 0 .. Size - 1
  /\ count \in Nat
  /\ ram \in [0 .. Size - 1 -> Nat \cup {NoWord}]

\* The ring is the end of the stream: its last Size words, each at its number
\* modulo Size, in order and without a gap.
HoldsStream ==
  /\ position = count % Size
  /\ \A k \in 0 .. count - 1 : k >= count - Size => ram[k % Size] = k
============================================================================
