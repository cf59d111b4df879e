-------------------------- MODULE AdcStreamServer --------------------------
(***************************************************************************)
(* projects/adc_test/server: a child process copies the half of the RAM    *)
(* ring that the writer has just left into the same half of a shared       *)
(* buffer and puts a token into a pipe; the parent takes a token per half  *)
(* and sends the halves in turn to a client.  The child never learns that  *)
(* a client went or came.                                                  *)
(*                                                                         *)
(* The child is there before the parent has reset the hardware, which a    *)
(* killed run may have left running: what it finds then it takes for words *)
(* of the stream.                                                          *)
(*                                                                         *)
(* projects/dac_player/adc-recorder.c is the same program with one session *)
(* and a file in the client's place.  Neither fopen nor fwrite returns     *)
(* less than zero, so it notices neither a file it cannot open, which      *)
(* kills it when it writes, nor a disk that is full.                       *)
(*                                                                         *)
(* The hardware is the ring log that AxisRamWriter implements.  A word is  *)
(* its number in the session; words of no session of this run are NoWord.  *)
(*                                                                         *)
(* Time.  The program has no lock and no test that would keep it from      *)
(* falling behind the ADC: it relies on its speed.  PollPace bounds the    *)
(* words the writer stores from one look of the child at the position to   *)
(* the next, SendPace those from a token to the end of the sending of its  *)
(* half.                                                                   *)
(***************************************************************************)
EXTENDS RingLog, Sequences

CONSTANTS
  Half,         \* words of half a ring: 512*1024
  PollPace,
  SendPace,
  PipeSize,     \* tokens the pipe holds: 65536 bytes are 16384
  MaxSessions,  \* bound: clients served
  MaxWords      \* bound: words of a session

ASSUME ServerAssumption ==
  /\ Half \in Nat \ {0}
  /\ Size = 2 * Half
  /\ PollPace \in Nat \ {0} /\ 2 * PollPace <= Half
  /\ SendPace \in Nat \ {0} /\ SendPace + 2 * PollPace <= Size
  /\ PipeSize \in Nat \ {0}
  /\ MaxSessions \in Nat
  /\ MaxWords \in Nat

VARIABLES
  program,   \* "server" or "recorder"
  child,     \* what the child does: "poll", "copy", "write", or "gone"
  limit,     \* its limit
  offset,    \* its offset, in words
  copied,    \* words of the half it has copied
  buf,       \* the buffer both processes map
  pipe,      \* the tokens, each the count at which it was written
  parent,    \* what the parent does: "start", until it first resets the hardware,
             \* "reset", until it next lets it run, "read", "send", "end", or "gone"
  released,  \* the hardware is out of reset
  due,       \* the token whose half it sends
  sent,      \* words of the half it has sent
  blocks,    \* halves sent in this session; the next is half blocks % 2
  sessions,  \* clients accepted
  clean,     \* history: this session found the child waiting for its first half and
             \* no token in the pipe
  stop,      \* interrupted: SIGINT came while its handler was there
  lag        \* words stored since the child's last look

childVars  == <<child, limit, offset, copied>>
parentVars == <<parent, released, due, sent, blocks, sessions, clean, stop>>
vars == <<program, logVars, childVars, buf, pipe, parentVars, lag>>

Empty == [a \in 0 .. Size - 1 |-> NoWord]

\* The hardware is as it was left: in reset, or at any word of a stream.
Init ==
  /\ program \in {"server", "recorder"}
  /\ parent = "start"
  /\ released \in BOOLEAN
  /\ position \in IF released THEN 0 .. Size - 1 ELSE {0}
  /\ count = 0
  /\ ram = Empty
  /\ child = "poll"
  /\ limit = Half
  /\ offset = 0
  /\ copied = 0
  /\ buf = Empty
  /\ pipe = <<>>
  /\ due = 0
  /\ sent = 0
  /\ blocks = 0
  /\ sessions = 0
  /\ clean = FALSE
  /\ stop = FALSE
  /\ lag = 0

----------------------------------------------------------------------------
(* The hardware.                                                           *)

InSession == parent \in {"read", "send", "end"}

Oldest ==
  CASE parent = "send" -> due
    [] parent = "read" /\ pipe # <<>> -> pipe[1]
    [] OTHER -> count

WriterStores ==
  /\ InSession
  /\ count < MaxWords
  /\ child # "gone" => lag < PollPace
  /\ count < Oldest + SendPace
  /\ AppendWord
  /\ lag' = IF child = "gone" THEN lag ELSE lag + 1
  /\ UNCHANGED <<childVars, buf, pipe, parentVars>>

\* A word of no session: before the first reset, or when the parent is gone.
StrayWord ==
  /\ released /\ ~InSession
  /\ child # "gone" => lag < PollPace
  /\ position' = (position + 1) % Size
  /\ lag' = IF child = "gone" THEN lag ELSE lag + 1
  /\ UNCHANGED <<count, ram, childVars, buf, pipe, parentVars>>

----------------------------------------------------------------------------
(* The child.                                                              *)

\* Mutant of Ready: the child looks for the end of the half before it is over.
ReadyEarly == (limit > 0 /\ position + 1 > limit) \/ (limit = 0 /\ position <= Half)

\* Mutant of Ready: the wrap of the ring goes unnoticed.
ReadyNeverWraps == limit > 0 /\ position > limit

Ready == (limit > 0 /\ position > limit) \/ (limit = 0 /\ position < Half)

\* A look at the position; when it is not time the child sleeps.
Poll ==
  /\ child = "poll"
  /\ lag' = 0
  /\ IF Ready
     THEN /\ offset' = IF limit > 0 THEN 0 ELSE Half
          /\ limit' = IF limit > 0 THEN 0 ELSE Half
          /\ copied' = 0
          /\ child' = "copy"
     ELSE UNCHANGED childVars
  /\ UNCHANGED <<logVars, buf, pipe, parentVars>>

\* Mutant of CopyWord: the copy is a word too long.
CopyWordOneMore ==
  /\ child = "copy"
  /\ buf' = [buf EXCEPT ![(offset + copied) % Size] = ram[(offset + copied) % Size]]
  /\ copied' = copied + 1
  /\ child' = IF copied = Half THEN "write" ELSE "copy"
  /\ UNCHANGED <<logVars, limit, offset, pipe, parentVars, lag>>

\* One word of the memcpy.
CopyWord ==
  /\ child = "copy"
  /\ buf' = [buf EXCEPT ![offset + copied] = ram[offset + copied]]
  /\ copied' = copied + 1
  /\ child' = IF copied + 1 = Half THEN "write" ELSE "copy"
  /\ UNCHANGED <<logVars, limit, offset, pipe, parentVars, lag>>

\* The write blocks while the pipe is full, and kills the child with SIGPIPE
\* once the parent, its only reader, is not there.
WriteToken ==
  /\ child = "write"
  /\ parent # "gone"
  /\ Len(pipe) < PipeSize
  /\ pipe' = Append(pipe, count)
  /\ child' = "poll"
  /\ UNCHANGED <<logVars, limit, offset, copied, buf, parentVars, lag>>

BrokenPipe ==
  /\ child = "write"
  /\ parent = "gone"
  /\ child' = "gone"
  /\ UNCHANGED <<logVars, limit, offset, copied, buf, pipe, parentVars, lag>>

----------------------------------------------------------------------------
(* The parent.                                                             *)

\* No session goes on: what ring and buffer hold, and the tokens in the pipe, are
\* from now on of none.
SessionOver ==
  /\ count' = 0 /\ ram' = Empty
  /\ buf' = Empty
  /\ pipe' = [i \in DOMAIN pipe |-> 0]
  /\ due' = 0 /\ sent' = 0 /\ blocks' = 0 /\ clean' = FALSE

\* The hardware goes into reset.  The pipe keeps its tokens, and the child its
\* limit and what it is at.
ResetHardware ==
  /\ SessionOver
  /\ position' = 0
  /\ released' = FALSE
  /\ lag' = 0

\* The parent ends, and the hardware stays as it is.
ParentDies ==
  /\ parent' = "gone"
  /\ SessionOver
  /\ UNCHANGED <<position, released, sessions, stop, lag>>

\* There is a socket, or a file: the parent resets the hardware for the first
\* time, whatever the child has done since the fork.
FirstReset ==
  /\ parent = "start"
  /\ parent' = "reset"
  /\ ResetHardware
  /\ UNCHANGED <<childVars, sessions, stop>>

\* socket, bind or accept fails: the parent returns, and leaves the child alone.
ErrorReturn ==
  /\ program = "server" /\ parent \in {"start", "reset"}
  /\ ParentDies
  /\ UNCHANGED childVars

\* The hardware leaves its reset, and a session begins.
Run ==
  /\ parent = "reset"
  /\ parent' = "read"
  /\ released' = TRUE
  /\ clean' = (child = "poll" /\ limit = Half /\ pipe = <<>>)
  /\ UNCHANGED <<logVars, childVars, buf, pipe, due, sent, blocks, stop, lag>>

\* A client connects.  (Of the recorder nobody is accepted: it begins once.)
Accept ==
  /\ program = "server"
  /\ sessions < MaxSessions
  /\ sessions' = sessions + 1
  /\ Run

Begin ==
  /\ program = "recorder"
  /\ Run
  /\ UNCHANGED sessions

ReadToken ==
  /\ parent = "read"
  /\ pipe # <<>>
  /\ due' = Head(pipe)
  /\ pipe' = Tail(pipe)
  /\ sent' = 0
  /\ parent' = "send"
  /\ UNCHANGED <<logVars, childVars, buf, released, blocks, sessions, clean, stop, lag>>

\* Mutant of ReadEnd: the parent has not closed its own end to write to.
ReadEndNever ==
  /\ FALSE
  /\ UNCHANGED vars

\* Without the child the read ends at once, and what it returns is not looked
\* at: a half is sent as it is.
ReadEnd ==
  /\ parent = "read"
  /\ pipe = <<>> /\ child = "gone"
  /\ due' = count
  /\ sent' = 0
  /\ parent' = "send"
  /\ UNCHANGED <<logVars, childVars, buf, pipe, released, blocks, sessions, clean, stop, lag>>

\* The word of the buffer that goes out next.
Outgoing == buf[(blocks % 2) * Half + sent]

\* The half is out: the loop looks at interrupted after every second one.
HalfSent(stopped) ==
  /\ blocks' = blocks + 1
  /\ parent' = IF stopped /\ blocks % 2 = 1 THEN "end" ELSE "read"

SendWord ==
  /\ parent = "send"
  /\ sent' = sent + 1
  /\ IF sent + 1 = Half THEN HalfSent(stop) ELSE UNCHANGED <<blocks, parent>>
  /\ UNCHANGED <<logVars, childVars, buf, pipe, released, due, sessions, clean, stop, lag>>

\* The disk is full: the rest of the half is lost, and nobody looks.
WriteShort ==
  /\ program = "recorder" /\ parent = "send"
  /\ HalfSent(stop)
  /\ UNCHANGED <<logVars, childVars, buf, pipe, released, due, sent, sessions, clean, stop, lag>>

\* send fails: the client is gone.  The parent goes round its outer loop.
SendFails ==
  /\ program = "server" /\ parent = "send" /\ ~stop
  /\ parent' = "reset"
  /\ ResetHardware
  /\ UNCHANGED <<childVars, sessions, stop>>

SendFailsStopped ==
  /\ program = "server" /\ parent = "send" /\ stop
  /\ parent' = "end"
  /\ UNCHANGED <<logVars, childVars, buf, pipe, released, due, sent, blocks, sessions, clean,
                 stop, lag>>

\* ... or the connection is already known to be broken: SIGPIPE; and a file
\* that is not open ends the recorder with its first fwrite.
SendKills ==
  /\ parent = "send"
  /\ program = "recorder" => blocks = 0 /\ sent = 0
  /\ ParentDies
  /\ UNCHANGED childVars

\* SIGINT: at a terminal the child, which has no handler, gets it too.  A read
\* goes on, and so does a write to a file; a send that has sent something
\* returns.  Before the first read the loop is not entered.
Interrupt(terminal) ==
  /\ ~stop
  /\ stop' = TRUE
  /\ child' = IF terminal THEN "gone" ELSE child
  /\ \/ parent = "read" /\ UNCHANGED <<parent, blocks>>
     \/ parent = "read" /\ count = 0 /\ blocks = 0 /\ parent' = "end" /\ UNCHANGED blocks
     \/ parent = "send" /\ (sent = 0 \/ program = "recorder") /\ UNCHANGED <<parent, blocks>>
     \/ parent = "send" /\ sent > 0 /\ program = "server" /\ HalfSent(TRUE)
  /\ UNCHANGED <<logVars, limit, offset, copied, buf, pipe, released, due, sent, sessions, clean,
                 lag>>

\* Before the session, and between the clients, SIGINT has its default action.
InterruptDefault(terminal) ==
  /\ parent \in {"start", "reset"}
  /\ ParentDies
  /\ child' = IF terminal THEN "gone" ELSE child
  /\ UNCHANGED <<limit, offset, copied>>

\* The hardware is reset and the child killed.
Finish ==
  /\ parent = "end"
  /\ parent' = "gone" /\ child' = "gone"
  /\ ResetHardware
  /\ UNCHANGED <<limit, offset, copied, sessions, stop>>

ChildStep == Poll \/ CopyWord \/ WriteToken \/ BrokenPipe

\* What the parent does of its own, and what happens to it.
ParentStep == FirstReset \/ ReadToken \/ ReadEnd \/ SendWord \/ Finish

ParentFate ==
  \/ ErrorReturn
  \/ Accept
  \/ Begin
  \/ WriteShort
  \/ SendFails
  \/ SendFailsStopped
  \/ SendKills
  \/ \E terminal \in BOOLEAN : Interrupt(terminal) \/ InterruptDefault(terminal)

Next ==
  /\ UNCHANGED program
  /\ WriterStores \/ StrayWord \/ ChildStep \/ ParentStep \/ ParentFate

\* The scheduler runs both processes, the client reads, the ADC never stops.
Fairness ==
  /\ WF_vars(UNCHANGED program /\ ChildStep)
  /\ WF_vars(UNCHANGED program /\ ParentStep)
  /\ WF_vars(UNCHANGED program /\ (WriterStores \/ StrayWord))

Spec == Init /\ [][Next]_vars

FairSpec == Spec /\ Fairness

----------------------------------------------------------------------------
TypeOK ==
  /\ LogTypeOK
  /\ program \in {"server", "recorder"}
  /\ child \in {"poll", "copy", "write", "gone"}
  /\ limit \in {0, Half}
  /\ offset \in {0, Half}
  /\ copied \in 0 .. Half
  /\ buf \in [0 .. Size - 1 -> Nat \cup {NoWord}]
  /\ pipe \in Seq(Nat) /\ Len(pipe) <= PipeSize
  /\ parent \in {"start", "reset", "read", "send", "end", "gone"}
  /\ released \in BOOLEAN
  /\ due \in Nat
  /\ sent \in 0 .. Half
  /\ blocks \in Nat
  /\ sessions \in Nat
  /\ clean \in BOOLEAN
  /\ stop \in BOOLEAN
  /\ lag \in 0 .. PollPace

\* What goes out is the next word of the session.
NextWord == Outgoing = blocks * Half + sent

\* A client, or the file, whose session is clean gets its stream from the first
\* word on, without a gap and without a word twice: the writer does not overtake
\* the copy, the copy does not overtake the sending, no half is left out or sent
\* twice.  (Of a half that a full disk cuts short the file gets the start; the
\* next is the right one all the same.)  That ends with the child, which a
\* SIGINT from the terminal kills before the parent has sent its last halves.
\* The first session is clean where the hardware was found in reset, a later one
\* where the client finds the child back at the lower half and the pipe empty.
SentInOrder == parent = "send" /\ child # "gone" /\ clean => NextWord

\* The comment of the child's test: a half is sent when it is ready, that is
\* when the writer has filled it in this session.
SendsWhenReady == parent = "send" /\ ~stop => (blocks + 1) * Half <= count

\* A client that keeps reading gets block after block, and so does the file.
BlocksArrive ==
  \A n \in 0 .. ((MaxWords - 1) \div Half) - 1 :
    (parent = "read" /\ blocks = n /\ ~stop) ~> (blocks > n \/ parent \notin {"read", "send"} \/ stop)

\* The child waits for a position that hardware in reset does not reach.
LeftBehind == parent = "gone" /\ child = "poll" /\ limit > 0 /\ ~released

\* An interrupted session ends both processes: the parent, though its read may
\* wait for a child that is dead, and it takes the child with it.  However else
\* the parent ends (SIGPIPE, a call that fails, a SIGINT of its own outside of a
\* session) the child finds out with its next token, unless there will be none:
\* over hardware in reset a child at the lower half outlives it for good.
\* (MaxWords leaves the writer the words this takes.)
BothEnd ==
  /\ stop /\ count + Size + Half < MaxWords ~> parent = "gone" /\ child = "gone"
  /\ parent = "gone" ~> child = "gone" \/ LeftBehind
============================================================================
