# TLA+ models of rfsoc

Formal models of the signal acquisition cores (VHDL), the programs and the
kernel module of this repository, checked with TLC and, all but their liveness,
proved with TLAPS. Paths below are relative to `src/`.

## 1. The system

The repository holds FPGA cores in `cores/`, block designs in `projects/*/*.tcl`
that wire them to a Zynq or an RFSoC, and C programs that run on the processor
and reach the cores through mapped registers and a reserved piece of RAM.

```
 ADC -> packetizer | trigger + oscilloscope | lago trigger
                 -> width converter -> axis_ram_writer -> RAM ring
                                            |               |
                              status register (position)    |
                                            v               v
                            programs (poll, copy, print, send, save)

 program -> axi_axis_writer -> FIFO -> zeroer -> interpolator -> DAC
              ^ fill count of the FIFO
```

Four things make it hard. First, the cores have no error path: what arrives too
early is lost, what is not there is read all the same, and correctness rests on
FIFO thresholds and counter widths chosen elsewhere. Second, programs and cores
share RAM and registers without a lock: a program reads a count that is old when
it uses it, and keeps out of the writer's way by being fast. Third, resets are
bits of a register that a program writes one after the other, while everything
else keeps what it held. Fourth, programs are command line tools: two may run at
once, and any may be killed between two accesses and run again, over hardware
that went on.

### Inventory

| Part | State it keeps | Operations | What must hold | Modelled |
|---|---|---|---|---|
| `cores/axis_ram_writer_v1_0` | awvalid, wvalid, address and id counters, power-on counter, a FIFO | a clock edge; reset | no burst starves; addresses match bursts; RAM holds the last words of the stream where the position says | yes |
| `cores/axis_packetizer_v1_0` | counter, enable | a clock edge; reset | packets of cfg_data + 1 beats (none for cfg_data = 0); one packet only without CONTINUOUS | yes |
| `cores/axi_cfg_register_v1_0`, `cores/axi_sts_register_v1_0` | words, answer bits, the answer's data | store, load, a clock edge | an access does its work once, between its request and its answer | yes |
| `cores/axis_oscilloscope_v1_0` | state, counter, trigger address | a clock edge; reset | it stops a fixed distance behind the trigger, whole windows after it | yes |
| `cores/axis_trigger_v1_0` | two comparison bits | a sample | fires with the crossing | yes |
| `cores/pps_gen_v1_0` | second counter, clock counter, edge detector | a clock edge; reset | seconds are equal | yes |
| `cores/axis_lago_trigger_v1_0` | sample window, block arrays, state machine, output word | a clock edge; reset | records are whole and in order | partly: no charge sums, no bit fields of the words |
| `cores/axis_tlast_gen_v1_0` | a counter | a sample; reset | marks every pkt_length-th sample, from the first | yes, on the receiver's board and in front of the DMA |
| `projects/adc_recorder` program | (registers, RAM) | reset, set length, wait a second, print | prints the samples recorded; never changes a length under a packet | yes, with its hardware |
| `projects/adc_recorder_trigger` program | (registers, RAM) | configure, run, poll, mask, print | prints the window around the trigger | yes, with its hardware |
| `projects/adc_test/server` | limit and offset of the child, pipe, shared buffer, blocks sent, interrupted | fork, first reset, copy a half, send a half, new session, signals, broken connections, calls that fail | a client whose session begins clean gets the stream without gap or repetition; an interrupted session ends both processes | yes |
| `projects/dac_player/adc-recorder.c` | the same | the same with one session, to a file | the same; what a full disk drops is lost, and nothing else | yes, in the server's module |
| `projects/dac_player/dac-player.c` with `axi_axis_writer`, `axis_zeroer`, `axis_interpolator` | file position, buffer, FIFO, repetition count | read a chunk, wait for room, store, play | no word is lost in a FIFO without back pressure | yes |
| `projects/dma_loopback/axidma.c` | buffers, mappings, channels, completions | the steps of the initialisation and its error paths | buffers are released when the DMA is done with them | yes |
| `xaxidma_example_sg_poll.c` (three copies) | counts of two descriptor rings, a cache line | set up, send, poll, check | the verdict is right; the polls end | yes |
| `dma_test.c` (five copies) | (DMA registers) | reset, run, start, poll, dump; killed and run again | the poll ends, and then the memory given to the DMA has words of this run; the looped one prints its packet | yes: `dma_loopback`'s (and `dma_lauri`'s, the same file), `counter_dma`'s (and those of `dma_test` and `dma_lago`, with other lengths) |
| `lia_rp.c`, `zynq_io.c` (five copies) | (registers) | initialise at first use, read-modify-write, options; killed anywhere | modules leave reset configured; one program alone leaves them ready; overlapping ones do not leave them in reset | yes, on three boards |
| `gen_tonos_v1_0`, `axis_signal_gen_v1_0` | an address, a frequency | a clock edge; reset | a tone is broken off by an initialisation only; what is set is played | partly: no tables, no phase |
| `projects/lago` program | (registers, RAM) | as adc_recorder | as adc_recorder | no |
| `axi_axis_reader`, `axis_decimator`, `axis_variable`, `axis_counter`, `axis_constant`, `axis_data_parallelizer` | a counter or a register | a clock edge | rates, a change seen once | no; `axis_counter` is the source in `DirectDma` |
| `rxchan16`, `axis_rxchan16`, `txchan16` and their kin | configuration counters, memory pages, read counter | configure, accept a frame, read out | frames are not mixed | no: vendor filters and FFT |
| `dma_lauri/otro_dma.c`, `dma_test_h.c` | (DMA registers) | | | no: they cannot run, or be built |
| `gpio_led_test` | a counter | count | | no |
| converters and readers of pins | a register | | | no: I/O primitives |
| `adc_test` clients, build scripts | a file | | | no |

How they interact: programs write `cfg_data` through `axi_cfg_register` (its
bits are the cores' resets and settings) and read `sts_data` (the position of
the writer, the state and trigger address of the oscilloscope, the fill count of
the FIFO); cores hand words on by `tvalid`/`tready`; the writer and the programs
meet in RAM; the server's two processes meet in a pipe and a mapped buffer; the
register programs of one board meet in its registers, and nowhere else.

The hazards that follow from this are listed, each at its line, in
`PROJECT.json` ("hazards"), with the properties that watch them or the reason
why none does yet.

## 2. Modules

| Module | What it is | Composed of |
|---|---|---|
| `RingLog` | abstract: a ring of `Size` words that holds the last words of a stream | |
| `AxisRamWriter` | the writer core, its FIFO, an AXI slave and RAM; implements `RingLog` | |
| `AxisPacketizer` | the packetizer | |
| `RegisterFile` | abstract: registers whose loads and stores take effect at one moment | |
| `AxiRegister` | the configuration and the status register under an AXI4-Lite master; implements `RegisterFile` | |
| `PacketizerControl` | the packetizer under the configuration register and the stores of `adc-recorder.c` | `AxisPacketizer`, `AxiRegister` |
| `AdcRecorder` | program, reset bits, packetizer, width converter, writer | extends `AxisPacketizer`; `AxisRamWriter` |
| `AxisTrigger` | the comparison and its two registers | |
| `AxisOscilloscope` | the oscilloscope | |
| `AdcRecorderTrigger` | program, trigger, oscilloscope, converter, writer | all three and `AxisRamWriter` |
| `DacPlayer` | player program, FIFO, zeroer, interpolator | |
| `AdcStreamServer` | child, pipe, parent, signals, over the ring log; the server and the file recorder | `RingLog` |
| `AxiDmaLoopback` | the kernel module over a DMA with two channels | |
| `SgPoll` | the scatter-gather example, its rings, a data cache line | |
| `DirectDma` | the `dma_test.c` programs over the DMA in direct register mode, and `axis_tlast_gen` | |
| `DmaLoopback` | a behaviour of one of the DMA programs | `AxiDmaLoopback`, `SgPoll`, `DirectDma` |
| `PpsGen`, `LagoTrigger`, `LagoDaq` | PPS generator, Lago trigger, both on one clock | `LagoDaq` extends the two |
| `LiaControl` | `lia_rp.c` and `zynq_io.c`: processes that share the registers | |
| `GenBoard`, `RxBoard`, `TxBoard` | the logic behind the registers of `gen_test` (and `rxchan16_test`, the same files), `rxchan16_test2`, `txchan16_test2`, each with its program's steps | each extends `LiaControl` |
| `LiaBoards` | a behaviour of one of the boards | the three |
| `ModLemmas` | lemmas on `%`, `\div` and rings that grow by a word | |
| `AxisRamWriterProofs`, `AxisPacketizerProofs`, `LiaControlProofs`, `LiaBoardsProofs` | the proofs about the module of that name (the second: also about the packetizer under its register, and the recorder) | the second: the writer's, by `INSTANCE` |
| `DacDaqProofs` | the proofs about the player and the Lago front end | |
| `SharedBufferProofs` | the proofs about the ring log, the server and the DMA programs | |
| `AdcRecorderTriggerProofs` | the proofs about the oscilloscope and the recorder with it | the writer's, by `INSTANCE` |
| `MC*` | bounds for TLC | |

The writer is used at two levels. `AdcRecorder` and `AdcRecorderTrigger` contain
it register by register, since their properties are about what stays in its
FIFO. `AdcStreamServer` contains the ring log in its place, since
`WriterImplementsRingLog` shows that the writer is one.

### Clocked cores

A core is one action per clock edge, `ClockEdge(...)`, whose parameters are the
inputs of that clock (tvalid, tready, awready and so on, each chosen freely),
and one action for an edge in reset. Primed variables are the registers; a
combinational signal is an operator of its own named as in the source
(`int_tvalid`, `int_comp`, ...). Cores on one clock step together: a composed
module conjoins their edges, so no order between registers is invented.

Data are numbers: a word is its position in the stream (or in the run), so that
a property can say which word is where. `NoWord` is what was there before.

### Where the model departs from the registers

* `AxisRamWriter`: the k-th word is the number k, so the FIFO is its level and
  its head the number of words moved. `late` keeps the almost empty flag up
  although enough words have come in: the FIFO primitive gives no exact time for
  its fall. It rises at once when words go. The AXI slave takes addresses and beats at any
  time; `Orderly` is the promise, which the Zynq's HP port keeps but AXI does
  not, that it takes no beat of a burst whose address it has not taken.
  Write responses are ignored by the core and left out.
* `AxisPacketizer`: `continuous` is a variable that never changes, so that one
  run covers both generics. On its own `cfg_data` changes only in reset; in
  `PacketizerControl` it is the register's second word, which may change at any
  edge, and that it does so in reset only is a consequence of the program's order
  of stores and of the register.
* `AxiRegister`: the AXI4-Lite master keeps AXI's rules and has one store and one
  load outstanding, as the Zynq's bridge has for these ports. It has no request up
  at the first edge out of reset: a store that were up would be answered and lost,
  the registers' reset being a clock late (`axi_cfg_register.vhd:111`). A master with
  two loads outstanding would lose an answer, `arready` being tied high. `core`
  says which of the two cores it is, since they have the same read channel.
* `DacPlayer`: the processor's store is the one-clock `tvalid` of
  `axi_axis_writer`. Runs follow one another while the FIFO still plays.
* `AdcRecorder`, `AdcRecorderTrigger`: the program's sleeps are what they are
  there for, that is `sleep(1)` ends only when the packet has gone as far as it
  will. In `AdcRecorderTrigger`, `KeepsUp` (the writer never refuses a word of the
  oscilloscope) and `RunFlagIsShort` (the program clears the run bit before the
  recording ends) are assumptions on speed, stated as named guards.
* `AdcStreamServer`: `program` says which of the two programs runs: the file
  recorder is the server with one session, in which `fwrite` returns for a file
  what `send` does not, so that nothing ends the session but SIGINT and a file that
  did not open. The model begins with the fork: the child polls at once, while
  the parent opens its socket or file and only then resets the hardware
  (`FirstReset`). The hardware is found in reset or, after a killed run, at any
  word of a stream (`released`, `StrayWord`). A session is one client; words of
  no session are `NoWord`. `clean` is history: the session found the child waiting
  for its first half and no token in the pipe. SIGINT goes to both processes (a
  terminal's ^C) or to the parent, and outside of a session has its default
  action; `socket`, `bind` or `accept` may fail (`ErrorReturn`); a broken
  connection makes `send` fail or kills the parent; and a token to a dead parent
  kills the child. The program relies on being fast, in two places. `PollPace`
  bounds the words stored between two looks of the child at the position,
  `SendPace` those stored from a token to the end of the sending of its half. The
  assumption `ServerAssumption` says how fast is fast enough.
* `AxiDmaLoopback`: the DMA moves a channel's words at any time after the
  descriptor is issued, or stalls for ever; a callback runs after the last word.
* `SgPoll`: a library call moves descriptors between the counts of its ring, or
  fails; the receive buffer is one cache line that may be written back at any time.
  The core is one without scatter-gather, which the example refuses (all block
  designs configure that), or one with it.
* `DirectDma`: the accesses of `main` are a script, a sequence of what is done to
  which channel. A killed program stops at any place of it; the DMA goes on. A
  word is the number of the run in which the DMA took it. What the program
  prints, it prints of what it has mapped (`Mapped`): for `counter_dma`'s that is
  not the memory it gives to the DMA. What a packet longer than the transfer does,
  the DMA's manual leaves open: both outcomes are possible.
* `AdcRecorderTrigger`, its assumption: the samples printed, 1024 * 1024 in the
  program, are whole bursts of whole words. With any other number the tail of the
  window would stay in the writer's FIFO, as `recorder_tail` shows of the other
  recorder, whose threshold keeps the same tail back.
* `LiaControl`: one action per access to a register. The reset register is the
  set of its bits, a setting is a number or `PowerOn`. `get_memory_size` may exit
  the program, devices may fail to map (the program does not look), a read or
  write of an unmapped device kills it, a write to the status register hangs it.
  `alone`, `raw` and `cut` are history: whether another program has run beside,
  whether somebody wrote the reset register with `-w`, whether somebody was
  killed in `init_system`.
* `GenBoard`, `RxBoard`, `TxBoard`: a write to a register takes many clocks of the
  logic, so that the logic sees every value of a reset bit; clocks of the logic
  interleave with accesses. `rxchan16_test2` does not build as it stands
  (`CFG_KP_OFFSET` is used and commented out, `mem_init` is called and commented
  out); its `init_system` is modelled as written.
* `LagoDaq`: `gpsen_i` is tied high by the block design, so is `PpsGen`'s.
  Monitors (`got`, `rel`, `inOrder`, `stalled`, `sources`, `pulses`, `latched`)
  watch the words that leave; no register depends on them.

## 3. Runs

`tlc -config X.cfg M` for each; all finish within about two minutes.

| Run | Bounds | Shows |
|---|---|---|
| `ram_writer` | burst 16, ring 32, 4 ids, FIFO 24, offset 15, 72 words | `BurstNeverStarves`, `BurstMatchesAddress`, `OneAddressPerBurst`; implements `RingLog`; `WordsMoveOn` |
| `packetizer` (`PacketizerControl`) | counter of 2 bits, 2 packets, every length, both modes; two registers | `LastBeatIsLength`, `OnePacketThenShut`, `PacketEnds`; the registers implement `RegisterFile`; `AccessesEnd` |
| `dac_player` | FIFO 4, threshold 2, chunk 2, factors 1 and 2, files up to 5 words, 8 words in all | `NoWordLost`, `PlaysInOrder`, `WaitEnds`, `StoredIsPlayed` |
| `recorder` | 16 samples, ring 8, burst 2, FIFO 4, two runs | `SamplesAccounted`, `PrintsAllButTail`, `RunEnds` |
| `recorder_tail` | the same | **violates** `PrintsTheRecording` |
| `trigger_recorder` | window 4, before 3, total 7, 28 samples passed, ring 8 | `PrintsTheWindow`, `ScopeAgreesWithWriter`, `StopsWithWindow`, `RunEnds` |
| `stream_server` | ring 4, half 2, paces 1 and 2, pipe 2, two sessions, 13 words, hardware found in any state | `SentInOrder`, `BlocksArrive`, `BothEnd` |
| `stream_server_again` | ring 8, half 4, paces 2 and 4, pipe 2, two sessions, 25 words, hardware found in reset | **violates** `SendsWhenReady` |
| `dma_loopback` | four programs; 5 words, loops of 2, rings of 3 descriptors, packets of 7, three runs of `dma_test.c` | `SourceIsDone`, `FailureIsTooEarly` (kernel module); `VerdictIsRight`, `TestEnds` (the others) |
| `dma_loopback_done` | the kernel module | **violates** `DmaIsDoneWithTheBuffers` |
| `lago` | second of 12 clocks, four samples of two channels, records of 5, 3, 3 words | `SecondsAreEqual`, `RecordIsWhole`, `StallCostsOneWord`, `RecordMixesNeighbours` |
| `lia_boards` | two processes on each of three boards, 3 to 5 command lines a board, packets of 2, a counter of 3, a memory of 3 | `ConfiguredBeforeReleased`, `LoneRunLeavesReady`, `ReleasedAtRest`, `PacketsAligned`, `PlaysWhatIsSet`, `ToneGoesOn` |

Why the bounds are enough:

* `ram_writer`: the real burst of 16; the ring holds two bursts, and 72 words
  go round it more than twice, so address and id counters wrap and meet again;
  the FIFO is deeper than a burst by half one, so that it fills, stalls the
  source and runs down to its threshold.
* `packetizer`: every length that two bits hold, zero and the largest included;
  two packets, of which the second is one too many without CONTINUOUS. The
  program goes round its three stores for ever, so that a reset meets every
  state of a packet, and loads of either word meet every store.
* `dac_player`: threshold plus chunk is exactly the depth, the tightest FIFO
  that the assumption allows; five words are two chunks and a short one, eight
  words let a second run start over what the first left to play.
* `recorder`: 16 samples fill a ring of eight words of two samples, so that the
  last words meet the ring's end; the second run starts over what the first
  left in RAM, converter and FIFO.
* `trigger_recorder`: a ring of four windows in samples, and a trigger at every
  sample of up to 28, so that the window lies across the ring's end for some.
* `stream_server`: three rounds of the ring, and paces at the assumption's limit
  (2 + 2 * 1 = 4, 2 * 1 = 2); a pipe of two tokens fills; the second session may
  begin clean or not. A ring of four keeps every start, in reset or at any word,
  and every end of both processes within TLC's reach. `stream_server_again` starts
  in reset, so that what it shows is the second session's doing and not the
  start's; there the ring is of eight words, with the same relation of the paces.
* `dma_loopback`: the wait's length against every progress of both channels, and
  a failure in every step that can fail; a packet longer than the channels hold,
  so that the transmit channel waits for the receive channel. A packet of seven
  words and a transfer of five: both ends and middles of packets meet the first
  word of a transfer. Three runs: two may be broken off before the one that is
  looked at.
* `lia_boards`: two processes are what it takes to race; a third adds nothing to
  what one sees of "somebody else", and the theorems are for any number. The
  command lines are one of each kind that changes a register on its board. 3 and
  4 as frequencies: one saturates the fixed point, one is refused.
* `lago`: a second longer than the longest record, shorter than two, so that
  PPS, trigger and sub-trigger meet in every phase; the samples let one channel
  peak in the clock after the other, or both cross the trigger's level.

Deadlock is checked but in two runs: both processes of the server may end, and
every register program may hang in a write to the status register. Elsewhere clocks
and polls never stop; the programs that end have a step for their end (`Returned`,
`Finished`).

### Fairness

Clocks do not stop, so an edge happens for ever; nothing is assumed of the
inputs but what is said here.

* `AxisRamWriter`: the flag falls in the end once the words are there, and the
  slave accepts a pending address and a pending beat in the end. Nothing is
  assumed of the source.
* `AxisPacketizer`: the sink is ready and the source offers again and again.
* `PacketizerControl`: the same, and the master completes the request it has begun
  and takes the answers it gets. That it asks for anything is not assumed.
* `AdcRecorder`: the same of writer and source; the scheduler runs the program.
* `AdcRecorderTrigger`: also strong fairness on samples, and on samples that
  come with a trigger. It is strong on purpose: the flag lasts one sample of the
  ADC and the oscilloscope looks at decimated ones (`axis_oscilloscope.vhd:95`), so
  triggers that never coincide with one would be waited for for ever, and the
  program's poll has no timeout.
* `DacPlayer`: the scheduler runs the program, and the DAC takes samples.
* `AdcStreamServer`: both processes run and the ADC delivers, while the hardware
  is out of reset, within the bound on a session's words. That a client comes, a
  send fails, or anybody sends a signal is not assumed.
* `DmaLoopback`: the processor goes on, a channel that has something to move moves
  it, and `axis_counter` counts. That a library call succeeds, the cache writes its
  line back, or anybody starts or kills a program is not assumed. The kernel
  module's DMA may stall for ever.
* `LiaBoards`: only the generator's clock converter, whose clocks run. Whether
  somebody runs the program is open.
* `LagoDaq`: no liveness is claimed; a sink that refuses for ever stops the Lago
  trigger in a record.

## 4. Findings

Each is a run that checks one sentence of the repository against the code.

1. `recorder_tail`: the last burst of a recording stays in the writer's FIFO below
   the almost empty threshold (`axis_ram_writer.vhd:101`); the program prints
   what RAM held before in its place. `PrintsAllButTail` says how much: no more
   than the threshold leaves.
2. `stream_server_again`: between clients the parent resets the hardware, but
   neither the child's limit nor the pipe (`adc-test-server.c:112`); the second
   client gets a half that the writer has not filled.
3. `dma_loopback_done`: the wait is for the transmit channel only; the destination
   is unmapped and compared while the receive channel may still write it
   (`axidma.c:161`). `SourceIsDone` and `FailureIsTooEarly` say what still holds.

Facts met on the way that no run states:

* With a slave that takes data before the address (`Orderly = FALSE`), `awaddr`
  moves while `awvalid` is up: it is the live register (`axis_ram_writer.vhd:157`).
* The PPS pulse and the trigger last one clock, so one that comes while the Lago
  trigger sends a record gives no record of its own; a trigger in the clock of a
  PPS pulse is counted and not sent.
* The first second after a reset of `pps_gen` may be one clock longer: the reset
  leaves `false_pps` as it was.
* The Lago block design ties `gpsen_i` and `pps_i` to constants: the program's
  "enable false pps" bit does nothing. It also sets `CLK_FREQ` on
  `axis_lago_trigger`, which has no such generic. Its `|=` on the trigger level
  never clears an old bit.
* `axis_lago_trigger.vhd:265-266` adds the bounds of an array where a sum of samples
  is meant; nothing reads the sum.
* `pol_data = 0` fires on the rising edge (`axis_trigger.vhd:54`); the comment of
  `adc-recorder-trigger.c` says negative.
* The server's and the recorder's child is forked before the parent first resets
  the hardware (`adc-test-server.c:56` and 113, `dac_player/adc-recorder.c:60` and
  100). Over hardware that a killed run left running it may copy a half and write
  its token before the reset: then the first session, too, is sent a half that is
  not its own. `SentInOrder` is therefore stated for sessions that begin clean;
  without `clean` TLC finds the first session out of order after eight steps. Over
  hardware found in reset the first session always begins clean
  (`FirstSessionInOrder`).
* A parent that ends outside of a session (a SIGINT to it alone, or the returns of
  `adc-test-server.c:88-92`, 102-106 and 117-121) does not kill the child. Over
  hardware in reset the child, if it waits for the lower half, polls for good:
  `LeftBehind` in `BothEnd`.
* `counter_dma/dma_test.c:116` maps 0x0f00000 where the DMA is given 0x0f000000
  (line 137): what it prints is other memory, and so does `dma_test`'s (lines 106
  and 127); `dma_lago`'s maps what it gives. The packets of `axis_tlast_gen`
  in front of `counter_dma`'s are of 511 words, the transfer of 256; `dma_test`'s
  are longer than theirs, too.
  `memdump(..., 4096)` in `dma_test` and `dma_lago` prints four times what was
  transferred.
* `dma_lauri/otro_dma.c:45` gives `fopen` a number where its mode belongs, and the
  DMA virtual addresses; `dma_lauri/dma_test_h.c` uses undefined macros.
  `dma_lauri/dma_test.c` is `dma_loopback`'s, byte for byte; so are `lia_rp.c` and
  `zynq_io.c` of `gen_test`, `rxchan16_test`, `txchan16_test`, `txchan16_test2`.
* On the generator's and the transmitter's boards the registers of K_p, K_i and X
  lead nowhere. A frequency of 8.4 MHz, which `parse_param` takes, saturates the
  fixed point of `set_frequency`; its tests for values beyond 2^31 are never true.
* `-w` to the status register hangs the program and its processor: the core drives
  none of its write channels.
* `axi_axis_reader` reads the stream with the address and acknowledges it with the
  answer: a word that comes in between is lost, a second address in the clock of
  the answer reads a word twice.
* `dac-player.c:53` tests `fopen(...) < 0`, which is never so.
* `gpio_led_test.c:244` assigns where it means to compare, and so does the line of the
  other branch: it always counts down, and `sample` reaches -1 before it wraps,
  against the range in the comment at line 264.

## 5. Proofs

Proved by TLAPS for every value of the constants that the named assumptions
allow (`WriterAssumption`, `PacketizerAssumption`, `PlayerAssumption`,
`RecorderAssumption`, `ScopeAssumption`, `TriggerRecorderAssumption`, `SizeAssumption`,
`ServerAssumption`, `PpsAssumption`, `LagoAssumption`, `LoopbackAssumption`,
`TestAssumption`, `BoardsAssumption`, `PacketAssumption`, `DepthAssumption`).
They are as weak as the arguments need: a FIFO whose almost empty offset covers a
burst, a ring of whole bursts, a FIFO that has room for the threshold and a chunk,
windows that divide the counter, samples that are whole bursts, paces that leave
the child half a half and the parent the rest of the ring, a clock count that holds
CLK_FREQ, a record of at least five samples, a ring of whole packets, command lines
that parse.

* **Ring log** (`RingLogHoldsStream`). A ring log holds the last `Size` words,
  each at its number modulo the size. Invariant: position is count modulo size,
  and each index holds the last word of its residue.
* **Writer** (`WriterTypeOK`, `WriterBurstNeverStarves`, `WriterBurstMatches`,
  `WriterOneAddress`, `WriterImplementsRingLog`, `WriterRamHoldsStream`). Two
  invariants. `FlowInv` needs nothing of the bus: a burst that runs has its
  remaining words in the FIFO, since it was started only behind the almost empty
  offset and nothing else takes words out. `BusInv` adds, for an orderly bus, that
  the slave's pending burst is the one the address register belongs to; neither
  `BurstMatchesAddress` nor `OneAddressPerBurst` is inductive without it. From
  `BusInv`, a beat that the slave takes writes the word that the ring log would
  write, in its place; every other step is a stutter. The ring log's theorem then
  carries over.
* **Server and file recorder** (`ServerTypeOK`, `CleanSessionInOrder`,
  `CleanSessionWhenReady`, `FirstSessionInOrder`), for any number of sessions, tokens
  and words, and hardware found in any state. `Base` holds always: the types, the ring
  log's invariant from the first reset on, and that processes are where their
  partner's state allows (`Alive`). `InStep` holds in a session that began clean, while
  the child lives (`ServerInv`); the run `stream_server_again` shows why not in
  others. A clean session begins in step, because the reset has emptied the ring
  and the child is at its start (`RunInStep`). That the first session is clean where
  the hardware was found in reset is an invariant of its own (`FirstIsClean`): at
  position zero the child's test stays false. The parts of `InStep`:
  the child's limit and offset follow the parity of the half it is at (`Turns`); a
  half that is copied is over, and not long so (`Paced`); the buffer is the ring as
  far as the copy has come (`Mirrors`); every token is dated soon after its half was
  over, and they are in order (`TokensDated`, `TokensSorted`); and so, since the
  oldest token is young enough (`InTime`), the copy is never more than two halves
  ahead of the sending (`Ahead`), though the pipe would hold more. From `Mirrors` and
  `Ahead` the word that goes out is the next of the stream. The argument uses both
  paces in full: `SendPace + 2 * PollPace <= Size` is what keeps the child out of the
  half that is being sent. TLC looked at `ServerInv` first, at both ends of the
  assumption (2 and 4, 1 and 6 for a ring of 8).
* **Packetizer** (`PacketizerInv`, `PacketizerShuts`, `PacketizerTypeOK`).
  `LastBeatIsLength` and `OnePacketThenShut` are inductive with `ShutGate`: without
  CONTINUOUS the enable is down as soon as a packet has passed, and the counter
  stays where it ended.
* **Packetizer under its register** (`ControlledPackets`,
  `ControlImplementsRegisterFile`). `RegisterInv` has three parts: types;
  `Channels`, an answer is up exactly while the master waits for it and the late
  reset is over before anything is stored; `Order`, which store is under way at each
  stage of the program, and that the packetizer's bit is down whenever the length
  may be written. From `Order`, an edge out of reset leaves `cfg_data` alone, so
  that it is a `ClockEdge` of the packetizer and its invariant carries over. From
  `Channels`, every edge is a step of the register file: a load's answer is the word
  as it was when the address was taken, and a store changes the words in the edge
  in which address and data are both there.
* **Recorder** (`RecorderAccounts`, `RecorderPrints`), for any number of runs.
  `RecorderInv` joins the invariants of packetizer and writer (`WriterInv`, whose
  lemmas the recorder with a trigger uses as well) and two of the composition.
  `Phase` says what each store has behind it: the writer is cleared while the
  packetizer is shut, and stays empty, its converter too, until the packetizer's
  own reset is over; what is shut is in reset or has had its packet.
  `SamplesAccounted` is then kept by every edge, since packetizer, converter and
  writer move together (`ThroughCounts`, `SamplesKept`). When all is quiet the FIFO
  is at its threshold at most (`QuietTail`), the packet's other words have been
  moved, and since they all fit the ring they are still there (`StillInRing`).
* **Player** (`PlayerLosesNothing`, `PlayerKeepsOrder`, `PlayerTypeOK`). The count
  that the program read is old, but the FIFO only drains meanwhile: `RoomReserved`
  says that what is left of the chunk still fits, `FifoIsTail` that the FIFO is the
  tail of what was stored. Together they give that nothing is lost and the order is
  kept.
* **Lago front end** (`DaqSecondsAreEqual`, `DaqRecordIsWhole`, `DaqStallCostsOneWord`,
  `DaqRecordMixesNeighbours`), for every clock frequency, level and length of the
  blocks. The generator's invariant: the made-up signal and its edge detector are a
  function of the second's counter but in the clocks after a reset
  (`DetectorFollows`), and so is the clock count from the second pulse on
  (`CountFollows`). The proof found that the clock count has to hold CLK_FREQ itself,
  not CLK_FREQ - 1: the first second may be one clock longer. The trigger's:
  whatever the sink does, the words it took of a block are the block's count or one
  less, and at the block's end one more or less may have gone (`WordsCounted`), which
  does not add up over the blocks of a record since the time word waits to be taken;
  in a record that was not stalled the word on the output is the next of it
  (`NextWordIsUp`) and its source the trigger or one after it (`SourcesClose`).
* **DMA programs** (`DmaSourceIsDone`, `DmaFailureIsTooEarly`, `DmaVerdictIsRight`,
  `DmaTypeOK`), for every length of buffer, ring and packet, depth of the channels and
  number of runs. One invariant for each program, since the others stand still
  meanwhile. `LoopbackInv`: what has left the source is in the destination or the
  loop, in order (`InTransit`), and the transmit channel's callback comes after its
  last word (`DoneIsRead`). `ExampleInv`: where the descriptors of both rings are at
  each call (`TxRing`, `RxRing`); what was read was stored or is on its way, and was
  flushed before (`Flow`); and memory holds what was stored unless the cache has
  written its line over it, which it can do once only (`ReceiveBuffer`): so the check
  passes with all words and fails only for a late write-back. A call that failed has
  ended the test, and nothing is claimed after it. `TestInv`: the reset is what
  cuts a run off from a killed one. From it to the length nothing moves in the looped
  program, and then what the receive channel still waits for is what the other has
  to send and what is between them (`LoopedInv`); in the other words may come before
  the length, but are of this run, and the first one stored is the first in memory
  (`StreamedInv`). That a packet longer than the transfer may stop the channel takes
  nothing from it: the status bit then stays down. What the looped program prints is
  the packet (`PrintedInv`). `SgPoll` moves descriptors with
  `Moved` and not with two `EXCEPT` clauses for one ring, whose `@` TLAPS 1.4.5
  misreads.
* **Oscilloscope** (`ScopeKeepsWindow`). The counters before and after the trigger
  (`CountsBefore`, `CountsAfter`) and the trigger address (`AddressIsTrigger`)
  give that the core stops a whole number of windows after the window that holds the
  trigger: what the program's masks rely on.
* **Recorder with a trigger** (`RecorderScopeAgrees`, `RecorderStopsWithWindow`,
  `RecorderPrintsTheWindow`). The composed module's invariant joins those of its
  parts: the oscilloscope's, the writer's (`FlowInv`, `BusInv` and the ring log's,
  from the writer's own proofs with `Orderly` true), and two of the composition.
  `Phase` says what each access of the program has behind it: it runs with the
  bit up for one access, in which a recording starts and none ends, so that the
  state that its poll reads is of this recording. `ScopeAgreesWithWriter` counts: what
  the oscilloscope has passed on is in the converter, the FIFO or RAM. When all is
  quiet what is in the FIFO is less than a burst; the window being whole bursts,
  RAM has moved exactly to the window's end (`QuietWindow`), and a sample of it
  lies where the program's masks look (`StartIsFirst`, `PrintedIsWindow`), wherever
  the ring wrapped. The proof found that the number of samples must be whole bursts,
  which the instance had been given without saying so.
* **Register programs** (`RegisterProgramSafe`, `LoneRunReady`, `ReleasedWhenAtRest`
  in `LiaControlProofs`). For any set of processes, any reset bits, lists of defaults
  and command lines. The invariants speak of what a process has seen, and not yet
  written back: a copy of the reset register that has a bit set was read when the
  settings were complete or by a process that has completed them itself; a process
  that was alone all the way has cleared, and then set, the bits up to its index;
  and with a single bit, a process between its clearing and its setting is the
  only reason for the bit to be down.
* **Boards** (`BoardsConfigured`, `BoardsReady`, `BoardsAtRest`, `BoardsAligned`,
  `BoardsTone`). The steps of the logic leave the programs' state alone, and every
  other step of a board is one of `LiaControl`: the first three theorems hold on
  each of the boards, which are instances with their own lists. The last two are
  about the logic. `RxPackets`: a process that nobody ran beside has the bits of the
  reset register clear that it has cleared, and set those that it has set, up to its
  index, and since the last module it releases is the one that takes samples, the
  counters of packet and ring stand at zero until it is done; from then on they
  move together. `TxTone`: a process that was not asked to initialise, and does,
  found the reset bit clear, and until it sets it nobody else has.

TLC sees two sessions and two register programs at most; the theorems about the
server and the boards are for any number of them.

The proofs rest on TLAPS's SMT and Zenon backends, LS4 for the temporal steps,
and the lemmas on `%` in `ModLemmas`, which are proved from linear arithmetic.

Every invariant, action property and refinement that a passing run checks is also a
theorem. Model-checked only: all liveness (`WordsMoveOn`, `PacketEnds`, `AccessesEnd`,
`WaitEnds`, `StoredIsPlayed`, `BlocksArrive`, `BothEnd`, `TestEnds`,
`PlaysWhatIsSet`, both `RunEnds`), which is out of the prover's reach with
`ENABLED`. What recursion or induction over data would show is not stated: the
modules use none.

## 6. Not modelled, and why

* Write responses and the order of the interconnect: RAM is written when a beat
  is taken. A program that reads a position may in the system be ahead of RAM.
* A reset of the writer in the middle of a burst: the programs reset it at rest.
  A program that is killed in a recording can do otherwise; what the interconnect
  makes of a truncated burst is not in the repository.
* Clock domain crossings: cores of a composed module share a clock. The clock
  converter of the generator's board is modelled as one word.
* The contents of samples beyond what a comparison sees; filters, FFT and sine
  tables.
* The channelizers (`rxchan16`, `txchan16` and their kin) wire vendor filters and
  FFTs whose handshakes are not in the repository; what is left is a read counter
  over two memory pages, in time with those.
* `axi_axis_reader`: no block design has it. `axis_data_parallelizer`: none, either.
* `axis_decimator`, `axis_variable`, `axis_counter`, `axis_constant`, the pin
  readers: one register or counter without a handshake, of which a test bench reaches
  every case.
* The Lago program is `adc_recorder`'s with two more stores.
* `otro_dma.c` and `dma_test_h.c` cannot run, or be built; `gpio_led_test` is a loop
  over one counter without input; clients and build scripts have no behaviour of
  their own that the system depends on.

## 7. What is left

The recorder killed and run again: what the writer's ring holds after a truncated
burst, once the interconnect's answer to it is known.
