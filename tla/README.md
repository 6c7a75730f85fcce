# Verification of dls_cores

`dls_cores` is a library of hardware cores in Verilog (clock-domain crossings,
FIFOs, AXI infrastructure, a DMA engine, a PCI Express bridge, sorting networks,
image processing, timers and small peripherals) and of the SystemC models that
simulate and test them: initiators, targets, channels and memories of TLM-2.0,
adapters between TLM and each bus, packets of PCI Express, a random memory test.
This directory holds TLA+ models of the parts that carry the library's control,
the TLC configurations that check them on small instances, and proofs, checked by
TLAPS, of the properties that matter most for every value of the parameters.

Both are modelled: the RTL under `src/*/rtl` and the C++ under `src/*/sim`. The
library has no manual; what a part promises is taken from the comment at the head
of its file, from its assertions (`` `dlsc_error ``, `` `dlsc_warn ``,
`dlsc_error`, `assert`) and from its test bench, and what it *does* from its code
only. Where the two disagree, a run shows the violation or the model has what the
code does and the case is listed with its lines
([Disagreements](#disagreements-between-code-and-documentation)).

Contents: [how hardware becomes actions](#how-hardware-becomes-actions) · [how SystemC becomes actions](#how-systemc-becomes-actions) ·
[inventory](#inventory) · [what is modelled](#what-is-modelled) ·
[runs](#runs-bounds-and-what-they-show) · [fairness](#fairness) ·
[proofs](#what-is-proved) · [disagreements](#disagreements-between-code-and-documentation) ·
[not modelled](#what-is-not-modelled-and-why) · [what is left](#what-is-left)

## How hardware becomes actions

* **One clock edge is one action.** All non-blocking assignments of the `always`
  blocks of that clock take effect in the same step, from the values before it;
  combinational `assign`s are operators over the registers and the inputs.
* **Unrelated clocks interleave.** Each domain's edge is an action of its own, in
  any order and at any relative speed.
* **What a synchroniser samples in flight** is a choice of the environment: a word
  that crosses bit by bit (the Gray-coded pointers of the asynchronous FIFO) may
  be seen with each changed bit old or new (`FifoAsync!Sampled`). A one-bit
  synchroniser samples a bit that is old or new, which the interleaving of the two
  clocks already covers.
* **Inputs** are quantified in the action. A precondition the code asserts of its
  user ("overflow", "underflow") is a conjunct (`Legal`).
* **Registers without a reset value** start with any value the type allows, or
  with the model value `None` when no property looks at them before they are
  written. A RAM cell read while it is written returns anything (`FifoRam`).
* **Resets come at any time.** An asynchronous reset is `RstAssert` (and, in
  `RstSync`, `RstInRise`); a synchronous one is an alternative of the clock edge.

## How SystemC becomes actions

* **The kernel runs one process until it waits.** A method, or the part of a thread
  between two waits, is one action with every call it makes in it; which of the
  processes that can run is next is open (`\/`).
* **Events are flags.** `notify()` and `notify(SC_ZERO_TIME)` raise the flag, the
  method that is sensitive to it lowers it. A `peq_with_get` is a sequence in the
  order of arrival, given out in the order of the times.
* **Time** is a number `now`; it passes (`Tick`) only when no process can run. A
  delay annotated to a call is a number as well, so a transaction may be answered
  and still lie in the future.
* **Clocked methods** of one clock (the two adapters of a bus) run in the same step,
  on the signals of the cycle before: a signal gets its new value after all have run.
* **`rand()`** is a choice: what a random test might draw is quantified. Where a
  liveness property needs luck (a ready with a probability), fairness says that good
  draws come again and again, never that bad ones do not.
* **A payload** is identified by its transaction; the word `k` of transaction `t` is
  `<<t, k>>`, which stands for its address and for the data that belong there. In
  `PcieTlp`, where the coding is the question, a word is the set of its bits.
* **An assertion or `dlsc_error`** of a model sets a flag (`aborted`, `error`,
  `miscompare`) that a property says is never set.

Names of variables, operators and parameters are those of the source where it has
them. A definition named *Mutant of …* is a plausible bug of the definition after
it; it is not part of the model and shows that the property it belongs to can fail.

## Inventory

Each part with its state, its operations, how it meets the others, and what makes
it correct. Directories are under `src/`.

### Clocks, resets and crossings (`sync/rtl`)

| Part | State | Operations | Hard part and correctness |
|---|---|---|---|
| `dlsc_rstsync`, `_slice`, `dlsc_syncflop` | two flops per domain for the input, two synchroniser flops and a shift register per domain | asynchronous set; release, one edge at a time | clocks in any order; every domain has been in reset before any leaves it; all leave in the end |
| `dlsc_domaincross`, `_rvh`, `_slice` | a word on each side, a flag toggle, an acknowledge toggle, their synchronisers | send, receive, reset of either side | toggles in any phase, resets released in any order; a word exactly once, stable when copied; the handshake never jams |
| `dlsc_domaincross_pulse` | as above, without data | pulse in, pulse out | a pulse while the crossing is busy is lost, with a warning |
| `dlsc_clkdetect`, `dlsc_glitchfilter` | counters, a toggle through the supervised clock | observe, time out | a clock that stops at any point; counter widths |

Everything with two clocks stands on `dlsc_rstsync`: the crossings assume that
neither side starts before the other was clocked in reset. That promise is the
module `ResetDomains`; `RstSync` is shown to keep it and the crossings are
checked under it.

### Queues (`mem/rtl`, `rvh/rtl`)

| Part | State | Operations | Hard part and correctness |
|---|---|---|---|
| `dlsc_fifo` = `_one`, `_two`, `_shiftreg` or `_ram`; `dlsc_fifo_counter` | words, address or pointers, registered flags, counts | push, pop, both at once, reset | push and pop of a full or one-word FIFO; flags registered a cycle ahead; RAM latency; one and the same queue whatever is selected |
| `dlsc_fifo_rvh`, `dlsc_fifo_rvho` | a `dlsc_fifo` and an output register | ready/valid on both sides | pessimistic flags must not hide a word for good |
| `dlsc_fifo_async_full`, `dlsc_fifo_async` | memory; per side its pointer, its copy of the other's, flags | push, pop, two clocks, reset at any time | pointers sampled while they change, delayed memory write, stale copies; no loss, repetition or overwriting |
| `dlsc_rvh_decoupler` | two words, two flags | give, take, both enables | ready registered: a word comes in the cycle the sink stalls |
| `dlsc_rowbuffer_combiner`, `_splitter` | RAM, binary row and column addresses in two domains | fill, drain a row | addresses that cross through `dlsc_domaincross`, each at its own pace |
| `dlsc_pipedelay*`, `dlsc_shiftreg`, `dlsc_ram_dp` | shift registers, RAM | shift, read, write | latency in step with a separate valid line |

### Bus infrastructure (`axi/rtl`, `dma/rtl`, `csr/rtl`, `config/rtl`)

| Part | State | Operations | Hard part and correctness |
|---|---|---|---|
| `dlsc_axi_rstcross` (`_wr`, `_rd`) | phony flags, counters of bursts on each side, a FIFO of lengths | AW/W/B/AR/R handshakes, reset of either side | a side reset in the middle of a burst; every burst ends whole, none is answered twice, nothing stalls |
| `dlsc_axi_router` (`_command`, `_channel`, `_sink`, `_source`) | command buffers, arbiter decision, queues of sinks and sources, lane grants | select, push, grant, transfer | registered arbitration, queues one entry less than full, sources and sinks waiting on each other |
| `dlsc_dma_core` (`_command`, `_cmdsplit`, `_rwcontrol`) | command list position, halves, triggers, outstanding counts, halt and error | fetch, split, read, write, stop | error in the middle of outstanding bursts; read data never asked for without room |
| `dlsc_axi_to_apb`, `_to_wb`, `dlsc_axilite_to_csr`, `dlsc_apb_domaincross`, `dlsc_apb_router`, `dlsc_csr_domaincross` | one state machine each, small queues | one transfer each | write data before its address; resets in the middle of a transfer |
| `dlsc_axi_reader`, `_writer`, packers | counters, a FIFO | request, transfer | as the DMA engine |
| `dlsc_config_enabler` | three nested enables, copies in each domain | enable, disable | separate bits that cross together; nesting in every domain |

### PCI Express bridge (`pcie/rtl`)

Inbound (requests of the host become AXI bursts) and outbound (AXI bursts become
requests; completions come in any order). State: tags, credits, buffers, time-out
counters, address translation memory, reset control. Hard: completions out of
order and after a time-out, credits taken ahead and returned by three units,
register accesses in the middle of a lookup, ordering of reads and writes.

### Data paths (`sortnet/rtl`, `pixel/rtl`, `alu/rtl`, `window/rtl`, `stereo*/rtl`, `demosaic/rtl`)

Sorting networks of 2 to 16 lanes generated by a Perl script, the 3x3 median
filter, arithmetic, windows with edge modes, block-matching stereo, demosaicing.
State: pipeline registers; few decisions. Hard: parallel paths of different depth
must meet in the same cycle, with gaps in the stream and at the borders.

### Peripherals and displays (`time/rtl`, `quad/rtl`, `uart/rtl`, `pwm/rtl`, `pxdma/rtl`, `vga/rtl`, `wishbone/rtl`, …)

Timers with capture and compare, quadrature decoder, PWM, serial port, frame DMA
between one writer and several readers, VGA output. Hard: events in the cycle of a
register read that clears them, counters at their limits, disabling in the middle
of a frame.

### Simulation models (`tlm/sim`, `axi/sim`, `csr/sim`, `wishbone/sim`, `pcie/sim`, `*/tb`)

| Part | State | Operations | Hard part and correctness |
|---|---|---|---|
| `dlsc_tlm_initiator_nb` | queue of requests, the one that was sent, outstanding and completed transactions, their times | issue, END_REQ, answer on either path, completion, two ways to wait | an issue races with END_REQ; answers in the future and out of order; none forgotten, each finished once and on time; a caller that waits comes back |
| `dlsc_tlm_target_nb` | completions queued, END_RESP owed, requests delayed | request, callback, complete, END_RESP | completion during the callback, queued ones first, resumed after END_RESP |
| `dlsc_tlm_channel` | two queues of delayed calls, the next delays | forward or keep, deliver | order kept, also from socket to socket; requests that pass it more than once |
| `dlsc_tlm_fabric` | source of each outstanding payload | route, way back | an answer finds the socket its request came from |
| `dlsc_tlm_memory` | words, time of the next transfer | serve, fail | shared bandwidth with local times that differ; a failed write may have stored part |
| `dlsc_tlm_memtest` | what it expects of each word, pending reads and writes of it, transactions per socket | initialise, search, launch, complete, check | several sockets, ways of different delay: the books are right in every order |
| bus adapters of AXI, APB, CSR and Wishbone | queues of commands, data and transactions on both sides, registered signals | callback, one method per channel and edge, reset | responses in the order of each ID, data ahead of addresses, reads ahead, merging; reset with requests at the memory |
| `pcie_tlp` | fields of a packet, what is decoded of them | setters, serialize, deserialize, validate | codings of 1024 words and 4096 bytes as zero, fields that depend on each other, damaged packets |
| sources, sinks, bit vectors, random numbers, encoder and stereo models | little | draw, drive, compute | numeric; drivers that the environments of the models include |

The I2C master is code of OpenCores.

`PROJECT.json` lists every part with its files and status, and under `hazards`
the lines where these cores are hard to test, each with the properties that guard it.

## What is modelled

```
 ResetDomains  <== RstSync            (==> : is shown to implement)
      |  assumed by
      +-- DomainCross ==> Channel
      +-- FifoAsync   ==> Channel      <-- MCFifoAsync

 SyncFifo <== FifoOne, FifoTwo, FifoShiftreg, FifoCounter, FifoRam   \
    |  used by                                                        } MCQueues
 FifoRvh ==> Channel,   RvhDecoupler ==> Channel                     /

 AxiRstcrossWr, AxiRstcrossRd   <-- MCAxiRstcross
 AxiRouterCommand, AxiRouterChannel (R or B, and W)  <-- AxiRouter  <-- MCAxiRouter
 Sortnet, Median3x3, PcieTlp   <-- MCAlgorithms

 TlmInitiator  <-- TlmInitiatorAny (any target, any caller)
    |
    +-- with TlmMemtest, TlmPath  <-- MCMemtest ==> RegionTest

 TlmBench <-- AxiTlmRead, AxiTlmWrite, ApbTlm, CsrTlm, WishboneTlm   <-- MCBfm ==> Bridge
          <-- TlmTarget                                              <-- MCBfm
```

**Abstract specifications.** `ResetDomains`: domains enter reset together and
none leaves before each was clocked in reset. `Channel`: a bounded queue that
neither loses, repeats, reorders nor invents items while it is up, and that a
reset empties. `SyncFifo`: the queue with the flags `dlsc_fifo` promises; it is
the reference model of `mem/tb/dlsc_fifo_tb.sp` as a specification. A ready/valid
core is specified by `Channel`, a core with push/pop and flags by `SyncFifo`.
`Bridge`: what a pair of bus adapters promises whatever the bus between them is,
resets included. `RegionTest`: a tester with several outstanding requests whose
order of service it does not know, and which is never wrong about the memory.

A queue that implements `Channel` or `SyncFifo` by *some* sequence of steps may still lose
a word, as one that was never put, or repeat one. In `DomainCross` and `MCQueues` the step
is therefore not open: `ImplementsFifo` and `ImplementsChannel` demand of every edge that
the abstract queue takes exactly the words that push, or ready and valid, hand over at
the input, gives exactly those that leave at the output, and does nothing else
(`FifoEdge`, `TokensEdge`, `ChannelEdge`, `Channel!Edge`, `ChannelStep`). A FIFO whose pop
wins over a push of the same cycle, or a register overwritten while the sink stalls,
breaks them: these are their mutants. The `FifoAsync` refinement leaves the step open,
and there `SafeFlags` ties the contents to the handshakes.

| Module | Models | State and actions, against the code |
|---|---|---|
| `RstSync` | `sync/rtl/dlsc_rstsync.v`, `_slice.v`, `dlsc_syncflop_slice.v` | `rst_in`; per domain the flops `dom`, `sync` and `rst_sr`. `ClkEdge(d)` is an edge of clock `d`; `RstInRise` sets all of them asynchronously. `seen` is history: the clock has ticked since. |
| `DomainCross` | `dlsc_domaincross_rvh.v` and its slice and synchronisers | flag, acknowledge and their synchroniser flops; `InClk` = `InReset`, `InSend` or `InIdle`, `OutClk` = `OutReset`, `OutReceive` or `OutWait`, the branches of the two `always` blocks. `RESET_ON_TRANSFER` is no parameter of the model: the code computes what it should do and never uses it. |
| `FifoAsync` | `dlsc_fifo_async_full.v`, `alu/rtl/dlsc_bin2gray.v`, `dlsc_gray2bin.v` | pointers of ADDR+1 bits modulo 2^(ADDR+1), Gray code as bit vectors, the delayed write `wr_r`, what is on the wires. `WrClk`, `RdClk`, `RstAssert`. `WR_SLOW`/`RD_SLOW` are the `WR_CYCLES`/`RD_CYCLES` > 1 variants of the flag logic. |
| `FifoOne`, `FifoTwo`, `FifoShiftreg`, `FifoCounter`, `FifoRam` | the files of the same name | the registers of each; `Clk` is `Reset` or `Running(push, pop)` under `Legal`. `Inc`, `Dec`, `Even` are the branches of the flag logic. |
| `FifoRvh` | `dlsc_fifo_rvh.v`, `dlsc_fifo_rvho.v` | the output register around *any* FIFO that keeps `SyncFifo`: the FIFO inside is the abstract one. |
| `RvhDecoupler` | `rvh/rtl/dlsc_rvh_decoupler.v` | both words, `in_ready`, `out_valid`, both enables. |
| `AxiRstcrossWr`, `AxiRstcrossRd` | `axi/rtl/dlsc_axi_rstcross_wr.v`, `_rd.v` | phony flags, counters and the FIFO of lengths; the handshakes (`MAw`, `SW`, …) are functions of registers and inputs. Master and slave are the environment and may do what AXI lets them. `Issue` is the master deciding on a burst. |
| `AxiRouterCommand` | `axi/rtl/dlsc_axi_router_command.v`, `dlsc_arbiter.v` | input and output buffers, the registered choice `arb_out`, the push to the channels `cmd`. `Forwarded` is `cmd_push_pre` with what it selects; of an address only the output it decodes to is kept. |
| `AxiRouterChannel` | `dlsc_axi_router_channel.v`, `_arbiter.v`, `_source.v`, `_sink.v`, `_lane.v` | per source and sink the queue of commands with its late pop, the data buffer, grant, lane and mask; per lane whom it connects. `Requests` and `Grant` are the combinational arbitration, `SourceNext`, `SinkNext`, `LaneNext` the registers of each part. |
| `AxiRouter` | `dlsc_axi_router_rd.v`, `dlsc_axi_router_wr.v` | the composition: `Clk` is one edge of the command path and of one channel (reader) or two (writer). Masters and slaves are the environment; `due` and `owes` are history: the answers each input waits for and each output has to give, in order, and `w_due`, `w_owes` the same of write data. |
| `Sortnet` | `sortnet/rtl/dlsc_sortnet_2.v` … `_16.v`, `_merge_2x4.v`, the generator, `alu/rtl/dlsc_compex.v` | one set of lane pairs per level of each generated file (a pass-through is a lane no pair names); `Level` takes a word through one level; `due` counts cycles with and without PIPELINE. |
| `Median3x3` | `pixel/rtl/dlsc_median_3x3.v`, `_slice.v` | every register of the data path, `Feed` and `Idle` for a cycle with and without a column. |
| `PcieTlp` | `pcie/sim/dlsc_pcie_tlp.cpp`, `.h` | a packet `tlp`; one action per setter, in any order; `Serialize`, `Deserialize`, `Validate`, `Equal` are functions of packets and words. |
| `TlmInitiator` | `tlm/sim/dlsc_tlm_initiator_nb.h` | `launch_queue`, `launch_outstanding`, `outstanding`, `complete_queue`, `done`, …; `Launch` is `launch`, `LaunchMethod`, `TransportBw` and `CompleteMethod` the methods of these names. What `nb_transport_fw` returns is a parameter. |
| `TlmInitiatorAny` | the calls of `wait` in the same file | any target of the base protocol (`EndRequest`, `Answer`) and one caller, which waits with `wait()` or `wait(delay)`. With `EndResps` the target may answer in the call with BEGIN_RESP; `unheard` is history: the transactions so answered. |
| `TlmTarget` | `tlm/sim/dlsc_tlm_target_nb.h` | the request and its callback, `ReadyMethod`, `Complete`, `CompleteMethod`, END_RESP; any initiator and any device. |
| `TlmPath` | `dlsc_tlm_channel.h`, `dlsc_tlm_fabric.h` and `dlsc_tlm_memory.h` in `tlm/sim` | operators that `MCMemtest` puts together: calls that pass through at once, calls that are kept, deliveries of both queues, the way back, service and its delay. |
| `TlmMemtest` | `tlm/sim/dlsc_tlm_memtest.h` | the thread: `pc` is `"idle"` before it starts, then the phase of `test` it is in; `mem_array`, `init_done`, `read_pending`, `write_pending` are its books. |
| `MCMemtest` | `tlm/tb/dlsc_tlm_tb.sp` | the composition: which socket goes which way. |
| `TlmBench` | `axi/tb`, the tests of the adapters | transactions, a memory that answers in any order and may fail, clock and reset: what all pairs of adapters share. |
| `AxiTlmRead`, `AxiTlmWrite` | `axi/sim/dlsc_axi4lb_tlm_master_template.h`, `_slave_template.h` | one operator per method (`MasterAr`, `SlaveR`, …) for registers, queues and signals; `Clk` is an edge, `Issue` the callback of the master. |
| `ApbTlm`, `CsrTlm`, `WishboneTlm` | the same of `axi/sim/dlsc_apb_tlm_*`, `csr/sim`, `wishbone/sim` | the same; Wishbone held and pipelined. |

`MCFifoAsync`, `MCQueues`, `MCAxiRstcross`, `MCAxiRouter`, `MCAlgorithms` and `MCBfm` check several units side by side in one
run. A rigid variable (`unit`, `channel`), chosen in `Init` and never changed, says
which unit the behaviour is about; registers the unit does not have stay `None`.
Every property of such a module says of each unit what the property of the same
name says in the unit's own module. The parameters of `MCQueues`, `MCFifoAsync` and
`MCAxiRouter` are a constant, the set `Units`, which may be any set the assumptions of the units allow:
TLC runs the small set `MCUnits`, and the proofs are about every set, hence about
every depth, threshold and variant.

## Runs, bounds and what they show

| Run | Distinct states | Shows |
|---|---|---|
| `rstsync` | 287 | three domains, any order of edges, the input up and down at any time: no domain leaves reset before every clock has ticked in reset; all leave when the input stays low |
| `domaincross` | 692 | each word handed over arrives once, in order and intact, whatever clocks and resets do; the two enables exclude each other; the word is stable when it is copied; the sender is let in again |
| `fifo_async` | 52,536 | three settings: nothing lost, repeated, reordered; a word is in memory before it is visible; pointers cross cleanly; flags and counts err on the safe side; no side waits for ever |
| `queues` | 14,410 | nine units: at every edge all implementations of `dlsc_fifo` do to one and the same queue what their user asked, and the ready/valid queues take and give exactly the words of their handshakes |
| `axi_rstcross` | 13,736 | either side reset at any time: the tracking never loses a burst, bursts end whole, none is answered twice, both sides finish even if the other never comes back |
| `axi_rstcross_early` | violation | with `SLAVE_RESET = 0` the FIFO of lengths overflows |
| `axi_router` | 105,367 | readers and writers: every beat goes from the port that owes it to the port that waits for it, in the order of the commands on both sides; no command is issued twice or lost, no queue overflows; bursts and commands never get stuck, also where both sides queue commands and share one lane |
| `algorithms` | 3,128,492 | every network sorts every word, identifiers stay with their data, the output comes when `out_valid` says; the output of the filter is the median of nine, with gaps and noise between columns; packets survive serialize and deserialize, damaged ones are not taken for others |
| `tlm_initiator` | 73,006 | any target, any race of issue, END_REQ and answer: no request is forgotten, each transaction is finished once and exactly at its time, and a caller comes back that waits with `wait()` for all or with `wait(delay)` for one; the exception, a transaction answered in the call with BEGIN_RESP, stays outstanding (see the disagreements) |
| `tlm_initiator_wait` | violation | the caller of `wait(delay)` never comes back |
| `memtest` | 137,352 | the bench of the TLM library: the books of the test, the queues and the way back agree, no miscompare is reported, the test implements `RegionTest` and ends |
| `bfm` | 157,459 | seven units: each pair of adapters is a `Bridge`, both ends hold the same transactions in the same order, and every transaction is answered, also across a reset |

The bounds, each a CONSTANT or a definition named in the module:

* `rstsync`: `Domains` of three (two others beside the one looked at), `DEPTH = 3`
  (a middle bit in the shift register). The proofs remove both bounds.
* `domaincross`: two words and the reset word, so that a stale, a doubled and an
  invented word are all different. The proofs remove the bound on words.
* `fifo_async`: depth 2 with two words tells words apart and wraps the pointers
  in a few steps; depth 4 with one token has pointers of three bits, where a
  plain binary code would be torn, and thresholds away from the ends. There is no
  bound on the number of pushes: pointers wrap.
* `queues`: depths 1 to 4, 3 for a depth that is not a power of two, 11 for the
  counter alone; three words, so that all the words of the small FIFOs can differ.
  No bound on the length of a behaviour.
* `axi_rstcross`: `MOT` 2 (3 for reads), bursts of up to four beats, a master that
  wants more bursts (`ISSUE` = 3) than the limit, so the limit is reached and
  enforced. `ISSUE` bounds the environment, not the core.
* `axi_router`: six routers (`MCUnits` of `MCAxiRouter`): two masters and two slaves with two
  lanes, so that two bursts pass at the same time, and with one lane, for which source and
  sink of different bursts compete; two masters, a deeper queue
  (`MOT` = 3); two slaves with data buffers; a writer with two masters, and one with
  two slaves. `MOT` = 2 elsewhere is the smallest the code works with and the one
  whose queues fill at once. A burst has one beat or two, with a pause between them
  (`Openings` leaves only one-beat bursts where two beats would give too many
  states); masters offer commands and data, and slaves answers, without limit.
  Liveness is checked (the field `live`) for the two masters and two slaves with one
  lane, where both sides have queues of commands, so that a source and a sink could
  each wait for a burst behind one that waits for the lane; and for two masters, two
  slaves, and the writer with two slaves. For safety the proofs remove the bounds on
  ports, lanes and `MOT`.
* `algorithms`, sorting: values 0 and 1. A comparator network that sorts every word
  of zeros and ones sorts every word (the 0–1 principle), so this is no restriction;
  stability is about ties, which 0 and 1 have. Median: pixels 0 and 1 by the same
  argument; four columns, one more than the window, so that there are two outputs, and a
  column moves the window on behind the first: a path too short by a cycle shows. `GAP` = 1 idle
  cycle between columns; `Noise`: in idle cycles the data lines carry all zeros or all ones.
  Packets: one type of each class, up to `MaxCalls` = 3 setters in any order after
  the type, for each field a value with bits at both of its ends, lengths 1, 2 and
  1024, addresses below and above 4 GB. Three calls are the most of which an order
  matters: those for the length, the byte enables and the data.
* `tlm_initiator`: three transactions, one that waits for END_REQ, one behind it
  and one answered meanwhile; delays of 0 and 2, so that completions pass each other
  in time; `MaxNow` ends the issuing, not the run. `EndResps`: a target may answer in
  the call and ask for END_RESP; FALSE in `tlm_initiator_wait`, which is about
  a caller whose transactions are all heard of. `Polite`: a target answers no
  earlier transaction while a request waits for END_REQ; see the disagreements.
* `memtest`: one burst of two words to initialise, two iterations, one outstanding
  request per socket. That is two requests at the memory at once, over ways of
  different delay, on words they share, of which either may fail or write one word
  only: the conflicts of the books are between two requests. One socket and three.
* `bfm`: three transactions, two of one socket in one of which there are two words,
  and one of the other; one reset after the first (`MaxResets`); none for the
  pipelined Wishbone, whose two adjacent reads and merging already give most of the
  states. Every request may fail, with one status per unit.

Deadlock is not checked where the model stops because the work is done: after the
last output (`algorithms`), the last transaction (`memtest`, `bfm`) or the bound on
time (`tlm_initiator`, `tlm_initiator_wait`). It is checked everywhere else.

## Fairness

* **Clocks keep running** (weak fairness of each clock's edge in `RstSync`,
  `DomainCross`, `FifoAsync`, and of an edge out of reset in `FifoRvh`). Where a
  sender is part of the edge it is the idle edge that is fair: nobody is made to
  offer anything.
* **A consumer does not refuse for ever**: `OutClk(TRUE)` in `DomainCross`, `RdTake`
  in `FifoAsync`, `DecouplerTake` in `MCQueues`. In `FifoAsync` it is strong
  fairness, because the FIFO goes empty between the words.
* **The two ends of an AXI link meet** (`Meet`): a valid is held until its ready
  comes, as AXI demands, so there are again and again cycles in which what is
  offered is wanted. The slave need not accept data ahead of its command.
* **Masters and slaves do their part** (`AxiRouter!Flow`): again and again there is
  a cycle in which every port takes what is valid and offers what it may. Nothing is
  assumed of the cycles between, and the arbiters are not assumed fair. `MCAxiRouter`
  states it of the variable `flow`, which such a cycle flips: infinitely many flips.
  `Flow` is possible in every state, so this is its weak fairness, in a form
  that TLC checks faster.
* Of resets **nothing** is assumed: they may come for ever, or stay. Where a reset
  is an input of a clock edge, the fair step is one that leaves the reset as it is
  (`Meet`, `RvhTick`), so fairness never makes a reset come to the rescue of a
  stuck core or go away. In `DomainCross` and `FifoAsync` the fairness of the edges
  also ends a reset that is no longer asserted; their liveness properties are about
  times when both sides run. Properties that need the resets to stop say so
  (`<>[](rst_in = 0) => ...`, `<>[]R!AllRunning => ...`); `BurstsEnd` of
  `axi_rstcross` holds for each side also when the other stays in reset for good.
* **The kernel runs what can run** (`TlmInitiatorAny`, `TlmTarget`, `MCMemtest`): weak
  fairness of each process; a target answers what it was given, an initiator ends
  a response with END_RESP. Nobody is made to issue, or to wait.
* **Random stalls end** (`MCBfm!Lucky`): the clock runs, and again and again there is an
  edge at which every draw of `rand()` is one that lets things move. It is strong
  fairness of that edge; nothing is assumed of the others. The memory answers
  what it was asked, and a reset is released.

## What is proved

All for every value of the constants that the named assumption of the module allows.

| Theorem | Says |
|---|---|
| `RstSync!Invariance` | `IInv` holds, for any set of domains and any depth |
| `RstSync!ImplementsPromise` | `RstSync` implements `ResetDomains` |
| `DomainCross!Invariance`, `!TypeCorrect` | the inductive invariant of the handshake, and the types |
| `DomainCross!ExclusiveEnables`, `!StableData` | the two simulation assertions of `dlsc_domaincross_slice` |
| `DomainCross!ChannelRefinement` | what the source hands over and the sink takes at the ports are the steps of `Channel` with capacity two, for any set of words and through resets |
| `FifoAsyncProofs!Invariance` | every copy of a pointer on its way through `dlsc_fifo_async` is a value the pointer had, in the order of the copies; flags and delayed write agree with them |
| `FifoAsyncProofs!PointersCross` | of a pointer that crosses, one bit changes at a time, at every width, where it wraps and in reset |
| `FifoAsyncProofs!SafeFlags` | flags and counts are safe on both sides, and a word is in memory before it is visible |
| `FifoAsyncProofs!ChannelRefinement` | `dlsc_fifo_async` implements `Channel`, for every depth, threshold and variant |
| `QueuesProofs!Invariance` | counts, addresses, flags and contents of every FIFO of `mem/rtl` and both register slices agree |
| `QueuesProofs!HeadIsReady` | the word the user of `dlsc_fifo_ram` sees is the oldest one |
| `QueuesProofs!FifoRefinement` | at every edge each implementation of `dlsc_fifo` does to the queue of `SyncFifo` with exact flags what the inputs ask: push, pop or both |
| `QueuesProofs!ChannelRefinement` | at every edge `dlsc_fifo_rvh` and `dlsc_rvh_decoupler` take and give exactly the words of their handshakes, by the steps of `Channel` |
| `AxiRstcrossProofs!Tracking` | the tracking of each side of the reset crossing is that side's view of its bursts, in range, and the two agree outside phony traffic |
| `AxiRstcrossProofs!WholeBursts` | no reset of one side cuts or stretches a burst of the other |
| `AxiRstcrossProofs!ResponsesAwaited` | the master gets no response it does not await |
| `AxiRouterProofs!Agreement` | the two sides of each channel of the router hold the same commands, no queue overflows, source, lane and sink agree on every burst, and no empty buffer is forwarded |
| `AxiRouterProofs!Routing` | every beat goes from the port that has to send it to the port that waits for it, in the order of the commands of both: any number of ports, lanes and outstanding bursts |
| `TlmInitiatorAny!Invariance` | no request is forgotten, no transaction lost or kept twice, one answered in the call with BEGIN_RESP is never finished, and the assertion holds if targets are polite: for any set of transactions, delays and targets |
| `TlmInitiatorAny!OnTimeCompletion` | a transaction is finished at most once, in the step and at the time its annotated delay is over, and stays finished, whatever the target does |
| `MemtestProofs!MemtestInvariance` | the memory test on its bench: its books are those of the open requests and keep reads and writes apart, a request it waits for is in one queue of the channel, once, and knows its way back, no assertion of the initiator fails: for any region, traffic, number of sockets and any delays |
| `MemtestProofs!MemtestRefinement` | on its bench, the memory test implements `RegionTest` |
| `MemtestProofs!RegionInvariance` | in `RegionTest`, open requests never conflict; what the tester knows, with the answers under way, describes the memory, also after failed and partial writes |
| `MemtestProofs!MemtestNeverWrong` | the memory test never reports a miscompare of a memory that works |

**RstSync.** A zero can only enter the flops of a domain at an edge of its clock
while `rst_in` is low, so a zero in `dom[d].src` means the clock has ticked
(`DomSeen`). The chains of a slice move only when `rst_all` is low, which takes a
zero in *every* domain (`SliceSeen`), and they empty from the input end
(`InOrder`), so a domain whose reset is low has a zero in every flop before it.
Hence a released domain implies that every clock has ticked: the guard of
`ResetDomains!Release`. A single domain has no aggregate and is a case of its own.

**DomainCross.** The seven bits flag → synchroniser → acknowledge → synchroniser
form a loop. While both sides run, reading along the loop the bits only rise or
only fall: at most one neighbouring pair differs, that is, one toggle is under way
(`OneToggleInFlight`). This is not inductive by itself at start-up, when one side
runs and the other is in reset; `HeldValues` and `QuietStart` say that until both
run nothing moves. From the shape of the loop follow the exclusion of the enables,
the stability of the word, and the queue `Pending` that maps to `Channel`.

**FifoAsync.** Three layers. The *arithmetic*: a pointer is an index, the number of
words pushed or popped so far, modulo 2^(ADDR+1); a difference of less than a turn is
kept (`PointersApart`), and so the comparisons of the code are those of the indices
(`Distance`, `FlagArithmetic`). The *Gray code*: the codes of p and p + 1 differ at bit
i where p + 1 is an odd multiple of 2^i (`GrayChange`), which a number is for one i only
(`OddMultiple`); the last code and the first differ in the top bit (`GrayLast`); and the
parity of the bits from j up gives back bit j (`ParityIsBit`). Induction is by least
counterexample: `<` is well-founded on Nat. The *invariant*: twelve indices, one for each
register, wire and synchroniser flop a pointer passes, which fall along the way
(`Ordered`) between what the write side last heard of the reader and `DEPTH` more.
Every edge moves each index to that of its predecessor. While a reset reaches
the domains the two sides know nothing of each other, so the order is stated only when
no reset is pending, with what holds on each side otherwise beside it (`WrHeld`, `RdHeld`,
`Crossing`); a crossing is clean even then. For the channel the contents are a row of
words by index (`Row`), with the delayed write counted in: the one word that may not be
in memory yet is the last (`Delayed`), and a cell is written again only after its word left.

**Queues.** `IInv` of each FIFO ties its flags, addresses and memory to the number of
words. *Shift register*: of the address width the proof uses only that there are `SIZE`
addresses and `DEPTH <= SIZE`, so one argument covers depths that are a power of two,
where the address of an empty FIFO is also that of a full one and only the flags tell
them apart, and depths that are not; a shift appends, and the word at the address is the
head (`PushAppends`, `PopTakesHead`). *Memory*: the words are the `cnt` cells from the
read address on, going round (`At`, `Words`); the write address is that of the next slot
(`Slot`), a cell of its own unless the FIFO is full (`CellsApart`). With registered
output, the register holds the head whenever the FIFO says it is not empty: an
empty FIFO stays empty to its user for one cycle after a push, so that the memory
is never read and written at the same cell for a word that is used (`RamRunning`).
*Ready/valid register*: what it holds is one word in front of the queue (`InFront`),
and its next word is the head of whatever keeps `SyncFifo` (`RvhHead`).

**AXI reset crossing.** What the run checks says how the two ends agree while neither is
fed phony traffic, and nothing of the time between; so it is not inductive, as a side
that comes back must find the other where it expects it. `WrInv` and `RdInv` add that
the partner of a side fed phony traffic has nothing on its way, that no beat is counted of
a burst that is not there and none beyond the length of one, and, for writes, that the
commands the master has not passed on are the last of those whose data it owes: the
bursts `ahead` of them are what both sides' counters count. One lemma for each side says
what an edge does to its half (`WrMasterEdge`, `WrSlaveEdge`, `BurstStep`) given what
`WrHandshakes` and `RdHandshakes` derive of the handshakes, resets included. Both
`MASTER_RESET` and `SLAVE_RESET` are supported, as in the run: without the second, the
crossing fails (run `axi_rstcross_early`).

**AXI router.** What the run checks compares two queues, or a beat with the history of
commands; alone it is not inductive, since a channel has to know that the commands it
still waits for are the right ones. Each port has a list of the bursts it waits for:
the burst on its lane, its queue (`Waiting`), the command on its way to the queue and,
on the side of the masters, the command in the input buffer. `Inv` of the proof module
says that this list is `due` or `owes`. A cycle moves bursts along the list,
adds one at its end and drops the first with its last beat, and so do the counts
(`SourceHistory`, `SinkHistory`). In the cycle after a grant the queue still holds the
command of the grant; the masks, which keep that port from asking, are what makes
the list true then, and without them `IInv` fails (the mutant of the run). A port with a
single port opposite has no queue: how many bursts it waits for is told by the
queues of the other side (`Awaits`). Each grant finds a command at both ends, because how
often a pair of ports is in the queue of one is how often it is in that of the other
(`Count`). In the command path `arb_out` may name a buffer that has emptied
since; nothing is forwarded from it, because the output it was for is not free in that cycle.
The proof is for one channel with any parameters, then for the channels `R` and `W` of
a unit, then for the command path and the unit. Of the parameters it uses
`AxiRouterAssumption` only: `MOT` of at least two, and more than one port on one of the two sides.

**TlmInitiator.** `IInv` says where a transaction is (`TxnsPlaced`) and that a queued
request is on its way or about to be sent (`NoRequestStuck`). For the time of
completion it is not enough: `Tick` must not step over a `done_time`, so `Strong`
adds that nothing in `complete_queue` is overdue (`OnTime`). Every action answers
some transactions (`CompleteLocal`) and replaces the queue of requests; two lemmas
say what that keeps (`CompleteLocalInv`, `LaunchUpdateInv`: what remains in the queue
is not answered, and if something remains the first of it is with the target; what was
answered in the call with BEGIN_RESP is neither in the queue nor completed),
and the actions follow from them. `Parts` splits the invariant into what concerns
the queue and what does not. `OnTimeCompletion` is the step property `Finishing` of
the same lemmas.

**RegionTest.** Two requests that are open do not share words unless both read
(`Separate`). `Agree` describes the memory while requests are under way: where the
tester knows it, a word is what the shadow says unless an open write that was served
covers it; a write that succeeded has stored its data; a read has what the shadow
says, because no open write reached its words between its service and its end. Service
changes only the strobed words of one request (`ServedFacts`), so `Agree` survives it
(`ServedAgree`), and at the close of a request the shadow catches up, or forgets
what a failed write covers. The proof is about `RegionTest` as `MCMemtest` instantiates
it, hence about any region, any number of requests and any order of service.

**Memory test.** `IInv` tells of the queues of the channel and of the books, but not
that a request found in a queue still has what its delivery needs, so it is not
inductive. `Inv` has eight parts. `Thread`: what the thread waits for is the oldest
request of the socket it is about to close. `Progress`: the numbers of requests do not
run out, and the requests of the initialisation lie below `index`, which is why they
need no search. `Places`: an open request is on one socket, once. `Held`: the initiator
keeps no request back, and what it waits for (`Awaited`) is open. `Ways`: what it waits
for is in the two queues of the channel, each request in one of them, once, and each
entry knows its way back: one the fabric passed on has one source, the socket it is
outstanding on, the others have none. `Records`: a payload has its answer exactly when
it is no longer on its way forward, so the memory serves each request once. `Contents`
and `Books`: the memory, and the counters of pending reads and writes.
The proof goes in four layers. What `find_region` returns lies inside the region and is
free, whatever run of words it found (`RegionFound`, `RequestFresh`). What one call
changes in channel, fabric, memory and initiator, each in a lemma of its own. What each
action does to each part of `Inv`. And, from the same facts, that the action opens,
serves or closes one request of `RegionTest`, or changes nothing it sees (`OpenRefined`,
`ServedRefined`, `CloseRefined`, `Stutters`); a request that is answered during
the call that issues it is served as it opens. `MemtestNeverWrong` follows from the
refinement and `RegionInvariance`. No bound of the run is left: `size`, `max_length`,
`iterations`, `max_mots`, `Boundary`, the quantum, the delays, the number of sockets (those
beyond the second go straight to the memory) and `Low` are any that the
assumptions allow.

**Only model-checked**: liveness (fairness and ENABLED are beyond TLAPS: `NothingStuck`,
`BurstsEnd`, `TestEnds` and their like), that the sorting networks and the median filter
compute what they should (each is one fixed circuit, for which TLC tries every input),
the packets, and the bus adapters (`InOrder`, `ImplementsBridge`), whose proof would need
an invariant for each of seven pairs of registers and queues. The 0–1 principle that
justifies two values for the data paths is a known theorem about comparator networks; it
is not proved here.

## Disagreements between code and documentation

* **`dlsc_axi_rstcross_wr` with `SLAVE_RESET = 0`** (`axi_rstcross_early`).
  `m_w_cnt_zero` is then constant 0, so write data may pass before its command. The
  slave-side FIFO of lengths recognises data and command in the *same* cycle only;
  a last beat that came earlier leaves an entry that nothing pops. Two such bursts
  and the next command overflows the FIFO, which `dlsc_fifo` reports as an error,
  although the master stays within `MOT`. With both resets supported (run
  `axi_rstcross`) the master-side gate keeps data behind its command and everything holds.
* **A wait that does not wait** (`tlm_initiator_wait`). `wait(delay)` of
  `dlsc_tlm_initiator_nb.h` takes the first outstanding transaction and waits for it; one
  that is answered, but whose time has not come, makes it return at once with the
  delay moved to that time, and only `complete_method`, which cannot run before
  the caller sleeps, would take it out of `outstanding`. Unless a boundary of the
  quantum is crossed the loop takes the same transaction for ever; with a quantum of
  0, the default, that is never the case. The memory test waits for single
  transactions, which is not affected.

Checked while the models were written, with no run of their own:

* **An answer that is not heard** (`dlsc_tlm_initiator_nb.h:380`). If `nb_transport_fw`
  returns anything but `TLM_COMPLETED` with phase BEGIN_RESP, as a target may that answers
  in the call and wants an END_RESP, the initiator puts END_RESP into `phase` to send it and
  then, at line 384, tests whether `phase` is BEGIN_RESP ("response received; complete
  transaction"). It no longer is: `complete_local` is not called, the transaction stays
  in `outstanding` for ever, and a wait for it does not return. The model does the same:
  the proved invariant says that such a transaction (`unheard`) is never finished, and
  liveness (`CallerServed`) excepts it. What the comment says, `AnsweredByPhase`,
  violates that invariant. The targets of the library answer in the call with
  `TLM_COMPLETED` only, so its benches do not meet it.
* **`RESET_ON_TRANSFER`** of `dlsc_domaincross_rvh.v` should "reset out_data after it is
  accepted" (line 45). `out_rst_data` (106) is computed from it and used nowhere: lines
  143 to 149 reset the output register with `out_rst` only. No property depends on it.
* **Sorting networks are not stable.** The test bench orders its reference by
  identifier where data is equal and reports a miscompare otherwise; the networks
  compare data only. Its random data hardly ever ties.
* **A request without data.** `dlsc_axi_router_channel_source` asks for its next burst
  while the last beat of the one before leaves, and takes that beat for the one the
  next burst needs "for next cycle". The lane, and the sink, are then held by a
  source that has nothing to send. Nothing is lost: the run `axi_router` shows that
  the burst is still routed and ends.
* **The assertion of `nb_transport_bw`** (`dlsc_tlm_initiator_nb.h:327`) holds any call on
  the backward path to be about the request that was sent while that waits for END_REQ. The base
  protocol lets a target answer an earlier transaction first; with `Polite` = FALSE
  the assertion fails. The targets of the library accept requests during the call.
* **4 KB boundary** (`dlsc_pcie_tlp.cpp:433`): `validate` adds a length in words to an
  address in bytes, so requests that cross the boundary pass the check.
* **Comparison of packets** ignores the address or the identifier by which a message is routed.
* **No fairness between masters** in `dlsc_axi_router_command`, which nothing in
  the library promises: the arbiter rotates every cycle, an output buffer is free
  every second cycle, so one of two masters can be chosen in the busy cycles only for
  as long as the other keeps its buffer filled. `NothingWaitsForever` is therefore about
  the router, not about one master.
* Noted while reading, C++, not modelled or beside the properties: `dlsc_tlm_memtest`
  computes `i%(iterations/10)`, a division by zero below ten iterations, does not keep
  its initial writes within 4 KB, and loses the trigger if `test()` is called before
  the thread first waits; it and `dlsc_tlm_mm` use `delete` for arrays of `new[]`.
  `dlsc_tlm_fabric` routes END_RESP by an address it has translated already.
  `dlsc_tlm_channel` clears `fw_outstanding` without looking which transaction ended.
  The APB and CSR slaves read an uninitialised variable when a read fails, the
  APB slave does not clear `apb_slverr` in reset, the CSR master ignores strobes.
  The pipelined Wishbone slave can merge transactions across a 4 KB boundary. In
  `pcie_tlp` messages are marked non-posted, and `set_length` after `set_data` makes
  a packet that `deserialize` rejects.
* Noted while reading, RTL, not modelled: the loop of `dlsc_address_decoder.v` starts one
  range past the last. `dlsc_sortnet_merge_2x4.v` instantiates
  modules named `dlsc_sortnet_compex` and `dlsc_sortnet_passthrough`, which do not
  exist in the library; the model takes the cells of the other networks for them.
  `dlsc_clkdetect` compares counters of `clog2(N)` bits with `N`, which they cannot
  reach when `N` is a power of two; the default, 15, is not.

## What is not modelled, and why

* **Data**: addresses, strobes and pixel values that a core only passes on are
  model values or left out; arithmetic (multipliers, correlation windows,
  demosaicing) is numeric and has no control of its own.
* **Metastability and timing**: a synchroniser is modelled by what it settles to.
  `dlsc_fifo_async_full` relies on placement constraints to keep the skew of the
  pointer's bits below a clock period; that is an assumption (a word on the wires
  has settled by the sender's next edge).
* **BYPASS and single-clock shortcuts** of the crossings are wires.
* **Read latency options** of `dlsc_fifo_async` add registers behind it.
* **Memory management of the payloads** (`dlsc_tlm_mm`), DMI and debug transport, and
  the extensions of TLM: the models need of them that a new payload has no answer.
* **Addresses, strobes, byte order** of TLM payloads inside the adapters: a word is named by
  its transaction and position, which is enough to tell a wrong one. The strobes of
  the memory test are modelled, because its books depend on them.
* **Blocking requests in the channel**: no target of its bench holds up a request, so
  `fw_outstanding` and `bw_outstanding` stay false there.
* **The encoder and stereo models** are numeric (real time, windows of pixels); the
  sources and sinks of `rvh/sim` are drivers that the environments of
  `RvhDecoupler` and `FifoRvh` include; bit vectors, random numbers and start-up
  have no behaviour of their own.
* I2C (third-party), camera deserialiser (primitives of one FPGA family), board wiring.
* **The address decoder** of the router: an address stands for the output it
  selects. The command queues of its channels are the ideal queue of `SyncFifo` with
  exact flags; a pessimistic empty flag (deep queues in block RAM) would only delay.
* Everything marked *left for later* in `PROJECT.json`. Lines there at which the
  same care is due: `dlsc_clkdetect.v:77` (counter widths),
  `dlsc_apb_domaincross.v:152` (reset in a transfer), `dlsc_dma_rwcontrol.v:275`
  (errors with bursts outstanding), `dlsc_axi_to_apb.v:187` (data before its
  address), `dlsc_config_enabler.v:258` (nesting in every domain),
  `dlsc_pcie_s6_outbound_read_alloc.v:204` and `_read_cpl.v:277` (credits, late
  completions), `dlsc_rowbuffer_combiner.v:130` (addresses that cross at their own
  pace), `dlsc_timer_capture_channel.v:213` (an event in the cycle of the clearing
  read).

## What is left

Done, in this order: `ResetDomains`, `RstSync`, `Channel`, `DomainCross` with
proofs; the sorting networks and the median filter; `FifoAsync`; the synchronous
queues; the AXI reset crossing; the AXI router; the simulation library: initiator and target, memory test with channel,
fabric and memory, bus adapters, packets, with the proofs of the initiator and of the
memory test on its bench; the proofs of all FIFOs and queues, of one clock and of two, of
the reset crossing and of the router.

What would follow, the most important behaviour first:

1. **PCI Express outbound reads**: tags, credits and buffer space
   (`read_alloc`), completions in any order and time-outs (`read_cpl`), the reset
   control that drains the bus side.
2. **DMA engine**: command fetch, triggers, outstanding reads against room in the
   FIFO, halt and error.
3. **RTL bridges**: `dlsc_apb_domaincross`, AXI to APB and Wishbone, AXI-Lite to CSR,
   against `Bridge`.
4. **Row buffers** composed from `DomainCross`, and the frame hand-over of `pxdma`.
5. **Config enabler, clock detector, glitch filter, timers, quadrature decoder,
   serial port.**
6. **Address decoder, window generator, dividers, rate limiter, minimum trees**
   against reference definitions.

Proofs: that the adapters implement `Bridge` for any number of transactions.
