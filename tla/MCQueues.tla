-------------------------------- MODULE MCQueues --------------------------------
(***************************************************************************)
(* The queues of one clock domain, one behaviour for each: the four        *)
(* implementations between which the parameters of dlsc_fifo choose, the   *)
(* counter used by itself, and the two ready/valid queues.  unit says      *)
(* which one runs, and with which parameters; they share the names of      *)
(* their registers, and a register a unit does not have stays None.        *)
(*                                                                         *)
(* Units is any set of units with parameters the code allows: what is      *)
(* proved of this module holds for all of them, and MCUnits is a small     *)
(* set that TLC runs.                                                      *)
(***************************************************************************)
EXTENDS Naturals, Sequences

CONSTANTS
    Data, None,
    Units   (* records: kind, and the parameters that kind has *)

VARIABLES
    clk,    (* which edge of the clock, odd or even: every edge is a step *)
    unit,
    rst, rst_done,
    wr_full, almost_full, rd_empty, almost_empty, cnt, free,
    mem, wr_addr, rd_addr,
    out_valid, out_data, buf_valid, buf_data, in_ready

vars == <<clk, unit, rst, rst_done, wr_full, almost_full, rd_empty, almost_empty, cnt, free,
          mem, wr_addr, rd_addr, out_valid, out_data, buf_valid, buf_data, in_ready>>

One(u) == INSTANCE FifoOne WITH
    rd_data <- out_data, FULL_IN_RESET <- u.full_in_reset
Two(u) == INSTANCE FifoTwo WITH
    wr_almost_full <- almost_full, rd_almost_empty <- almost_empty,
    wr_free <- free, rd_count <- cnt,
    ALMOST_FULL <- u.almost_full, ALMOST_EMPTY <- u.almost_empty,
    FULL_IN_RESET <- u.full_in_reset
Shiftreg(u) == INSTANCE FifoShiftreg WITH
    addr <- rd_addr,
    ADDR <- u.addr, DEPTH <- u.depth,
    ALMOST_FULL <- u.almost_full, ALMOST_EMPTY <- u.almost_empty,
    FULL_IN_RESET <- u.full_in_reset
Counter(u) == INSTANCE FifoCounter WITH
    DEPTH <- u.depth, ALMOST_FULL <- u.almost_full, ALMOST_EMPTY <- u.almost_empty,
    FAST_FLAGS <- u.fast_flags, FULL_IN_RESET <- u.full_in_reset
Ram(u) == INSTANCE FifoRam WITH
    mem_rd_data <- out_data,
    DEPTH <- u.depth, ALMOST_FULL <- u.almost_full, ALMOST_EMPTY <- u.almost_empty,
    FAST_FLAGS <- u.fast_flags, FULL_IN_RESET <- u.full_in_reset
Rvh(u) == INSTANCE FifoRvh WITH
    q <- mem, wr_almost_full <- almost_full, rd_almost_empty <- almost_empty,
    valid <- out_valid, data <- out_data,
    DEPTH <- u.depth, ALMOST_FULL <- u.almost_full, ALMOST_EMPTY <- u.almost_empty,
    FAST_FLAGS <- u.fast_flags
Decoupler == INSTANCE RvhDecoupler WITH data <- buf_data, Word <- Data

(* The units of a kind. *)
Of(kind) == {u \in Units : u.kind = kind}

(* Every unit is of a known kind, with parameters the code allows. *)
UnitsAssumption ==
    /\ \A u \in Units :
          u.kind \in {"one", "two", "shiftreg", "counter", "ram", "rvh", "decoupler"}
    /\ \A u \in Of("one") : One(u)!FifoOneAssumption
    /\ \A u \in Of("two") : Two(u)!FifoTwoAssumption
    /\ \A u \in Of("shiftreg") : Shiftreg(u)!FifoShiftregAssumption
    /\ \A u \in Of("counter") : Counter(u)!FifoCounterAssumption
    /\ \A u \in Of("ram") : Ram(u)!FifoCounterAssumption /\ Ram(u)!FifoRamAssumption
    /\ \A u \in Of("rvh") : Rvh(u)!FifoRvhAssumption
    /\ Decoupler!RvhDecouplerAssumption

ASSUME UnitsAllowed == UnitsAssumption

(* The units TLC runs: the shift register at a depth that is a power of    *)
(* two and at one that is not, the memory with either kind of flags.       *)
MCUnits == {
    [kind |-> "one", full_in_reset |-> TRUE],
    [kind |-> "two", almost_full |-> 1, almost_empty |-> 0, full_in_reset |-> TRUE],
    [kind |-> "shiftreg", addr |-> 2, depth |-> 4, almost_full |-> 1, almost_empty |-> 2,
     full_in_reset |-> TRUE],
    [kind |-> "shiftreg", addr |-> 2, depth |-> 3, almost_full |-> 2, almost_empty |-> 0,
     full_in_reset |-> FALSE],
    [kind |-> "counter", depth |-> 11, almost_full |-> 3, almost_empty |-> 2,
     fast_flags |-> TRUE, full_in_reset |-> FALSE],
    [kind |-> "ram", depth |-> 4, almost_full |-> 1, almost_empty |-> 1,
     fast_flags |-> FALSE, full_in_reset |-> FALSE],
    [kind |-> "ram", depth |-> 4, almost_full |-> 1, almost_empty |-> 0,
     fast_flags |-> TRUE, full_in_reset |-> TRUE],
    [kind |-> "rvh", depth |-> 3, almost_full |-> 1, almost_empty |-> 1,
     fast_flags |-> FALSE],
    [kind |-> "decoupler"]}
--------------------------------------------------------------------------------
(* The registers a unit does not have: None at first, and unchanged. *)
counts == <<cnt, free>>
addresses == <<wr_addr, rd_addr>>
thresholds == <<almost_full, almost_empty>>
stages == <<out_valid, buf_valid, buf_data, in_ready>>

NoCounts == cnt = None /\ free = None
NoAddresses == wr_addr = None /\ rd_addr = None
NoThresholds == almost_full = None /\ almost_empty = None
NoStages == out_valid = None /\ buf_valid = None /\ buf_data = None /\ in_ready = None

OneLacks == rst = None /\ mem = None /\ NoAddresses /\ NoThresholds /\ NoCounts /\ NoStages
TwoLacks == rst = None /\ rst_done = None /\ mem = None /\ NoAddresses /\ in_ready = None
ShiftregLacks == rst = None /\ wr_addr = None /\ out_data = None /\ NoCounts /\ NoStages
CounterLacks == rst = None /\ mem = None /\ out_data = None /\ NoAddresses /\ NoStages
RamLacks == rst = None /\ NoStages
RvhLacks == /\ rst_done = None /\ NoCounts /\ NoAddresses
            /\ buf_valid = None /\ buf_data = None /\ in_ready = None
DecouplerLacks == /\ wr_full = None /\ rd_empty = None /\ NoThresholds /\ NoCounts
                  /\ mem = None /\ NoAddresses /\ buf_valid = None

oneLacks == <<rst, mem, addresses, thresholds, counts, stages>>
twoLacks == <<rst, rst_done, mem, addresses, in_ready>>
shiftregLacks == <<rst, wr_addr, out_data, counts, stages>>
counterLacks == <<rst, mem, out_data, addresses, stages>>
ramLacks == <<rst, stages>>
rvhLacks == <<rst_done, counts, addresses, buf_valid, buf_data, in_ready>>
decouplerLacks == <<wr_full, rd_empty, thresholds, counts, mem, addresses, buf_valid>>

Init ==
    /\ clk = 0
    /\ \/ \E u \in Of("one") : unit = u /\ One(u)!Init /\ OneLacks
       \/ \E u \in Of("two") : unit = u /\ Two(u)!Init /\ TwoLacks
       \/ \E u \in Of("shiftreg") : unit = u /\ Shiftreg(u)!Init /\ ShiftregLacks
       \/ \E u \in Of("counter") : unit = u /\ Counter(u)!CntInit /\ CounterLacks
       \/ \E u \in Of("ram") : unit = u /\ Ram(u)!Init /\ RamLacks
       \/ \E u \in Of("rvh") : unit = u /\ Rvh(u)!Init /\ RvhLacks
       \/ \E u \in Of("decoupler") : unit = u /\ Decoupler!Init /\ DecouplerLacks

Next ==
    /\ clk' = 1 - clk
    /\ UNCHANGED unit
    /\ \/ \E u \in Of("one") : unit = u /\ One(u)!Next /\ UNCHANGED oneLacks
       \/ \E u \in Of("two") : unit = u /\ Two(u)!Next /\ UNCHANGED twoLacks
       \/ \E u \in Of("shiftreg") : unit = u /\ Shiftreg(u)!Next /\ UNCHANGED shiftregLacks
       \/ \E u \in Of("counter") : unit = u /\ Counter(u)!CntNext /\ UNCHANGED counterLacks
       \/ \E u \in Of("ram") : unit = u /\ Ram(u)!Next /\ UNCHANGED ramLacks
       \/ \E u \in Of("rvh") : unit = u /\ Rvh(u)!Next /\ UNCHANGED rvhLacks
       \/ \E u \in Of("decoupler") : unit = u /\ Decoupler!Clk /\ UNCHANGED decouplerLacks

RvhTick ==
    /\ \E u \in Of("rvh") : unit = u /\ Rvh(u)!Tick
    /\ clk' = 1 - clk /\ UNCHANGED <<unit, rvhLacks>>
DecouplerTake ==
    /\ unit \in Of("decoupler") /\ Decoupler!Take
    /\ clk' = 1 - clk /\ UNCHANGED <<unit, decouplerLacks>>

(* The clock runs, and the sink of the decoupler is ready again and again; *)
(* neither makes a reset come or go.                                       *)
Spec == Init /\ [][Next]_vars /\ WF_vars(RvhTick) /\ WF_vars(DecouplerTake)
--------------------------------------------------------------------------------
(* The invariant of each unit: counts, addresses, flags and contents agree. *)
IInv ==
    /\ \A u \in Of("one") : unit = u => One(u)!IInv
    /\ \A u \in Of("two") : unit = u => Two(u)!IInv
    /\ \A u \in Of("shiftreg") : unit = u => Shiftreg(u)!IInv
    /\ \A u \in Of("counter") : unit = u => Counter(u)!CntInv
    /\ \A u \in Of("ram") : unit = u => Ram(u)!IInv
    /\ \A u \in Of("rvh") : unit = u => Rvh(u)!IInv
    /\ unit \in Of("decoupler") => Decoupler!IInv

(* A word the user of the memory FIFO sees is the oldest one. *)
HeadReady == \A u \in Of("ram") : unit = u => Ram(u)!HeadReady

(* Whatever the parameters select, the user of dlsc_fifo sees one and the  *)
(* same queue: at every edge it does what the user's push and pop ask of   *)
(* it, both at once included, with the flags that belong to it.            *)
FifoStep ==
    /\ \A u \in Of("one") : unit = u => One(u)!FifoEdge
    /\ \A u \in Of("two") : unit = u => Two(u)!FifoEdge
    /\ \A u \in Of("shiftreg") : unit = u => Shiftreg(u)!FifoEdge
    /\ \A u \in Of("counter") : unit = u => Counter(u)!TokensEdge
    /\ \A u \in Of("ram") : unit = u => Ram(u)!FifoEdge
FifoInit ==
    /\ \A u \in Of("one") : unit = u => One(u)!Fifo!Init
    /\ \A u \in Of("two") : unit = u => Two(u)!Fifo!Init
    /\ \A u \in Of("shiftreg") : unit = u => Shiftreg(u)!Fifo!Init
    /\ \A u \in Of("counter") : unit = u => Counter(u)!Tokens!Init
    /\ \A u \in Of("ram") : unit = u => Ram(u)!Fifo!Init
ImplementsFifo == FifoInit /\ [][FifoStep]_vars

(* The ready/valid queues pass every word once and in order: at every edge *)
(* the words that cross are those of the handshakes on the two sides, and  *)
(* a word that waits stays.                                                *)
ChannelStep ==
    /\ \A u \in Of("rvh") : unit = u => Rvh(u)!ChannelEdge
    /\ unit \in Of("decoupler") => Decoupler!ChannelEdge
ChannelInit ==
    /\ \A u \in Of("rvh") : unit = u => Rvh(u)!Chan!Init
    /\ unit \in Of("decoupler") => Decoupler!Chan!Init
ImplementsChannel == ChannelInit /\ [][ChannelStep]_vars

(* A word in the FIFO is offered to the reader: the pessimistic flag does  *)
(* not hide it for good.                                                   *)
WordHidden == \E u \in Of("rvh") : unit = u /\ Rvh(u)!Hidden
WordOffered == \E u \in Of("rvh") : unit = u /\ (Rvh(u)!rd_valid \/ rst)
WordsAreOffered == WordHidden ~> WordOffered

(* With a sink that keeps taking, the source is always let in again. *)
SourceNotStarved == []<>(unit \in Of("decoupler") => in_ready \/ rst)

(* Neither end of a ready/valid queue waits for the other for ever.        *)
NothingStuck == WordsAreOffered /\ SourceNotStarved
================================================================================
