-------------------------------- MODULE FifoRam --------------------------------
(***************************************************************************)
(* dlsc_fifo_ram (mem/rtl): dlsc_fifo_counter around a memory of DEPTH =   *)
(* 2^ADDR words.  With FAST_FLAGS the memory is read asynchronously;       *)
(* without, through a register (LUT RAM or dlsc_ram_dp), and a read of the *)
(* cell that is being written may return anything.                         *)
(***************************************************************************)
EXTENDS FifoCounter

CONSTANTS Data, None

FifoRamAssumption == None \notin Data

VARIABLES
    mem,
    wr_addr, rd_addr,
    mem_rd_data     (* the read register; unused with FAST_FLAGS *)

vars == <<cntVars, mem, wr_addr, rd_addr, mem_rd_data>>

Cells == 0..DEPTH-1
Succ(a) == IF a = DEPTH - 1 THEN 0 ELSE a + 1

(* rd_addr_p1 is always Succ(rd_addr). *)
RdAddrNext(pop) == IF pop THEN Succ(rd_addr) ELSE rd_addr

RdEn(pop) == pop \/ (rd_empty /\ cnt = 1)

(* The memory and its read register have no reset. *)
Memory(push, d, pop) ==
    /\ mem' = IF push THEN [mem EXCEPT ![wr_addr] = d] ELSE mem
    /\ IF FAST_FLAGS \/ ~RdEn(pop) THEN UNCHANGED mem_rd_data
       ELSE IF push /\ wr_addr = RdAddrNext(pop) THEN mem_rd_data' \in Data \cup {None}
       ELSE mem_rd_data' = mem[RdAddrNext(pop)]

Reset ==
    /\ CntReset
    /\ wr_addr' = 0 /\ rd_addr' = 0

Running(push, pop) ==
    /\ CntRunning(push, pop)
    /\ wr_addr' = IF push THEN Succ(wr_addr) ELSE wr_addr
    /\ rd_addr' = RdAddrNext(pop)

Clk(push, d, pop) ==
    /\ Reset \/ Running(push, pop)
    /\ Memory(push, d, pop)

Init ==
    /\ CntInit
    /\ mem = [c \in Cells |-> None]
    /\ wr_addr = 0 /\ rd_addr = 0
    /\ mem_rd_data = None

Next == \E push, pop \in BOOLEAN, d \in Data : Clk(push, d, pop)

Spec == Init /\ [][Next]_vars
--------------------------------------------------------------------------------
rd_data == IF FAST_FLAGS THEN mem[rd_addr] ELSE mem_rd_data

CellAt(k) == IF rd_addr + k < DEPTH THEN rd_addr + k ELSE rd_addr + k - DEPTH

Contents == [i \in 1..cnt |-> mem[CellAt(i - 1)]]

(* The addresses are cnt apart, the words between them were pushed, and    *)
(* when the user sees a word the read register holds it: the cycle in      *)
(* which the oldest word was written while being read has passed.          *)
IInv ==
    /\ CntInv
    /\ mem \in [Cells -> Data \cup {None}]
    /\ mem_rd_data \in Data \cup {None}
    /\ wr_addr \in Cells /\ rd_addr \in Cells
    /\ wr_addr = (IF cnt = DEPTH THEN rd_addr ELSE CellAt(cnt))
    /\ \A k \in 0..cnt-1 : mem[CellAt(k)] \in Data
    /\ ~FAST_FLAGS /\ ~rd_empty => mem_rd_data = mem[rd_addr]

(* A word the user sees is the oldest one. *)
HeadReady == ~rd_empty => rd_data = Contents[1]

Fifo == INSTANCE SyncFifo WITH q <- Contents

(* What the user pushes and pops at an edge, the queue every dlsc_fifo     *)
(* promises pushes and pops; in reset it becomes empty.                    *)
FifoEdge ==
    /\ Reset => Fifo!Reset
    /\ \A push, pop \in BOOLEAN, d \in Data :
          Clk(push, d, pop) /\ Running(push, pop) => Fifo!Clk(push, d, pop)
================================================================================
