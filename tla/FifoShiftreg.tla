----------------------------- MODULE FifoShiftreg -----------------------------
(***************************************************************************)
(* dlsc_fifo_shiftreg (mem/rtl) with its dlsc_shiftreg: a shallow FIFO.    *)
(* Every push shifts the memory; addr is the place of the oldest word and  *)
(* wraps to the highest address, -1, when the FIFO is empty.  When DEPTH   *)
(* is a power of two that is also the address of a full FIFO's head.       *)
(***************************************************************************)
EXTENDS Integers, Sequences

CONSTANTS
    Data, None,
    ADDR,           (* dlsc_clog2(DEPTH) *)
    DEPTH, ALMOST_FULL, ALMOST_EMPTY, FULL_IN_RESET

SIZE == 2^ADDR

FifoShiftregAssumption ==
    /\ None \notin Data
    /\ SIZE \in Nat /\ DEPTH \in 2..SIZE     \* a depth of one has its own FIFO
    /\ ALMOST_FULL \in 0..DEPTH-1 /\ ALMOST_EMPTY \in 0..DEPTH-1
    /\ FULL_IN_RESET \in BOOLEAN

VARIABLES
    mem,
    addr,
    wr_full, almost_full, rd_empty, almost_empty, rst_done

vars == <<mem, addr, wr_full, almost_full, rd_empty, almost_empty, rst_done>>

EMPTY == SIZE - 1           \* {ADDR{1'b1}}
Succ(a) == IF a = EMPTY THEN 0 ELSE a + 1
Pred(a) == IF a = 0 THEN EMPTY ELSE a - 1

rd_almost_empty == IF ALMOST_EMPTY = 0 THEN rd_empty ELSE almost_empty
wr_almost_full  == IF ALMOST_FULL = 0 THEN wr_full ELSE almost_full

Shift(push, d) ==
    mem' = IF push THEN [i \in 0..DEPTH-1 |-> IF i = 0 THEN d ELSE mem[i-1]] ELSE mem

Reset ==
    /\ addr' = EMPTY
    /\ rd_empty' = TRUE /\ almost_empty' = TRUE
    /\ wr_full' = FULL_IN_RESET /\ almost_full' = FULL_IN_RESET
    /\ rst_done' = ~FULL_IN_RESET

(* What the assertions of dlsc_fifo ask of the user. *)
Legal(push, pop) ==
    /\ push /\ ~pop => ~wr_full
    /\ pop => ~rd_empty

(* The flags a push alone leaves. *)
Inc ==
    /\ addr' = Succ(addr)
    /\ rd_empty' = FALSE
    /\ wr_full' = (rst_done /\ addr = DEPTH - 2)
    /\ almost_empty' =
         (almost_empty /\ ~(addr = ALMOST_EMPTY - 1 \/ ALMOST_EMPTY <= 0))
    /\ almost_full' = (rst_done /\
         (almost_full \/ addr = DEPTH - ALMOST_FULL - 2 \/ ALMOST_FULL + 1 >= DEPTH))

(* Mutant of Dec: a pop does not clear the full flag. *)
DecStaysFull ==
    /\ addr' = Pred(addr)
    /\ rd_empty' = (addr = 0)
    /\ wr_full' = (rst_done /\ wr_full)
    /\ almost_empty' = (almost_empty \/ addr = ALMOST_EMPTY)
    /\ almost_full' = (rst_done /\ almost_full /\ addr # DEPTH - ALMOST_FULL - 1)

(* The flags a pop alone leaves. *)
Dec ==
    /\ addr' = Pred(addr)
    /\ rd_empty' = (addr = 0)
    /\ wr_full' = FALSE
    /\ almost_empty' = (almost_empty \/ addr = ALMOST_EMPTY)
    /\ almost_full' = (rst_done /\ almost_full /\ addr # DEPTH - ALMOST_FULL - 1)

(* Neither, or both at once. *)
Even ==
    /\ UNCHANGED <<addr, rd_empty, almost_empty>>
    /\ wr_full' = (rst_done /\ wr_full)
    /\ almost_full' = (rst_done /\ almost_full)

Running(push, pop) ==
    /\ Legal(push, pop)
    /\ \/ push /\ ~pop /\ Inc
       \/ ~push /\ pop /\ Dec
       \/ push = pop /\ Even
    /\ rst_done' = TRUE

(* The memory has no reset. *)
Clk(push, d, pop) ==
    /\ Reset \/ Running(push, pop)
    /\ Shift(push, d)

Init ==
    /\ mem = [i \in 0..DEPTH-1 |-> None]
    /\ addr = EMPTY
    /\ rd_empty = TRUE /\ almost_empty = TRUE
    /\ wr_full = FULL_IN_RESET /\ almost_full = FULL_IN_RESET
    /\ rst_done = ~FULL_IN_RESET

Next == \E push, pop \in BOOLEAN, d \in Data : Clk(push, d, pop)

Spec == Init /\ [][Next]_vars
--------------------------------------------------------------------------------
Count == IF rd_empty THEN 0 ELSE addr + 1
Contents == [i \in 1..Count |-> mem[Count - i]]

(* Address, flags and contents agree: the one address that stands for both *)
(* "empty" and "full" is told apart by the flags, whatever the order in    *)
(* which pushes and pops brought the FIFO there.                           *)
IInv ==
    /\ mem \in [0..DEPTH-1 -> Data \cup {None}]
    /\ addr \in 0..SIZE-1
    /\ wr_full \in BOOLEAN /\ almost_full \in BOOLEAN
    /\ rd_empty \in BOOLEAN /\ almost_empty \in BOOLEAN /\ rst_done \in BOOLEAN
    /\ rd_empty => addr = EMPTY
    /\ ~rd_empty => addr \in 0..DEPTH-1 /\ \A i \in 0..addr : mem[i] \in Data
    /\ wr_full = (~rst_done \/ Count = DEPTH)
    /\ almost_empty = (Count <= ALMOST_EMPTY)
    /\ almost_full = (~rst_done \/ Count >= DEPTH - ALMOST_FULL)
    /\ ~rst_done => rd_empty

Fifo == INSTANCE SyncFifo WITH q <- Contents, FAST_FLAGS <- TRUE

(* What the user pushes and pops at an edge, the queue every dlsc_fifo     *)
(* promises pushes and pops; in reset it becomes empty.                    *)
FifoEdge ==
    /\ Reset => Fifo!Reset
    /\ \A push, pop \in BOOLEAN, d \in Data :
          Clk(push, d, pop) /\ Running(push, pop) => Fifo!Clk(push, d, pop)
================================================================================
