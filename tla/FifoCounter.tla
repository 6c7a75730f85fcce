------------------------------ MODULE FifoCounter ------------------------------
(***************************************************************************)
(* dlsc_fifo_counter (mem/rtl): the counts and flags of a FIFO without its *)
(* memory.  dlsc_fifo_ram is built around it; elsewhere it is used alone,  *)
(* as a FIFO of indistinguishable tokens (credits, outstanding commands).  *)
(***************************************************************************)
EXTENDS Integers, Sequences

CONSTANTS DEPTH, ALMOST_FULL, ALMOST_EMPTY, FAST_FLAGS, FULL_IN_RESET

FifoCounterAssumption ==
    /\ DEPTH \in Nat \ {0}
    /\ ALMOST_FULL \in 0..DEPTH-1 /\ ALMOST_EMPTY \in 0..DEPTH-1
    /\ FAST_FLAGS \in BOOLEAN /\ FULL_IN_RESET \in BOOLEAN

VARIABLES cnt, free, rd_empty, almost_empty, wr_full, almost_full, rst_done

cntVars == <<cnt, free, rd_empty, almost_empty, wr_full, almost_full, rst_done>>

rd_almost_empty == IF ALMOST_EMPTY = 0 THEN rd_empty ELSE almost_empty
wr_almost_full  == IF ALMOST_FULL = 0 THEN wr_full ELSE almost_full

CntReset ==
    /\ cnt' = 0 /\ free' = DEPTH
    /\ rd_empty' = TRUE /\ almost_empty' = TRUE
    /\ wr_full' = FULL_IN_RESET /\ almost_full' = FULL_IN_RESET
    /\ rst_done' = ~FULL_IN_RESET

(* What the assertions of dlsc_fifo ask of the user. *)
Legal(push, pop) ==
    /\ push /\ ~pop => ~wr_full
    /\ pop => ~rd_empty

(* Mutant of EmptyNext: with one word left the slow flag follows the count. *)
EmptyNextEven(push, pop) ==
    IF FAST_FLAGS THEN IF push = pop THEN rd_empty ELSE pop /\ cnt = 1
    ELSE IF cnt = 1 THEN pop /\ ~push ELSE rd_empty

(* The slow flag is about a memory that cannot show a word in the cycle it *)
(* is written: a word that comes alone is announced one cycle later, also  *)
(* when it comes as the last one leaves.                                   *)
EmptyNext(push, pop) ==
    IF FAST_FLAGS THEN IF push = pop THEN rd_empty ELSE pop /\ cnt = 1
    ELSE IF cnt = 1 THEN pop ELSE rd_empty

(* The flags a push alone leaves. *)
Inc ==
    /\ cnt' = cnt + 1 /\ free' = free - 1
    /\ wr_full' = (rst_done /\ cnt = DEPTH - 1)
    /\ almost_empty' = (almost_empty /\ cnt # ALMOST_EMPTY)
    /\ almost_full' = (rst_done /\ (almost_full \/ cnt = DEPTH - ALMOST_FULL - 1))

(* The flags a pop alone leaves. *)
Dec ==
    /\ cnt' = cnt - 1 /\ free' = free + 1
    /\ wr_full' = FALSE
    /\ almost_empty' = (almost_empty \/ cnt = ALMOST_EMPTY + 1)
    /\ almost_full' = (rst_done /\ almost_full /\ cnt # DEPTH - ALMOST_FULL)

(* Neither, or both at once. *)
Even ==
    /\ UNCHANGED <<cnt, free, almost_empty>>
    /\ wr_full' = (rst_done /\ wr_full)
    /\ almost_full' = (rst_done /\ almost_full)

CntRunning(push, pop) ==
    /\ Legal(push, pop)
    /\ \/ push /\ ~pop /\ Inc
       \/ ~push /\ pop /\ Dec
       \/ push = pop /\ Even
    /\ rd_empty' = EmptyNext(push, pop)
    /\ rst_done' = TRUE

CntInit ==
    /\ cnt = 0 /\ free = DEPTH
    /\ rd_empty = TRUE /\ almost_empty = TRUE
    /\ wr_full = FULL_IN_RESET /\ almost_full = FULL_IN_RESET
    /\ rst_done = ~FULL_IN_RESET

CntNext == CntReset \/ \E push, pop \in BOOLEAN : CntRunning(push, pop)

CntSpec == CntInit /\ [][CntNext]_cntVars
--------------------------------------------------------------------------------
(* Counts and flags agree; only a single word may be hidden from the reader. *)
CntInv ==
    /\ cnt \in 0..DEPTH
    /\ free = DEPTH - cnt
    /\ rd_empty \in BOOLEAN /\ almost_empty \in BOOLEAN
    /\ wr_full \in BOOLEAN /\ almost_full \in BOOLEAN /\ rst_done \in BOOLEAN
    /\ cnt = 0 => rd_empty
    /\ rd_empty => cnt = 0 \/ (~FAST_FLAGS /\ cnt = 1)
    /\ almost_empty = (cnt <= ALMOST_EMPTY)
    /\ wr_full = (~rst_done \/ cnt = DEPTH)
    /\ almost_full = (~rst_done \/ cnt >= DEPTH - ALMOST_FULL)
    /\ ~rst_done => cnt = 0

Tokens == INSTANCE SyncFifo WITH q <- [i \in 1..cnt |-> 0]

(* What the user counts up and down at an edge, the queue every dlsc_fifo  *)
(* promises pushes and pops, of tokens; in reset it becomes empty.         *)
TokensEdge ==
    /\ CntReset => Tokens!Reset
    /\ \A push, pop \in BOOLEAN : CntRunning(push, pop) => Tokens!Clk(push, 0, pop)
================================================================================
