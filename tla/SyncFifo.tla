------------------------------ MODULE SyncFifo ------------------------------
(***************************************************************************)
(* dlsc_fifo (mem/rtl): what every synchronous FIFO of the library promises *)
(* its user, whichever implementation the parameters select (dlsc_fifo_one, *)
(* dlsc_fifo_two, dlsc_fifo_shiftreg or dlsc_fifo_ram).  It is the reference *)
(* model of dlsc_fifo_tb (mem/tb/dlsc_fifo_tb.sp, fifo_method) as a          *)
(* specification: a queue and the flags that go with it after each edge,    *)
(* at which the user pushes (or not) a word d and pops (or not).            *)
(***************************************************************************)
EXTENDS Naturals, Sequences

CONSTANTS
    DEPTH,
    ALMOST_FULL,    (* wr_almost_full when so many spaces or fewer remain *)
    ALMOST_EMPTY,   (* rd_almost_empty when so many words or fewer remain *)
    FAST_FLAGS,     (* the empty flag may not be pessimistic *)
    FULL_IN_RESET   (* the full flags are set in reset *)

VARIABLES q, wr_full, wr_almost_full, rd_empty, rd_almost_empty

(* What the assertions of dlsc_fifo ask of the user: no overflow, although *)
(* a full FIFO takes a word in the cycle it gives one; no underflow.       *)
Legal(push, pop) ==
    /\ push /\ ~pop => ~wr_full
    /\ pop => ~rd_empty

Reset ==
    /\ q' = <<>>
    /\ wr_full' = FULL_IN_RESET /\ wr_almost_full' = FULL_IN_RESET
    /\ rd_empty' = TRUE /\ rd_almost_empty' = TRUE

(* Only the word that came alone in this cycle may still be hidden. *)
Flags(push) ==
    /\ wr_full' = (Len(q') = DEPTH)
    /\ wr_almost_full' = (Len(q') >= DEPTH - ALMOST_FULL)
    /\ rd_empty' \in BOOLEAN
    /\ Len(q') = 0 => rd_empty'
    /\ FAST_FLAGS \/ Len(q') > 1 \/ ~push => rd_empty' = (Len(q') = 0)
    /\ rd_almost_empty' = (rd_empty' \/ Len(q') <= ALMOST_EMPTY)

Clk(push, d, pop) ==
    LET rest == IF pop THEN Tail(q) ELSE q
    IN  /\ Legal(push, pop)
        /\ q' = IF push THEN Append(rest, d) ELSE rest
        /\ Flags(push)

Init ==
    /\ q = <<>>
    /\ wr_full = FULL_IN_RESET /\ wr_almost_full = FULL_IN_RESET
    /\ rd_empty = TRUE /\ rd_almost_empty = TRUE
================================================================================
