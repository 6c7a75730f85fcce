-------------------------------- MODULE FifoOne --------------------------------
(***************************************************************************)
(* dlsc_fifo_one (mem/rtl): a FIFO of one register.                        *)
(***************************************************************************)
EXTENDS Naturals, Sequences

CONSTANTS Data, None, FULL_IN_RESET

FifoOneAssumption == None \notin Data /\ FULL_IN_RESET \in BOOLEAN

VARIABLES rd_data, wr_full, rd_empty, rst_done

vars == <<rd_data, wr_full, rd_empty, rst_done>>

Reset ==
    /\ wr_full' = FULL_IN_RESET
    /\ rd_empty' = TRUE
    /\ rst_done' = ~FULL_IN_RESET

(* What the assertions of dlsc_fifo ask of the user. *)
Legal(push, pop) ==
    /\ push /\ ~pop => ~wr_full
    /\ pop => ~rd_empty

(* Mutant of Running: a pop has the last word over a push. *)
RunningPopWins(push, pop) ==
    /\ Legal(push, pop)
    /\ rd_empty' = (pop \/ (~push /\ rd_empty))
    /\ wr_full' = (rst_done /\ ~pop /\ (push \/ wr_full))
    /\ rst_done' = TRUE

(* A push has the last word over a pop, and the end of reset over both.    *)
Running(push, pop) ==
    /\ Legal(push, pop)
    /\ rd_empty' = (~push /\ (pop \/ rd_empty))
    /\ wr_full' = (rst_done /\ (push \/ (~pop /\ wr_full)))
    /\ rst_done' = TRUE

(* The word itself has no reset. *)
Clk(push, d, pop) ==
    /\ Reset \/ Running(push, pop)
    /\ rd_data' = IF push THEN d ELSE rd_data

Init ==
    /\ rd_data = None
    /\ wr_full = FULL_IN_RESET
    /\ rd_empty = TRUE
    /\ rst_done = ~FULL_IN_RESET

Next == \E push, pop \in BOOLEAN, d \in Data : Clk(push, d, pop)

Spec == Init /\ [][Next]_vars
--------------------------------------------------------------------------------
Contents == IF rd_empty THEN <<>> ELSE <<rd_data>>

(* Full and empty are complements once reset is over, and a word the user  *)
(* can see is one that was pushed.                                         *)
IInv ==
    /\ rd_data \in Data \cup {None}
    /\ wr_full \in BOOLEAN /\ rd_empty \in BOOLEAN /\ rst_done \in BOOLEAN
    /\ ~rd_empty => rd_data \in Data
    /\ wr_full = (~rst_done \/ ~rd_empty)
    /\ ~rst_done => rd_empty

Fifo == INSTANCE SyncFifo WITH
    q <- Contents, DEPTH <- 1, ALMOST_FULL <- 0, ALMOST_EMPTY <- 0,
    wr_almost_full <- wr_full, rd_almost_empty <- rd_empty, FAST_FLAGS <- TRUE

(* What the user pushes and pops at an edge, the queue every dlsc_fifo     *)
(* promises pushes and pops; in reset it becomes empty.                    *)
FifoEdge ==
    /\ Reset => Fifo!Reset
    /\ \A push, pop \in BOOLEAN, d \in Data :
          Clk(push, d, pop) /\ Running(push, pop) => Fifo!Clk(push, d, pop)
================================================================================
