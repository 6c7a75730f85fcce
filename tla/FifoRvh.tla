-------------------------------- MODULE FifoRvh --------------------------------
(***************************************************************************)
(* dlsc_fifo_rvh (mem/rtl): a dlsc_fifo with ready/valid handshakes on     *)
(* both sides, and behind it a register from which words leave.  The FIFO  *)
(* inside is any that keeps the promise of SyncFifo, so what is checked    *)
(* here holds for each implementation dlsc_fifo selects.                   *)
(*                                                                         *)
(* dlsc_fifo_rvho is the same module with the conventional input: its user *)
(* pushes when it is not full, as the gate of wr_push does here.           *)
(***************************************************************************)
EXTENDS Naturals, Sequences

CONSTANTS Data, None, DEPTH, ALMOST_FULL, ALMOST_EMPTY, FAST_FLAGS

FULL_IN_RESET == TRUE

FifoRvhAssumption ==
    /\ None \notin Data
    /\ DEPTH \in Nat \ {0}
    /\ FAST_FLAGS \in BOOLEAN

VARIABLES
    rst,    (* the reset at the last edge *)
    q, wr_full, wr_almost_full, rd_empty, rd_almost_empty,  \* the FIFO
    valid, data                                             \* the register

fifo == <<q, wr_full, wr_almost_full, rd_empty, rd_almost_empty>>
vars == <<rst, fifo, valid, data>>

Fifo == INSTANCE SyncFifo

wr_ready == ~wr_full
rd_valid == valid

(* The register is refilled when it is empty or gives its word away. *)
Pop(rd_ready) == ~rd_empty /\ (~valid \/ rd_ready)

Reset ==
    /\ rst' = TRUE
    /\ Fifo!Reset
    /\ valid' = FALSE

(* Mutant of ValidNext: only a reader that is ready fills the register. *)
ValidNextNever(wr_valid, rd_ready) == valid /\ ~rd_ready

ValidNext(wr_valid, rd_ready) == Pop(rd_ready) \/ (valid /\ ~rd_ready)

Running(wr_valid, d, rd_ready) ==
    /\ rst' = FALSE
    /\ Fifo!Clk(wr_ready /\ wr_valid, d, Pop(rd_ready))
    /\ valid' = ValidNext(wr_valid, rd_ready)

(* The word in the register has no reset.  rd_data of the FIFO is the head *)
(* of the queue.                                                           *)
Clk(wr_valid, d, rd_ready) ==
    /\ Reset \/ Running(wr_valid, d, rd_ready)
    /\ data' = IF Pop(rd_ready) THEN Head(q) ELSE data

Init ==
    /\ rst = TRUE
    /\ Fifo!Init
    /\ valid = FALSE /\ data = None

Next == \E wr_valid, rd_ready \in BOOLEAN, d \in Data : Clk(wr_valid, d, rd_ready)

(* An edge out of reset. *)
Tick ==
    /\ ~rst
    /\ \E wr_valid, rd_ready \in BOOLEAN, d \in Data : Clk(wr_valid, d, rd_ready)
    /\ ~rst'

(* The clock runs, in reset or out of it. *)
Spec == Init /\ [][Next]_vars /\ WF_vars(Tick)
--------------------------------------------------------------------------------
(* A valid word is one that was pushed; the full flag tells the state of   *)
(* the queue, the empty flag never denies that there are no words, and in  *)
(* reset nothing is taken and nothing offered.                             *)
IInv ==
    /\ rst \in BOOLEAN
    /\ valid \in BOOLEAN /\ data \in Data \cup {None}
    /\ valid => data \in Data
    /\ q \in Seq(Data) /\ Len(q) <= DEPTH
    /\ rd_empty \in BOOLEAN
    /\ q = <<>> => rd_empty
    /\ wr_full = (rst \/ Len(q) = DEPTH)
    /\ rst => q = <<>> /\ ~valid

Contents == IF valid THEN <<data>> \o q ELSE q

Chan == INSTANCE Channel WITH
    Item <- Data, Capacity <- DEPTH + 1, q <- Contents, up <- ~rst

(* Register and FIFO together are one queue: a handshake on the writer's   *)
(* side puts its word at the end, one on the reader's takes the first,     *)
(* both may happen at one edge, and without a handshake nothing moves.     *)
(* The first edge out of reset only lets the writer in.                    *)
ChannelEdge ==
    /\ Reset => Chan!Down
    /\ \A wr_valid, rd_ready \in BOOLEAN, d \in Data :
          Clk(wr_valid, d, rd_ready) /\ Running(wr_valid, d, rd_ready) =>
             /\ Chan!Edge(wr_ready /\ wr_valid, d, rd_valid /\ rd_ready)
             /\ rst => Chan!Up

(* A word in the FIFO is offered to the reader after a bounded wait: the   *)
(* pessimistic flag does not hide it for good.                             *)
Hidden == q # <<>> /\ ~rst
WordsAreOffered == Hidden ~> (rd_valid \/ rst)
================================================================================
