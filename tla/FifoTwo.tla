-------------------------------- MODULE FifoTwo --------------------------------
(***************************************************************************)
(* dlsc_fifo_two (mem/rtl): a FIFO of two registers.  Words leave from     *)
(* out_data; buf_data holds a second one behind it.                        *)
(***************************************************************************)
EXTENDS Naturals, Sequences

CONSTANTS Data, None, ALMOST_FULL, ALMOST_EMPTY, FULL_IN_RESET

FifoTwoAssumption ==
    /\ None \notin Data
    /\ ALMOST_FULL \in 0..1 /\ ALMOST_EMPTY \in 0..1
    /\ FULL_IN_RESET \in BOOLEAN

VARIABLES
    buf_valid, buf_data,
    out_valid, out_data,    (* out_data is rd_data *)
    wr_full, wr_almost_full, wr_free,
    rd_empty, rd_almost_empty, rd_count

flags == <<wr_full, wr_almost_full, wr_free, rd_empty, rd_almost_empty, rd_count>>
vars == <<buf_valid, buf_data, out_valid, out_data, flags>>

(* A pushed word goes to the output if nothing is left there. *)
ToOut(pop) == ~out_valid \/ (pop /\ ~buf_valid)

(* These have no reset. *)
DataRegisters(push, d, pop) ==
    /\ out_data' = IF push /\ ToOut(pop) THEN d
                   ELSE IF pop /\ buf_valid THEN buf_data ELSE out_data
    /\ buf_data' = IF push /\ ~ToOut(pop) THEN d ELSE buf_data

NextOutValid(push, pop) == push \/ (IF pop THEN buf_valid ELSE out_valid)
NextBufValid(push, pop) == (buf_valid /\ ~pop) \/ (push /\ ~ToOut(pop))

(* The flags of the state that {next_buf_valid,next_out_valid} encodes;    *)
(* 2'b10 is declared unreachable and leaves them alone.                    *)
Flags(buf, out) ==
    LET n == (IF buf THEN 1 ELSE 0) + (IF out THEN 1 ELSE 0)
    IN  IF buf /\ ~out THEN UNCHANGED flags
        ELSE /\ wr_full' = (n = 2)
             /\ wr_almost_full' = (n + ALMOST_FULL >= 2)
             /\ wr_free' = 2 - n
             /\ rd_empty' = (n = 0)
             /\ rd_almost_empty' = (n <= ALMOST_EMPTY)
             /\ rd_count' = n

Reset ==
    /\ buf_valid' = FALSE /\ out_valid' = FALSE
    /\ wr_full' = FULL_IN_RESET /\ wr_almost_full' = FULL_IN_RESET
    /\ wr_free' = 2
    /\ rd_empty' = TRUE /\ rd_almost_empty' = TRUE
    /\ rd_count' = 0

(* What the assertions of dlsc_fifo ask of the user. *)
Legal(push, pop) ==
    /\ push /\ ~pop => ~wr_full
    /\ pop => ~rd_empty

Running(push, pop) ==
    /\ Legal(push, pop)
    /\ buf_valid' = NextBufValid(push, pop)
    /\ out_valid' = NextOutValid(push, pop)
    /\ Flags(buf_valid', out_valid')

Clk(push, d, pop) ==
    /\ Reset \/ Running(push, pop)
    /\ DataRegisters(push, d, pop)

Init ==
    /\ buf_valid = FALSE /\ buf_data = None
    /\ out_valid = FALSE /\ out_data = None
    /\ wr_full = FULL_IN_RESET /\ wr_almost_full = FULL_IN_RESET /\ wr_free = 2
    /\ rd_empty = TRUE /\ rd_almost_empty = TRUE /\ rd_count = 0

Next == \E push, pop \in BOOLEAN, d \in Data : Clk(push, d, pop)

Spec == Init /\ [][Next]_vars
--------------------------------------------------------------------------------
Contents ==
    IF ~out_valid THEN <<>> ELSE IF ~buf_valid THEN <<out_data>> ELSE <<out_data, buf_data>>

(* The state with a buffered word and none at the output, which the code   *)
(* declares unreachable, is; counts and flags tell the contents.           *)
IInv ==
    /\ out_valid \in BOOLEAN /\ buf_valid \in BOOLEAN
    /\ out_data \in Data \cup {None} /\ buf_data \in Data \cup {None}
    /\ buf_valid => out_valid
    /\ out_valid => out_data \in Data
    /\ buf_valid => buf_data \in Data
    /\ wr_full \in BOOLEAN
    /\ buf_valid => wr_full
    /\ ~buf_valid => wr_free = (IF out_valid THEN 1 ELSE 2)
    /\ buf_valid => wr_free = 0
    /\ rd_empty = ~out_valid
    /\ rd_count = 2 - wr_free

Fifo == INSTANCE SyncFifo WITH q <- Contents, DEPTH <- 2, FAST_FLAGS <- TRUE

(* What the user pushes and pops at an edge, the queue every dlsc_fifo     *)
(* promises pushes and pops; in reset it becomes empty.                    *)
FifoEdge ==
    /\ Reset => Fifo!Reset
    /\ \A push, pop \in BOOLEAN, d \in Data :
          Clk(push, d, pop) /\ Running(push, pop) => Fifo!Clk(push, d, pop)
================================================================================
