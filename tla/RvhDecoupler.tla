----------------------------- MODULE RvhDecoupler -----------------------------
(***************************************************************************)
(* dlsc_rvh_decoupler (rvh/rtl): a two-word register slice between two     *)
(* ready/valid interfaces, all of whose outputs are registers.  Because    *)
(* in_ready is registered, a word may still arrive in the cycle in which   *)
(* the sink stops; it is kept in data, behind out_data.                    *)
(***************************************************************************)
EXTENDS Naturals, Sequences

CONSTANTS Word, None

RvhDecouplerAssumption == None \notin Word

VARIABLES
    rst,                    (* the reset at the last edge *)
    in_ready, rst_done,
    out_valid, out_data,
    data                    (* the second word, when in_ready is low *)

vars == <<rst, in_ready, rst_done, out_valid, out_data, data>>

Reset ==
    /\ rst' = TRUE
    /\ in_ready' = FALSE /\ rst_done' = FALSE
    /\ out_valid' = FALSE /\ out_data' = None /\ data' = None

(* Mutant of Free: a new word goes to the output although the sink stalls. *)
FreeAlways(out_en, out_ready) == TRUE

(* The output can take a new word. *)
Free(out_en, out_ready) == ~out_valid \/ (out_en /\ out_ready)

(* Of an edge out of reset: take, the sink is enabled and ready and there  *)
(* is a word for it; give, the source is enabled and offers a word while   *)
(* in_ready is high; free, the output can take a new word.                 *)

OutDataNext(take, give, free, d) ==
    IF give /\ free THEN d
    ELSE IF take /\ ~in_ready THEN data ELSE out_data

OutValidNext(take, give, free) == (give /\ free) \/ (out_valid /\ (take => ~in_ready))

InReadyNext(take, give, free) ==
    ~rst_done \/ (take /\ ~in_ready) \/ (in_ready /\ (give => free))

Running(in_en, in_valid, d, out_en, out_ready) ==
    LET take == out_en /\ out_ready /\ out_valid
        give == in_en /\ in_valid /\ in_ready
        free == Free(out_en, out_ready)
    IN  /\ rst' = FALSE /\ rst_done' = TRUE
        /\ out_data' = OutDataNext(take, give, free, d)
        /\ out_valid' = OutValidNext(take, give, free)
        /\ data' = IF give /\ ~free THEN d ELSE data
        /\ in_ready' = InReadyNext(take, give, free)

Init ==
    /\ rst = TRUE
    /\ in_ready = FALSE /\ rst_done = FALSE
    /\ out_valid = FALSE /\ out_data = None /\ data = None

Clk ==
    \/ Reset
    \/ \E in_en, in_valid, out_en, out_ready \in BOOLEAN, d \in Word :
          Running(in_en, in_valid, d, out_en, out_ready)

(* The sink takes a word. *)
Take ==
    /\ out_valid
    /\ \E in_en, in_valid \in BOOLEAN, d \in Word : Running(in_en, in_valid, d, TRUE, TRUE)

Spec == Init /\ [][Clk]_vars

(* While there is a word the sink is ready again and again. *)
FairSpec == Spec /\ WF_vars(Take)
--------------------------------------------------------------------------------
(* The second word is there exactly when the source is held off; it is     *)
(* never overwritten, and never stands alone.                              *)
IInv ==
    /\ rst \in BOOLEAN /\ in_ready \in BOOLEAN /\ rst_done \in BOOLEAN /\ out_valid \in BOOLEAN
    /\ out_data \in Word \cup {None} /\ data \in Word \cup {None}
    /\ rst_done = ~rst
    /\ rst => ~in_ready /\ ~out_valid
    /\ out_valid => out_data \in Word
    /\ ~rst /\ ~in_ready => out_valid /\ data \in Word

Contents ==
    IF ~out_valid THEN <<>> ELSE IF in_ready THEN <<out_data>> ELSE <<out_data, data>>

Chan == INSTANCE Channel WITH Item <- Word, Capacity <- 2, q <- Contents, up <- ~rst

(* A word the source hands over is queued behind those that wait, none is  *)
(* lost when the sink stops, and a word leaves when the sink takes it and  *)
(* only then.                                                              *)
ChannelEdge ==
    /\ Reset => Chan!Down
    /\ \A in_en, in_valid, out_en, out_ready \in BOOLEAN, d \in Word :
          Running(in_en, in_valid, d, out_en, out_ready) =>
             /\ Chan!Edge(in_en /\ in_valid /\ in_ready, d, out_en /\ out_ready /\ out_valid)
             /\ rst => Chan!Up

(* With a sink that keeps taking, the source is always let in again. *)
SourceNotStarved == []<>(in_ready \/ rst)
================================================================================
