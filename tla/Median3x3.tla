------------------------------- MODULE Median3x3 -------------------------------
(***************************************************************************)
(* dlsc_median_3x3 (pixel/rtl): the median of the 3x3 pixels around each   *)
(* position of an image, one column of three pixels per cycle.  A column   *)
(* is sorted; a window keeps the last three sorted columns; the median of  *)
(* the nine is the median of the greatest minimum, the least maximum and   *)
(* the median of the medians.  The three are computed on paths of unequal  *)
(* work and must meet in the same cycle, while columns come with gaps.     *)
(*                                                                         *)
(* Pixels are 0 and 1: the filter only compares and moves its pixels, so   *)
(* it is right for all values if it is right for these.                    *)
(***************************************************************************)
EXTENDS Naturals, Sequences, FiniteSets

CONSTANTS
    COLUMNS,    (* how many columns come *)
    GAP         (* bound on the idle cycles before each of them *)

Pixel == {0, 1}
Column == Pixel \X Pixel \X Pixel
DELAY == 11     \* from input to output

VARIABLES
    c1, c2, c3,         (* the column sorter *)
    win,                (* a/b/c, f/g/h, k/l/m of stage 4, oldest first *)
    c5, c6, c7,         (* maxmin, medmed, minmax on their way *)
    c8, c9, c10,        (* the last sorter *)
    out_data,
    valid,              (* in_valid at the last DELAY edges, latest first *)
    cols,               (* the columns that came *)
    idle,               (* idle cycles since the last one *)
    outs                (* how many outputs there were *)

pipe == <<c1, c2, c3, win, c5, c6, c7, c8, c9, c10, out_data, valid>>
vars == <<pipe, cols, idle, outs>>

Lo(x, y) == IF x <= y THEN x ELSE y
Hi(x, y) == IF x <= y THEN y ELSE x

(* dlsc_median_3x3_slice, its three stages. *)
Slice1(t) == <<Lo(t[1], t[2]), Hi(t[1], t[2]), t[3]>>
Slice2(t) == <<t[1], Lo(t[2], t[3]), Hi(t[2], t[3])>>
Slice3(t) == <<Lo(t[1], t[2]), Hi(t[1], t[2]), t[3]>>

(* The window moves when a column came out of the sorter. *)
Window(w, en, col) == IF en THEN <<w[2], w[3], col>> ELSE w

Stage5(w) ==
    [maxmin |-> Hi(w[1][1], w[2][1]), k |-> w[3][1],
     minmax |-> Lo(w[2][3], w[3][3]), c |-> w[1][3],
     med |-> Slice1(<<w[1][2], w[2][2], w[3][2]>>)]

(* The two comparisons of this stage take a second cycle to their output.  *)
Stage6(s) ==
    [maxmin |-> Hi(s.maxmin, s.k), minmax |-> Lo(s.c, s.minmax), med |-> Slice2(s.med)]

(* Mutant of Stage7: the path of the least maximum is a cycle too short.   *)
Stage7Short(s) == <<s.maxmin, Slice3(s.med)[2], Lo(c5.c, c5.minmax)>>

Stage7(s) == <<s.maxmin, Slice3(s.med)[2], s.minmax>>

(* One edge of clk; v is in_valid, col what is on in_data, valid or not.   *)
(* The model stops with the last output.                                   *)
Clk(v, col) ==
    /\ outs < COLUMNS
    /\ c1' = Slice1(col) /\ c2' = Slice2(c1) /\ c3' = Slice3(c2)
    /\ win' = Window(win, valid[3], c3)
    /\ c5' = Stage5(win) /\ c6' = Stage6(c5) /\ c7' = Stage7(c6)
    /\ c8' = Slice1(c7) /\ c9' = Slice2(c8) /\ c10' = Slice3(c9)
    /\ out_data' = c10[2]
    /\ valid' = <<v>> \o SubSeq(valid, 1, DELAY - 1)
    /\ outs' = outs + (IF valid'[DELAY] THEN 1 ELSE 0)

Feed ==
    /\ Len(cols) < COLUMNS
    /\ \E col \in Column : Clk(TRUE, col) /\ cols' = Append(cols, col)
    /\ idle' = 0

(* What in_data carries between the columns is noise; of all there is, the *)
(* two extremes are tried (a bound: every other column lies between them). *)
Noise == {<<0, 0, 0>>, <<1, 1, 1>>}

(* No column in this cycle. *)
Idle ==
    /\ Len(cols) = COLUMNS \/ idle < GAP
    /\ \E col \in Noise : Clk(FALSE, col)
    /\ idle' = IF Len(cols) = COLUMNS THEN 0 ELSE idle + 1
    /\ UNCHANGED cols

None3 == <<0, 0, 0>>

(* After reset, which clears the valid bits; the data has none. *)
Init ==
    /\ c1 = None3 /\ c2 = None3 /\ c3 = None3
    /\ win = <<None3, None3, None3>>
    /\ c5 = [maxmin |-> 0, k |-> 0, minmax |-> 0, c |-> 0, med |-> None3]
    /\ c6 = [maxmin |-> 0, minmax |-> 0, med |-> None3]
    /\ c7 = None3 /\ c8 = None3 /\ c9 = None3 /\ c10 = None3
    /\ out_data = 0
    /\ valid = [i \in 1..DELAY |-> FALSE]
    /\ cols = <<>> /\ idle = 0 /\ outs = 0

Next == Feed \/ Idle

Spec == Init /\ [][Next]_vars
--------------------------------------------------------------------------------
TypeOK ==
    /\ {c1, c2, c3, c7, c8, c9, c10} \subseteq Column
    /\ win \in Column \X Column \X Column
    /\ out_data \in Pixel
    /\ valid \in [1..DELAY -> BOOLEAN]
    /\ Len(cols) <= COLUMNS /\ outs <= Len(cols) /\ idle \in 0..GAP

(* The median of nine: 1 if at least five of them are. *)
Median(n) ==
    LET ones == {p \in (n-2..n) \X (1..3) : cols[p[1]][p[2]] = 1}
    IN  IF Cardinality(ones) >= 5 THEN 1 ELSE 0

(* The output that goes with the n-th column (n > 2) is the median of the  *)
(* nine pixels of that column and the two before it, wherever the gaps     *)
(* between the columns are and whatever the data lines carry in them.      *)
OutputIsMedian == valid[DELAY] /\ outs > 2 => out_data = Median(outs)
================================================================================
