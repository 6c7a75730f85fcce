------------------------------- MODULE Sortnet -------------------------------
(***************************************************************************)
(* dlsc_sortnet (sortnet/rtl): a pipelined sorting network of up to 16     *)
(* lanes, generated by dlsc_sortnet_generate_module.pl.  A level consists  *)
(* of compare-exchange cells and of pass-throughs for the lanes it leaves  *)
(* alone; an identifier travels with the data of each lane.  The model     *)
(* follows one word through the pipeline, one step per level.              *)
(*                                                                         *)
(* A network that sorts every word of zeros and ones sorts every word, so  *)
(* Values of {0, 1} is enough to check sorting; ties are checked with it   *)
(* too.                                                                    *)
(***************************************************************************)
EXTENDS Naturals, Sequences

(* The comparators, level by level: NetN_k holds the pairs of lanes        *)
(* compared by level k of dlsc_sortnet_N; the lanes of a level that are in *)
(* no pair are its pass-throughs.                                          *)
Net2_1 == {<<0,1>>}

Net3_1 == {<<0,2>>}
Net3_2 == {<<0,1>>}
Net3_3 == {<<1,2>>}

Net4_1 == {<<0,2>>, <<1,3>>}
Net4_2 == {<<0,1>>, <<2,3>>}
Net4_3 == {<<1,2>>}

Net5_1 == {<<0,4>>, <<1,3>>}
Net5_2 == {<<0,2>>}
Net5_3 == {<<2,4>>, <<0,1>>}
Net5_4 == {<<2,3>>, <<1,4>>}
Net5_5 == {<<1,2>>, <<3,4>>}

Net6_1 == {<<0,4>>, <<1,5>>}
Net6_2 == {<<0,2>>, <<1,3>>}
Net6_3 == {<<2,4>>, <<3,5>>, <<0,1>>}
Net6_4 == {<<2,3>>, <<4,5>>}
Net6_5 == {<<1,4>>}
Net6_6 == {<<1,2>>, <<3,4>>}

Net7_1 == {<<0,4>>, <<1,5>>, <<2,6>>}
Net7_2 == {<<0,2>>, <<1,3>>, <<4,6>>}
Net7_3 == {<<2,4>>, <<3,5>>, <<0,1>>}
Net7_4 == {<<2,3>>, <<4,5>>}
Net7_5 == {<<1,4>>, <<3,6>>}
Net7_6 == {<<1,2>>, <<3,4>>, <<5,6>>}

Net8_1 == {<<0,4>>, <<1,5>>, <<2,6>>, <<3,7>>}
Net8_2 == {<<0,2>>, <<1,3>>, <<4,6>>, <<5,7>>}
Net8_3 == {<<2,4>>, <<3,5>>, <<0,1>>, <<6,7>>}
Net8_4 == {<<2,3>>, <<4,5>>}
Net8_5 == {<<1,4>>, <<3,6>>}
Net8_6 == {<<1,2>>, <<3,4>>, <<5,6>>}

Net9_1 == {<<0,8>>, <<1,5>>, <<2,6>>, <<3,7>>}
Net9_2 == {<<0,4>>, <<1,3>>, <<5,7>>}
Net9_3 == {<<4,8>>, <<0,2>>, <<3,5>>}
Net9_4 == {<<4,6>>, <<2,8>>, <<0,1>>}
Net9_5 == {<<2,4>>, <<6,8>>}
Net9_6 == {<<2,3>>, <<4,5>>, <<6,7>>, <<1,8>>}
Net9_7 == {<<1,4>>, <<3,6>>, <<5,8>>}
Net9_8 == {<<1,2>>, <<3,4>>, <<5,6>>, <<7,8>>}

Net10_1 == {<<0,8>>, <<1,9>>, <<2,6>>, <<3,7>>}
Net10_2 == {<<0,4>>, <<1,5>>}
Net10_3 == {<<4,8>>, <<5,9>>, <<0,2>>, <<1,3>>}
Net10_4 == {<<4,6>>, <<5,7>>, <<2,8>>, <<3,9>>, <<0,1>>}
Net10_5 == {<<2,4>>, <<3,5>>, <<6,8>>, <<7,9>>}
Net10_6 == {<<2,3>>, <<4,5>>, <<6,7>>, <<8,9>>}
Net10_7 == {<<1,8>>, <<3,6>>}
Net10_8 == {<<1,4>>, <<5,8>>}
Net10_9 == {<<1,2>>, <<3,4>>, <<5,6>>, <<7,8>>}

Net11_1 == {<<0,8>>, <<1,9>>, <<2,10>>, <<3,7>>}
Net11_2 == {<<0,4>>, <<1,5>>, <<2,6>>}
Net11_3 == {<<4,8>>, <<5,9>>, <<6,10>>, <<0,2>>, <<1,3>>}
Net11_4 == {<<4,6>>, <<5,7>>, <<8,10>>, <<3,9>>, <<0,1>>}
Net11_5 == {<<2,8>>, <<3,5>>, <<7,9>>}
Net11_6 == {<<2,4>>, <<6,8>>}
Net11_7 == {<<2,3>>, <<4,5>>, <<6,7>>, <<8,9>>}
Net11_8 == {<<1,8>>, <<3,10>>}
Net11_9 == {<<1,4>>, <<3,6>>, <<5,8>>, <<7,10>>}
Net11_10 == {<<1,2>>, <<3,4>>, <<5,6>>, <<7,8>>, <<9,10>>}

Net12_1 == {<<0,8>>, <<1,9>>, <<2,10>>, <<3,11>>}
Net12_2 == {<<0,4>>, <<1,5>>, <<2,6>>, <<3,7>>}
Net12_3 == {<<4,8>>, <<5,9>>, <<6,10>>, <<7,11>>, <<0,2>>, <<1,3>>}
Net12_4 == {<<4,6>>, <<5,7>>, <<8,10>>, <<9,11>>, <<0,1>>}
Net12_5 == {<<2,8>>, <<3,9>>, <<10,11>>}
Net12_6 == {<<2,4>>, <<3,5>>, <<6,8>>, <<7,9>>}
Net12_7 == {<<2,3>>, <<4,5>>, <<6,7>>, <<8,9>>}
Net12_8 == {<<1,8>>, <<3,10>>}
Net12_9 == {<<1,4>>, <<3,6>>, <<5,8>>, <<7,10>>}
Net12_10 == {<<1,2>>, <<3,4>>, <<5,6>>, <<7,8>>, <<9,10>>}

Net13_1 == {<<0,8>>, <<1,9>>, <<2,10>>, <<3,11>>, <<4,12>>}
Net13_2 == {<<0,4>>, <<1,5>>, <<2,6>>, <<3,7>>, <<8,12>>}
Net13_3 == {<<4,8>>, <<5,9>>, <<6,10>>, <<7,11>>, <<0,2>>, <<1,3>>}
Net13_4 == {<<4,6>>, <<5,7>>, <<8,10>>, <<9,11>>, <<0,1>>}
Net13_5 == {<<2,8>>, <<3,9>>, <<6,12>>}
Net13_6 == {<<2,4>>, <<3,5>>, <<6,8>>, <<7,9>>, <<10,12>>}
Net13_7 == {<<2,3>>, <<4,5>>, <<6,7>>, <<8,9>>, <<10,11>>}
Net13_8 == {<<1,8>>, <<3,10>>, <<5,12>>}
Net13_9 == {<<1,4>>, <<3,6>>, <<5,8>>, <<7,10>>, <<9,12>>}
Net13_10 == {<<1,2>>, <<3,4>>, <<5,6>>, <<7,8>>, <<9,10>>, <<11,12>>}

Net14_1 == {<<0,8>>, <<1,9>>, <<2,10>>, <<3,11>>, <<4,12>>, <<5,13>>}
Net14_2 == {<<0,4>>, <<1,5>>, <<2,6>>, <<3,7>>, <<8,12>>, <<9,13>>}
Net14_3 == {<<4,8>>, <<5,9>>, <<6,10>>, <<7,11>>, <<0,2>>, <<1,3>>}
Net14_4 == {<<4,6>>, <<5,7>>, <<8,10>>, <<9,11>>, <<0,1>>}
Net14_5 == {<<2,8>>, <<3,9>>, <<6,12>>, <<7,13>>}
Net14_6 == {<<2,4>>, <<3,5>>, <<6,8>>, <<7,9>>, <<10,12>>, <<11,13>>}
Net14_7 == {<<2,3>>, <<4,5>>, <<6,7>>, <<8,9>>, <<10,11>>, <<12,13>>}
Net14_8 == {<<1,8>>, <<3,10>>, <<5,12>>}
Net14_9 == {<<1,4>>, <<3,6>>, <<5,8>>, <<7,10>>, <<9,12>>}
Net14_10 == {<<1,2>>, <<3,4>>, <<5,6>>, <<7,8>>, <<9,10>>, <<11,12>>}

Net15_1 == {<<0,8>>, <<1,9>>, <<2,10>>, <<3,11>>, <<4,12>>, <<5,13>>, <<6,14>>}
Net15_2 == {<<0,4>>, <<1,5>>, <<2,6>>, <<3,7>>, <<8,12>>, <<9,13>>, <<10,14>>}
Net15_3 == {<<4,8>>, <<5,9>>, <<6,10>>, <<7,11>>, <<0,2>>, <<1,3>>, <<12,14>>}
Net15_4 == {<<4,6>>, <<5,7>>, <<8,10>>, <<9,11>>, <<0,1>>}
Net15_5 == {<<2,8>>, <<3,9>>, <<6,12>>, <<7,13>>}
Net15_6 == {<<2,4>>, <<3,5>>, <<6,8>>, <<7,9>>, <<10,12>>, <<11,13>>}
Net15_7 == {<<2,3>>, <<4,5>>, <<6,7>>, <<8,9>>, <<10,11>>, <<12,13>>}
Net15_8 == {<<1,8>>, <<3,10>>, <<5,12>>, <<7,14>>}
Net15_9 == {<<1,4>>, <<3,6>>, <<5,8>>, <<7,10>>, <<9,12>>, <<11,14>>}
Net15_10 == {<<1,2>>, <<3,4>>, <<5,6>>, <<7,8>>, <<9,10>>, <<11,12>>, <<13,14>>}

Net16_1 == {<<0,8>>, <<1,9>>, <<2,10>>, <<3,11>>, <<4,12>>, <<5,13>>, <<6,14>>, <<7,15>>}
Net16_2 == {<<0,4>>, <<1,5>>, <<2,6>>, <<3,7>>, <<8,12>>, <<9,13>>, <<10,14>>, <<11,15>>}
Net16_3 == {<<4,8>>, <<5,9>>, <<6,10>>, <<7,11>>, <<0,2>>, <<1,3>>, <<12,14>>, <<13,15>>}
Net16_4 == {<<4,6>>, <<5,7>>, <<8,10>>, <<9,11>>, <<0,1>>, <<14,15>>}
Net16_5 == {<<2,8>>, <<3,9>>, <<6,12>>, <<7,13>>}
Net16_6 == {<<2,4>>, <<3,5>>, <<6,8>>, <<7,9>>, <<10,12>>, <<11,13>>}
Net16_7 == {<<2,3>>, <<4,5>>, <<6,7>>, <<8,9>>, <<10,11>>, <<12,13>>}
Net16_8 == {<<1,8>>, <<3,10>>, <<5,12>>, <<7,14>>}
Net16_9 == {<<1,4>>, <<3,6>>, <<5,8>>, <<7,10>>, <<9,12>>, <<11,14>>}
Net16_10 == {<<1,2>>, <<3,4>>, <<5,6>>, <<7,8>>, <<9,10>>, <<11,12>>, <<13,14>>}

(* dlsc_sortnet_merge_2x4: lanes 0..3 and lanes 4..7 are already sorted.    *)
Merge8_1 == {<<0,4>>, <<1,5>>, <<2,6>>, <<3,7>>}
Merge8_2 == {<<2,4>>, <<3,5>>}
Merge8_3 == {<<1,2>>, <<3,4>>, <<5,6>>}

(* The levels of the network that GEN_N of dlsc_sortnet instantiates.       *)
Levels(n) ==
    CASE n = 2 -> <<Net2_1>>
      [] n = 3 -> <<Net3_1, Net3_2, Net3_3>>
      [] n = 4 -> <<Net4_1, Net4_2, Net4_3>>
      [] n = 5 -> <<Net5_1, Net5_2, Net5_3, Net5_4, Net5_5>>
      [] n = 6 -> <<Net6_1, Net6_2, Net6_3, Net6_4, Net6_5, Net6_6>>
      [] n = 7 -> <<Net7_1, Net7_2, Net7_3, Net7_4, Net7_5, Net7_6>>
      [] n = 8 -> <<Net8_1, Net8_2, Net8_3, Net8_4, Net8_5, Net8_6>>
      [] n = 9 -> <<Net9_1, Net9_2, Net9_3, Net9_4, Net9_5, Net9_6, Net9_7, Net9_8>>
      [] n = 10 -> <<Net10_1, Net10_2, Net10_3, Net10_4, Net10_5,
                 Net10_6, Net10_7, Net10_8, Net10_9>>
      [] n = 11 -> <<Net11_1, Net11_2, Net11_3, Net11_4, Net11_5,
                 Net11_6, Net11_7, Net11_8, Net11_9, Net11_10>>
      [] n = 12 -> <<Net12_1, Net12_2, Net12_3, Net12_4, Net12_5,
                 Net12_6, Net12_7, Net12_8, Net12_9, Net12_10>>
      [] n = 13 -> <<Net13_1, Net13_2, Net13_3, Net13_4, Net13_5,
                 Net13_6, Net13_7, Net13_8, Net13_9, Net13_10>>
      [] n = 14 -> <<Net14_1, Net14_2, Net14_3, Net14_4, Net14_5,
                 Net14_6, Net14_7, Net14_8, Net14_9, Net14_10>>
      [] n = 15 -> <<Net15_1, Net15_2, Net15_3, Net15_4, Net15_5,
                 Net15_6, Net15_7, Net15_8, Net15_9, Net15_10>>
      [] n = 16 -> <<Net16_1, Net16_2, Net16_3, Net16_4, Net16_5,
                 Net16_6, Net16_7, Net16_8, Net16_9, Net16_10>>

MergeLevels == <<Merge8_1, Merge8_2, Merge8_3>>
--------------------------------------------------------------------------------
CONSTANTS
    Sizes,      (* the values of INPUTS *)
    Values,     (* the data, a set of numbers *)
    WithMerge   (* include dlsc_sortnet_merge_2x4 *)

SortnetAssumption ==
    /\ Sizes \subseteq 2..16
    /\ Values \subseteq Nat
    /\ WithMerge \in BOOLEAN

VARIABLES
    size,    (* INPUTS *)
    merge,   (* the network is the 2x4 merge *)
    level,   (* the level whose output the word has reached *)
    word,    (* the word as it was submitted *)
    data,    (* the data of each lane, out_data once level is the last *)
    id,      (* the identifier of each lane *)
    due      (* cycles after in_valid at which the level has its output,    *)
             (* for PIPELINE = 0 and PIPELINE = 1                           *)

vars == <<size, merge, level, word, data, id, due>>

Network == IF merge THEN MergeLevels ELSE Levels(size)
Depth == Len(Network)
Lanes == 0..size-1
Pipeline == {0, 1}

(* Cells of the level that the word enters next. *)
Cells == Network[level + 1]

(* Mutants of ZeroWins and IdSource: the comparison is the wrong way       *)
(* round; the mux of the identifiers is missing.                           *)
ZeroWinsReversed(lo, hi) == data[lo] >= data[hi]

(* dlsc_compex: c0_zero_wins of the cell with input lanes lo and hi. *)
ZeroWins(lo, hi) == data[lo] <= data[hi]

(* The cells that exchange their lanes. *)
Exchanging == {c \in Cells : ~ZeroWins(c[1], c[2])}

(* The input lane whose data the level passes to its output lane i. *)
Source(i, exchanging) ==
    LET cell == {c \in exchanging : i = c[1] \/ i = c[2]} IN
    IF cell = {} THEN i
    ELSE LET c == CHOOSE c \in cell : TRUE IN IF i = c[1] THEN c[2] ELSE c[1]

IdSourceUnmuxed(i, exchanging) == i
(* The input lane whose identifier it passes there. *)
IdSource(i, exchanging) == Source(i, exchanging)

(* Cycles through a cell or pass-through: 1, or 2 with PIPELINE; the last  *)
(* level is generated with PIPELINE set to 1.                              *)
CellDelay(p) == IF p = 1 \/ level + 1 = Depth THEN 2 ELSE 1

(* dlsc_pipedelay_valid beside the network. *)
ValidDelay(p) == (Depth - 1) * (IF p = 1 THEN 2 ELSE 1) + 2

(* Words the merge network may be given: both halves in order. *)
HalvesSorted(w) == \A i \in {0, 1, 2, 4, 5, 6} : w[i] <= w[i + 1]

Init ==
    /\ merge \in {FALSE, WithMerge}
    /\ size \in IF merge THEN {8} ELSE Sizes
    /\ word \in [Lanes -> Values]
    /\ merge => HalvesSorted(word)
    /\ data = word
    /\ id = [i \in Lanes |-> i]
    /\ due = [p \in Pipeline |-> 0]
    /\ level = 0

(* The word passes one level: every cell at once.  (\E computes the set of  *)
(* the cells once, not for every lane.)                                    *)
Level ==
    /\ level < Depth
    /\ level' = level + 1
    /\ \E exchanging \in {Exchanging} :
          /\ data' = [i \in Lanes |-> data[Source(i, exchanging)]]
          /\ id' = [i \in Lanes |-> id[IdSource(i, exchanging)]]
    /\ due' = [p \in Pipeline |-> due[p] + CellDelay(p)]
    /\ UNCHANGED <<size, merge, word>>

Next == Level

Spec == Init /\ [][Next]_vars
--------------------------------------------------------------------------------
TypeOK ==
    /\ level \in 0..Depth
    /\ data \in [Lanes -> Values]
    /\ id \in [Lanes -> Lanes]

Done == level = Depth

(* out_data is in ascending order: every network the repository holds, of  *)
(* every size, is a sorting network (the merge for sorted halves).         *)
Sorted == Done => \A i \in 0..size-2 : data[i] <= data[i + 1]

(* An identifier leaves with the data it came with, and none is lost or    *)
(* doubled on the way through the exchanges.                               *)
IdsFollowData ==
    /\ \A i \in Lanes : data[i] = word[id[i]]
    /\ {id[i] : i \in Lanes} = Lanes

(* The word reaches the output in the cycle in which the separately        *)
(* delayed out_valid and out_meta announce it.                             *)
ValidInStep == Done => \A p \in Pipeline : due[p] = ValidDelay(p)

(* The testbench expects equal data in ascending order of identifier: it   *)
(* sorts its reference with compare_pairs, "if(a.data == b.data) return    *)
(* (a.id < b.id)", and reports a miscompare otherwise.                     *)
TiesById == Done => \A i \in 0..size-2 : data[i] = data[i + 1] => id[i] < id[i + 1]
================================================================================
