------------------------------ MODULE MCAlgorithms ------------------------------
(***************************************************************************)
(* The parts that compute rather than communicate, one behaviour for each: *)
(* the sorting networks, the median filter and the packets of the PCI      *)
(* Express model.  unit says which one runs; the variables of the others   *)
(* stay None.                                                              *)
(***************************************************************************)
EXTENDS Integers, Sequences

CONSTANTS
    Sizes, Values, WithMerge,       \* of Sortnet
    COLUMNS, GAP,                   \* of Median3x3
    MaxCalls,                       \* of PcieTlp
    None

VARIABLES
    unit,
    size, merge, level, word, data, id, due,
    c1, c2, c3, win, c5, c6, c7, c8, c9, c10, out_data, valid, cols, idle, outs,
    tlp, calls

(* A packet of every class, and for every field a value with bits at both  *)
(* of its ends.                                                            *)
Types == {0, 2, 4, 11, 16, 17, 18}
Plain ==
    [tc |-> {5}, ep |-> {1}, attr_ro |-> {1}, attr_ns |-> {1}, src_id |-> {33153},
     src_tag |-> {129}, msg_code |-> {129}, cpl_status |-> {4}, cpl_bytes |-> {2049},
     cfg_reg |-> {513}, dest_id |-> {32769}]
Lengths == {1, 2, 1024}
Enables == {<<9, 0>>, <<1, 8>>}
Addresses == {{2, 31}, {3, 11, 32, 63}}
Payloads == {<<{0, 31}>>, <<{1}, {8, 16}>>}
Digests == {{0, 30}}

Sorting == INSTANCE Sortnet
Median == INSTANCE Median3x3
Packet == INSTANCE PcieTlp

ASSUME AlgorithmsAssumption == Sorting!SortnetAssumption /\ Packet!PcieTlpAssumption

sorting == <<size, merge, level, word, data, id, due>>
median == <<c1, c2, c3, win, c5, c6, c7, c8, c9, c10, out_data, valid, cols, idle, outs>>
packet == <<tlp, calls>>
vars == <<unit, sorting, median, packet>>
--------------------------------------------------------------------------------
NoSorting == /\ size = None /\ merge = None /\ level = None /\ word = None
             /\ data = None /\ id = None /\ due = None
NoMedian == /\ c1 = None /\ c2 = None /\ c3 = None /\ win = None /\ c5 = None
            /\ c6 = None /\ c7 = None /\ c8 = None /\ c9 = None /\ c10 = None
            /\ out_data = None /\ valid = None /\ cols = None /\ idle = None /\ outs = None
NoPacket == tlp = None /\ calls = None

Init ==
    \/ unit = "sortnet" /\ Sorting!Init /\ NoMedian /\ NoPacket
    \/ unit = "median" /\ NoSorting /\ Median!Init /\ NoPacket
    \/ unit = "packet" /\ NoSorting /\ NoMedian /\ Packet!Init

Next ==
    /\ UNCHANGED unit
    /\ \/ unit = "sortnet" /\ Sorting!Next /\ UNCHANGED <<median, packet>>
       \/ unit = "median" /\ Median!Next /\ UNCHANGED <<sorting, packet>>
       \/ unit = "packet" /\ Packet!Next /\ UNCHANGED <<sorting, median>>

Spec == Init /\ [][Next]_vars
--------------------------------------------------------------------------------
(* Every network puts every word in order, and has it at its output in the *)
(* cycle in which the separately delayed out_valid announces it.           *)
Sorted == unit = "sortnet" => Sorting!TypeOK /\ Sorting!Sorted /\ Sorting!ValidInStep

(* An identifier leaves with the data it came with.                        *)
IdsFollowData == unit = "sortnet" => Sorting!IdsFollowData

(* The output of the filter is the median of nine pixels, wherever the     *)
(* gaps between the columns are.                                           *)
OutputIsMedian == unit = "median" => Median!TypeOK /\ Median!OutputIsMedian

(* A packet comes out of deserialize as it went into serialize, whatever   *)
(* calls built it in whatever order.                                       *)
RoundTrip == unit = "packet" => Packet!RoundTrip

(* Words that are not a packet are rejected, and nothing is made up from   *)
(* the others.                                                             *)
NothingInvented == unit = "packet" => Packet!NothingInvented
================================================================================
