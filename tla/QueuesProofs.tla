----------------------------- MODULE QueuesProofs -----------------------------
(***************************************************************************)
(* For every depth, every pair of thresholds and any set of words, the     *)
(* FIFOs of one clock domain keep the promise of SyncFifo and the          *)
(* ready/valid queues that of Channel.  One section for each kind of unit  *)
(* shows that its invariant is inductive and that its steps are steps of   *)
(* the abstract queue; the last one puts them together for MCQueues.       *)
(*                                                                         *)
(* Of the address width of the shift register only SIZE \in Nat and        *)
(* DEPTH <= SIZE are used, so one argument covers depths that are a power  *)
(* of two, where an address is both "empty" and "full", and depths that    *)
(* are not.                                                                *)
(***************************************************************************)
EXTENDS MCQueues, SequenceTheorems, TLAPS

--------------------------------------------------------------------------------
(* Sequences of at most two words. *)

LEMMA ShortSequences ==
  ASSUME NEW x, NEW y
  PROVE  /\ Len(<<>>) = 0 /\ Len(<<x>>) = 1 /\ Len(<<x, y>>) = 2
         /\ Append(<<>>, x) = <<x>> /\ Append(<<x>>, y) = <<x, y>>
         /\ Tail(<<x>>) = <<>> /\ Tail(<<x, y>>) = <<y>>
<1> DEFINE S == {x, y}
<1>1. <<>> \in Seq(S) /\ <<x>> \in Seq(S) /\ <<y>> \in Seq(S) /\ <<x, y>> \in Seq(S)
  OBVIOUS
<1>2. Len(<<>>) = 0 /\ Len(<<x>>) = 1 /\ Len(<<y>>) = 1 /\ Len(<<x, y>>) = 2
  OBVIOUS
<1>3. Append(<<>>, x) = <<x>>
  <2>1. Append(<<>>, x) \in Seq(S) /\ Len(Append(<<>>, x)) = 1 /\ Append(<<>>, x)[1] = x
    BY <1>1, <1>2, AppendProperties
  <2> QED BY <1>1, <1>2, <2>1, SeqEqual
<1>4. Append(<<x>>, y) = <<x, y>>
  <2>1. /\ Append(<<x>>, y) \in Seq(S) /\ Len(Append(<<x>>, y)) = 2
        /\ Append(<<x>>, y)[1] = x /\ Append(<<x>>, y)[2] = y
    BY <1>1, <1>2, AppendProperties
  <2>2. \A i \in 1..2 : i = 1 \/ i = 2
    OBVIOUS
  <2>3. \A i \in 1..2 : Append(<<x>>, y)[i] = <<x, y>>[i]
    BY <2>1, <2>2
  <2> QED BY <1>1, <1>2, <2>1, <2>3, SeqEqual
<1>5. Tail(<<x>>) = <<>>
  <2>1. Tail(<<x>>) \in Seq(S) /\ Len(Tail(<<x>>)) = 0
    BY <1>1, <1>2, HeadTailProperties
  <2> QED BY <1>1, <1>2, <2>1, SeqEqual
<1>6. Tail(<<x, y>>) = <<y>>
  <2>1. Tail(<<x, y>>) \in Seq(S) /\ Len(Tail(<<x, y>>)) = 1 /\ Tail(<<x, y>>)[1] = y
    BY <1>1, <1>2, HeadTailProperties
  <2> QED BY <1>1, <1>2, <2>1, SeqEqual
<1> QED BY <1>2, <1>3, <1>4, <1>5, <1>6

--------------------------------------------------------------------------------
(* dlsc_fifo_one *)

LEMMA OneInit ==
  ASSUME NEW u \in Of("one"), One(u)!FifoOneAssumption, One(u)!Init
  PROVE  One(u)!IInv /\ One(u)!Fifo!Init
  BY DEF One!FifoOneAssumption, One!Init, One!IInv, One!Fifo!Init, One!Contents

LEMMA OneInv ==
  ASSUME NEW u \in Of("one"), One(u)!FifoOneAssumption, One(u)!IInv, One(u)!Next
  PROVE  One(u)!IInv'
<1> SUFFICES ASSUME NEW push \in BOOLEAN, NEW pop \in BOOLEAN, NEW d \in Data,
                    One(u)!Clk(push, d, pop)
             PROVE  One(u)!IInv'
  BY DEF One!Next
<1>1. CASE One(u)!Reset
  BY <1>1 DEF One!FifoOneAssumption, One!IInv, One!Clk, One!Reset
<1>2. CASE One(u)!Running(push, pop)
  BY <1>2 DEF One!IInv, One!Clk, One!Running, One!Legal
<1> QED BY <1>1, <1>2 DEF One!Clk

LEMMA OneMaps ==
  ASSUME NEW u \in Of("one"), One(u)!IInv, One(u)!IInv'
  PROVE  One(u)!FifoEdge
<1>1. One(u)!Reset => One(u)!Fifo!Reset
  BY DEF One!Reset, One!Fifo!Reset, One!Contents
<1>2. ASSUME NEW push \in BOOLEAN, NEW pop \in BOOLEAN, NEW d \in Data,
             One(u)!Clk(push, d, pop), One(u)!Running(push, pop)
      PROVE  One(u)!Fifo!Clk(push, d, pop)
  <2>1. One(u)!Fifo!Legal(push, pop)
    BY <1>2 DEF One!Running, One!Legal, One!Fifo!Legal
  <2>2. /\ rd_empty' = (~push /\ (pop \/ rd_empty))
        /\ push /\ ~pop => rd_empty
        /\ pop => ~rd_empty
        /\ out_data' = IF push THEN d ELSE out_data
    BY <1>2 DEF One!Running, One!Legal, One!IInv, One!Clk
  <2> DEFINE c == One(u)!Contents
             rest == IF pop THEN Tail(c) ELSE c
  <2>3. rest = IF rd_empty \/ pop THEN <<>> ELSE <<out_data>>
    BY <2>2, ShortSequences DEF One!Contents
  <2>4. c' = IF push THEN Append(rest, d) ELSE rest
    <3> HIDE DEF rest
    <3>1. c' = IF rd_empty' THEN <<>> ELSE <<out_data'>>
      BY DEF One!Contents
    <3> QED BY <2>2, <2>3, <3>1, ShortSequences
  <2>5. Len(c') = IF rd_empty' THEN 0 ELSE 1
    BY ShortSequences DEF One!Contents
  <2>6. rd_empty' \in BOOLEAN /\ wr_full' = ~rd_empty'
    BY <1>2 DEF One!Running, One!IInv
  <2> HIDE DEF c
  <2>7. One(u)!Fifo!Flags(push)
    BY <2>5, <2>6 DEF c, One!Fifo!Flags
  <2> QED BY <2>1, <2>4, <2>7 DEF c, One!Fifo!Clk
<1> QED BY <1>1, <1>2 DEF One!FifoEdge

--------------------------------------------------------------------------------
(* dlsc_fifo_two *)

LEMMA TwoInit ==
  ASSUME NEW u \in Of("two"), Two(u)!FifoTwoAssumption, Two(u)!Init
  PROVE  Two(u)!IInv /\ Two(u)!Fifo!Init
<1>1. Two(u)!IInv
  <2>1. /\ out_valid = FALSE /\ buf_valid = FALSE /\ out_data = None /\ buf_data = None
        /\ wr_full \in BOOLEAN /\ rd_empty = TRUE /\ free = 2 /\ cnt = 0
    BY DEF Two!FifoTwoAssumption, Two!Init
  <2>2. cnt = 2 - free
    BY <2>1
  <2> QED BY <2>1, <2>2, Zenon DEF Two!IInv
<1>2. Two(u)!Fifo!Init
  BY DEF Two!FifoTwoAssumption, Two!Init, Two!Fifo!Init, Two!Contents
<1> QED BY <1>1, <1>2

(* A cycle out of reset, without the definitions that serve the code. *)
LEMMA TwoCycle ==
  ASSUME NEW u \in Of("two"), Two(u)!IInv,
         NEW push \in BOOLEAN, NEW pop \in BOOLEAN, NEW d \in Data,
         Two(u)!Running(push, pop), Two(u)!DataRegisters(push, d, pop)
  PROVE  /\ push /\ ~pop => ~buf_valid
         /\ pop => out_valid
         /\ out_valid' = (push \/ (IF pop THEN buf_valid ELSE out_valid))
         /\ buf_valid' = ((buf_valid /\ ~pop) \/ (push /\ out_valid /\ (pop => buf_valid)))
         /\ buf_valid' => out_valid'
         /\ out_data' = IF push /\ (~out_valid \/ (pop /\ ~buf_valid)) THEN d
                        ELSE IF pop /\ buf_valid THEN buf_data ELSE out_data
         /\ buf_data' = IF push /\ out_valid /\ (pop => buf_valid) THEN d ELSE buf_data
         /\ \E n \in 0..2 :
              /\ n = IF buf_valid' THEN 2 ELSE IF out_valid' THEN 1 ELSE 0
              /\ wr_full' = (n = 2) /\ almost_full' = (n + u.almost_full >= 2)
              /\ free' = 2 - n /\ cnt' = n
              /\ rd_empty' = (n = 0) /\ almost_empty' = (n <= u.almost_empty)
<1>1. /\ push /\ ~pop => ~buf_valid
      /\ pop => out_valid
      /\ buf_valid \in BOOLEAN /\ out_valid \in BOOLEAN
      /\ buf_valid => out_valid
  BY DEF Two!IInv, Two!Running, Two!Legal
<1>2. /\ out_valid' = (push \/ (IF pop THEN buf_valid ELSE out_valid))
      /\ buf_valid' = ((buf_valid /\ ~pop) \/ (push /\ out_valid /\ (pop => buf_valid)))
  BY <1>1 DEF Two!Running, Two!NextOutValid, Two!NextBufValid, Two!ToOut
<1>3. buf_valid' => out_valid'
  BY <1>1, <1>2
<1>4. /\ out_data' = IF push /\ (~out_valid \/ (pop /\ ~buf_valid)) THEN d
                    ELSE IF pop /\ buf_valid THEN buf_data ELSE out_data
      /\ buf_data' = IF push /\ out_valid /\ (pop => buf_valid) THEN d ELSE buf_data
  BY <1>1 DEF Two!DataRegisters, Two!ToOut
<1>5. Two(u)!Flags(buf_valid', out_valid')
  BY DEF Two!Running
<1> DEFINE n == (IF buf_valid' THEN 1 ELSE 0) + (IF out_valid' THEN 1 ELSE 0)
<1>6. /\ wr_full' = (n = 2) /\ almost_full' = (n + u.almost_full >= 2)
      /\ free' = 2 - n /\ cnt' = n
      /\ rd_empty' = (n = 0) /\ almost_empty' = (n <= u.almost_empty)
  BY <1>3, <1>5 DEF Two!Flags
<1>7. n \in 0..2 /\ n = IF buf_valid' THEN 2 ELSE IF out_valid' THEN 1 ELSE 0
  BY <1>3
<1> HIDE DEF n
<1> QED BY <1>1, <1>2, <1>3, <1>4, <1>6, <1>7

LEMMA TwoInv ==
  ASSUME NEW u \in Of("two"), Two(u)!FifoTwoAssumption, Two(u)!IInv, Two(u)!Next
  PROVE  Two(u)!IInv'
<1> SUFFICES ASSUME NEW push \in BOOLEAN, NEW pop \in BOOLEAN, NEW d \in Data,
                    Two(u)!Clk(push, d, pop)
             PROVE  Two(u)!IInv'
  BY DEF Two!Next
<1>1. /\ out_valid \in BOOLEAN /\ buf_valid \in BOOLEAN
      /\ out_data \in Data \cup {None} /\ buf_data \in Data \cup {None}
      /\ buf_valid => out_valid
      /\ out_valid => out_data \in Data
      /\ buf_valid => buf_data \in Data
  BY DEF Two!IInv
<1>2. Two(u)!DataRegisters(push, d, pop)
  BY DEF Two!Clk
<1>3. out_data' \in Data \cup {None} /\ buf_data' \in Data \cup {None}
  BY <1>1, <1>2 DEF Two!DataRegisters
<1>4. CASE Two(u)!Reset
  <2>1. /\ out_valid' = FALSE /\ buf_valid' = FALSE
        /\ wr_full' \in BOOLEAN /\ rd_empty' = TRUE /\ free' = 2 /\ cnt' = 0
    BY <1>4 DEF Two!Reset, Two!FifoTwoAssumption
  <2>2. cnt' = 2 - free'
    BY <2>1
  <2> QED BY <1>3, <2>1, <2>2, Zenon DEF Two!IInv
<1>5. CASE Two(u)!Running(push, pop)
  <2>1. PICK n \in 0..2 :
          /\ n = IF buf_valid' THEN 2 ELSE IF out_valid' THEN 1 ELSE 0
          /\ wr_full' = (n = 2)
          /\ free' = 2 - n /\ cnt' = n
          /\ rd_empty' = (n = 0)
    BY <1>2, <1>5, TwoCycle
  <2>2. /\ push /\ ~pop => ~buf_valid
        /\ pop => out_valid
        /\ out_valid' = (push \/ (IF pop THEN buf_valid ELSE out_valid))
        /\ buf_valid' = ((buf_valid /\ ~pop) \/ (push /\ out_valid /\ (pop => buf_valid)))
        /\ buf_valid' => out_valid'
        /\ out_data' = IF push /\ (~out_valid \/ (pop /\ ~buf_valid)) THEN d
                       ELSE IF pop /\ buf_valid THEN buf_data ELSE out_data
        /\ buf_data' = IF push /\ out_valid /\ (pop => buf_valid) THEN d ELSE buf_data
    BY <1>2, <1>5, TwoCycle
  <2>3. out_valid' \in BOOLEAN /\ buf_valid' \in BOOLEAN
    BY <1>1, <2>2
  <2>4. (out_valid' => out_data' \in Data) /\ (buf_valid' => buf_data' \in Data)
    BY <1>1, <2>2
  <2>5. /\ wr_full' \in BOOLEAN
        /\ buf_valid' => wr_full'
        /\ ~buf_valid' => free' = IF out_valid' THEN 1 ELSE 2
        /\ buf_valid' => free' = 0
        /\ rd_empty' = ~out_valid'
        /\ cnt' = 2 - free'
    BY <2>1, <2>2, <2>3
  <2> QED BY <1>3, <2>2, <2>3, <2>4, <2>5, Zenon DEF Two!IInv
<1> QED BY <1>4, <1>5 DEF Two!Clk

LEMMA TwoMaps ==
  ASSUME NEW u \in Of("two"), Two(u)!FifoTwoAssumption, Two(u)!IInv
  PROVE  Two(u)!FifoEdge
<1>1. Two(u)!Reset => Two(u)!Fifo!Reset
  BY DEF Two!Reset, Two!Fifo!Reset, Two!Contents
<1>2. ASSUME NEW push \in BOOLEAN, NEW pop \in BOOLEAN, NEW d \in Data,
             Two(u)!Clk(push, d, pop), Two(u)!Running(push, pop)
      PROVE  Two(u)!Fifo!Clk(push, d, pop)
  <2>1. Two(u)!DataRegisters(push, d, pop)
    BY <1>2 DEF Two!Clk
  <2>2. /\ push /\ ~pop => ~buf_valid
        /\ pop => out_valid
        /\ out_valid' = (push \/ (IF pop THEN buf_valid ELSE out_valid))
        /\ buf_valid' = ((buf_valid /\ ~pop) \/ (push /\ out_valid /\ (pop => buf_valid)))
        /\ buf_valid' => out_valid'
        /\ out_data' = IF push /\ (~out_valid \/ (pop /\ ~buf_valid)) THEN d
                       ELSE IF pop /\ buf_valid THEN buf_data ELSE out_data
        /\ buf_data' = IF push /\ out_valid /\ (pop => buf_valid) THEN d ELSE buf_data
    BY <1>2, <2>1, TwoCycle
  <2>3. PICK n \in 0..2 :
          /\ n = IF buf_valid' THEN 2 ELSE IF out_valid' THEN 1 ELSE 0
          /\ wr_full' = (n = 2) /\ almost_full' = (n + u.almost_full >= 2)
          /\ rd_empty' = (n = 0) /\ almost_empty' = (n <= u.almost_empty)
    BY <1>2, <2>1, TwoCycle
  <2>4. Two(u)!Fifo!Legal(push, pop)
    BY <1>2 DEF Two!Running, Two!Legal, Two!Fifo!Legal
  <2> DEFINE c == Two(u)!Contents
             rest == IF pop THEN Tail(c) ELSE c
  <2>5. rest = IF pop THEN IF buf_valid THEN <<buf_data>> ELSE <<>> ELSE c
    BY <2>2, ShortSequences DEF Two!Contents
  <2>6. c' = IF push THEN Append(rest, d) ELSE rest
    <3>1. c = IF ~out_valid THEN <<>> ELSE IF ~buf_valid THEN <<out_data>>
              ELSE <<out_data, buf_data>>
      BY DEF Two!Contents
    <3>2. c' = IF ~out_valid' THEN <<>> ELSE IF ~buf_valid' THEN <<out_data'>>
               ELSE <<out_data', buf_data'>>
      BY DEF Two!Contents
    <3>3. buf_valid => out_valid
      BY DEF Two!IInv
    <3> HIDE DEF rest, c
    <3> QED BY <2>2, <2>5, <3>1, <3>2, <3>3, ShortSequences
  <2>7. Len(c') = n
    BY <2>2, <2>3, ShortSequences DEF Two!Contents
  <2> HIDE DEF c
  <2>8. Two(u)!Fifo!Flags(push)
    <3>1. (n + u.almost_full >= 2) = (n >= 2 - u.almost_full)
      BY DEF Two!FifoTwoAssumption
    <3>2. (n <= u.almost_empty) = (n = 0 \/ n <= u.almost_empty)
      BY DEF Two!FifoTwoAssumption
    <3> QED BY <2>3, <2>7, <3>1, <3>2 DEF c, Two!Fifo!Flags
  <2> QED BY <2>4, <2>6, <2>8 DEF c, Two!Fifo!Clk
<1> QED BY <1>1, <1>2 DEF Two!FifoEdge

--------------------------------------------------------------------------------
(* dlsc_fifo_shiftreg *)

(* The parameters, as the other lemmas use them. *)
ShiftregParams(u) ==
    /\ Shiftreg(u)!SIZE \in Nat
    /\ u.depth \in Nat
    /\ u.depth >= 2
    /\ u.depth <= Shiftreg(u)!SIZE
    /\ u.almost_full \in Nat /\ u.almost_full < u.depth
    /\ u.almost_empty \in Nat /\ u.almost_empty < u.depth
    /\ u.full_in_reset \in BOOLEAN

LEMMA ShiftregBounds ==
  ASSUME NEW u \in Of("shiftreg"), Shiftreg(u)!FifoShiftregAssumption
  PROVE  ShiftregParams(u)
  BY DEF ShiftregParams, Shiftreg!FifoShiftregAssumption

LEMMA ShiftregCountType ==
  ASSUME NEW u \in Of("shiftreg"), ShiftregParams(u), Shiftreg(u)!IInv
  PROVE  Shiftreg(u)!Count \in 0..u.depth
  BY DEF ShiftregParams, Shiftreg!IInv, Shiftreg!Count

LEMMA ShiftregInitInv ==
  ASSUME NEW u \in Of("shiftreg"), ShiftregParams(u), Shiftreg(u)!Init
  PROVE  Shiftreg(u)!IInv
<1>1. Shiftreg(u)!Count = 0
  BY DEF Shiftreg!Init, Shiftreg!Count
<1>2. /\ mem \in [0..u.depth-1 -> Data \cup {None}]
      /\ rd_addr = Shiftreg(u)!EMPTY /\ rd_addr \in 0..Shiftreg(u)!SIZE-1
  BY DEF ShiftregParams, Shiftreg!Init, Shiftreg!EMPTY
<1>3. (0 = u.depth) = FALSE /\ (0 >= u.depth - u.almost_full) = FALSE
      /\ (0 <= u.almost_empty) = TRUE
  BY DEF ShiftregParams
<1>4. /\ rd_empty = TRUE /\ almost_empty = TRUE
      /\ wr_full = u.full_in_reset /\ almost_full = u.full_in_reset
      /\ rst_done = ~u.full_in_reset /\ u.full_in_reset \in BOOLEAN
  BY DEF Shiftreg!Init, ShiftregParams
<1> QED BY <1>1, <1>2, <1>3, <1>4, Zenon DEF Shiftreg!IInv

--------------------------------------------------------------------------------
(* How many words there are after each kind of cycle. *)

LEMMA ShiftregResetCount ==
  ASSUME NEW u \in Of("shiftreg"), Shiftreg(u)!Reset
  PROVE  Shiftreg(u)!Count' = 0
  BY DEF Shiftreg!Reset, Shiftreg!Count

LEMMA ShiftregIncCount ==
  ASSUME NEW u \in Of("shiftreg"), ShiftregParams(u), Shiftreg(u)!IInv,
         Shiftreg(u)!Legal(TRUE, FALSE), Shiftreg(u)!Inc
  PROVE  /\ rst_done
         /\ Shiftreg(u)!Count < u.depth
         /\ Shiftreg(u)!Count' = Shiftreg(u)!Count + 1
         /\ rd_addr' = Shiftreg(u)!Count
<1>1. rst_done /\ Shiftreg(u)!Count < u.depth
  BY ShiftregCountType DEF ShiftregParams, Shiftreg!IInv, Shiftreg!Legal
<1>2. rd_addr' = Shiftreg(u)!Count
  <2>1. CASE rd_empty
    BY <2>1 DEF ShiftregParams, Shiftreg!IInv, Shiftreg!Inc, Shiftreg!Succ,
       Shiftreg!Count
  <2>2. CASE ~rd_empty
    BY <1>1, <2>2 DEF ShiftregParams, Shiftreg!IInv, Shiftreg!Inc, Shiftreg!Succ,
       Shiftreg!Count, Shiftreg!EMPTY
  <2> QED BY <2>1, <2>2 DEF Shiftreg!IInv
<1>3. Shiftreg(u)!Count' = rd_addr' + 1
  BY DEF Shiftreg!Inc, Shiftreg!Count
<1> QED BY <1>1, <1>2, <1>3, ShiftregCountType DEF ShiftregParams

LEMMA ShiftregDecCount ==
  ASSUME NEW u \in Of("shiftreg"), ShiftregParams(u), Shiftreg(u)!IInv,
         Shiftreg(u)!Legal(FALSE, TRUE), Shiftreg(u)!Dec
  PROVE  /\ rst_done /\ ~rd_empty
         /\ rd_addr \in 0..u.depth-1
         /\ Shiftreg(u)!Count = rd_addr + 1 /\ Shiftreg(u)!Count' = rd_addr
         /\ rd_addr = 0 => rd_empty' = TRUE /\ rd_addr' = Shiftreg(u)!EMPTY
         /\ rd_addr # 0 => rd_empty' = FALSE /\ rd_addr' = rd_addr - 1
<1>1. /\ ~rd_empty
      /\ rst_done
      /\ rd_addr \in 0..u.depth-1
      /\ Shiftreg(u)!Count = rd_addr + 1
  BY DEF Shiftreg!IInv, Shiftreg!Legal, Shiftreg!Count
<1>2. /\ rd_addr = 0 => rd_empty' = TRUE /\ rd_addr' = Shiftreg(u)!EMPTY
      /\ rd_addr # 0 => rd_empty' = FALSE /\ rd_addr' = rd_addr - 1
  BY <1>1 DEF Shiftreg!Dec, Shiftreg!Pred
<1>3. Shiftreg(u)!Count' = rd_addr
  BY <1>1, <1>2 DEF ShiftregParams, Shiftreg!Count
<1> QED BY <1>1, <1>2, <1>3

LEMMA ShiftregEvenCount ==
  ASSUME NEW u \in Of("shiftreg"), Shiftreg(u)!Even
  PROVE  Shiftreg(u)!Count' = Shiftreg(u)!Count
  BY DEF Shiftreg!Even, Shiftreg!Count

(* A cell of the memory after a cycle. *)
LEMMA ShiftregShiftCells ==
  ASSUME NEW u \in Of("shiftreg"), ShiftregParams(u), Shiftreg(u)!IInv,
         NEW push \in BOOLEAN, NEW d \in Data, Shiftreg(u)!Shift(push, d)
  PROVE  /\ mem' \in [0..u.depth-1 -> Data \cup {None}]
         /\ ~push => mem' = mem
         /\ push => mem'[0] = d /\ \A i \in 1..u.depth-1 : mem'[i] = mem[i-1]
<1>0. mem \in [0..u.depth-1 -> Data \cup {None}]
  BY DEF Shiftreg!IInv
<1>1. CASE push
  <2>1. mem' = [i \in 0..u.depth-1 |-> IF i = 0 THEN d ELSE mem[i-1]]
    BY <1>1 DEF Shiftreg!Shift
  <2>2. \A i \in 0..u.depth-1 : (IF i = 0 THEN d ELSE mem[i-1]) \in Data \cup {None}
    BY <1>0 DEF ShiftregParams
  <2>3. mem' \in [0..u.depth-1 -> Data \cup {None}]
    BY <2>1, <2>2
  <2> QED BY <1>1, <2>1, <2>3 DEF ShiftregParams
<1>2. CASE ~push
  BY <1>0, <1>2 DEF Shiftreg!Shift
<1> QED BY <1>1, <1>2

--------------------------------------------------------------------------------
LEMMA ShiftregResetInv ==
  ASSUME NEW u \in Of("shiftreg"), ShiftregParams(u), Shiftreg(u)!IInv,
         NEW push \in BOOLEAN, NEW d \in Data, Shiftreg(u)!Reset,
         Shiftreg(u)!Shift(push, d)
  PROVE  Shiftreg(u)!IInv'
<1>1. mem' \in [0..u.depth-1 -> Data \cup {None}]
  BY ShiftregShiftCells
<1>2. Shiftreg(u)!Count' = 0
  BY ShiftregResetCount
<1>3. /\ rd_addr' = Shiftreg(u)!EMPTY
      /\ rd_addr' = Shiftreg(u)!EMPTY'
      /\ rd_addr' \in 0..Shiftreg(u)!SIZE-1
  BY DEF ShiftregParams, Shiftreg!Reset, Shiftreg!EMPTY
<1>4. (0 = u.depth) = FALSE /\ (0 >= u.depth - u.almost_full) = FALSE
      /\ (0 <= u.almost_empty) = TRUE
  BY DEF ShiftregParams
<1>5. /\ rd_empty' = TRUE /\ almost_empty' = TRUE
      /\ wr_full' = u.full_in_reset /\ almost_full' = u.full_in_reset
      /\ rst_done' = ~u.full_in_reset /\ u.full_in_reset \in BOOLEAN
  BY DEF Shiftreg!Reset, ShiftregParams
<1> QED BY <1>1, <1>2, <1>3, <1>4, <1>5, Zenon DEF Shiftreg!IInv

LEMMA ShiftregIncInv ==
  ASSUME NEW u \in Of("shiftreg"), ShiftregParams(u), Shiftreg(u)!IInv, NEW d \in Data,
         Shiftreg(u)!Legal(TRUE, FALSE), Shiftreg(u)!Inc, rst_done' = TRUE,
         Shiftreg(u)!Shift(TRUE, d)
  PROVE  Shiftreg(u)!IInv'
<1>1. /\ mem' \in [0..u.depth-1 -> Data \cup {None}]
      /\ mem'[0] = d /\ \A i \in 1..u.depth-1 : mem'[i] = mem[i-1]
  BY ShiftregShiftCells
<1>2. /\ rst_done
      /\ Shiftreg(u)!Count \in 0..u.depth-1
      /\ Shiftreg(u)!Count' = Shiftreg(u)!Count + 1
      /\ rd_addr' = Shiftreg(u)!Count
  <2>1. Shiftreg(u)!Count \in 0..u.depth
    BY ShiftregCountType
  <2>2. /\ rst_done
        /\ Shiftreg(u)!Count < u.depth
        /\ Shiftreg(u)!Count' = Shiftreg(u)!Count + 1
        /\ rd_addr' = Shiftreg(u)!Count
    BY ShiftregIncCount
  <2> QED BY <2>1, <2>2 DEF ShiftregParams
<1>3. /\ rd_addr' \in 0..u.depth-1
      /\ rd_addr' \in 0..Shiftreg(u)!SIZE-1
      /\ rd_empty' = FALSE
  BY <1>2 DEF Shiftreg!Inc, ShiftregParams
<1>4. \A i \in 0..rd_addr' : mem'[i] \in Data
  <2>1. \A i \in 1..Shiftreg(u)!Count : mem[i-1] \in Data
    BY <1>2 DEF Shiftreg!IInv, Shiftreg!Count, ShiftregParams
  <2> QED BY <1>1, <1>2, <2>1 DEF ShiftregParams
<1>5. /\ rd_addr \in 0..Shiftreg(u)!SIZE-1 /\ rd_empty \in BOOLEAN
      /\ rd_empty => Shiftreg(u)!Count = 0 /\ rd_addr = Shiftreg(u)!SIZE - 1
      /\ ~rd_empty => Shiftreg(u)!Count = rd_addr + 1
  BY DEF Shiftreg!IInv, Shiftreg!Count, Shiftreg!EMPTY
<1>6. wr_full' = (Shiftreg(u)!Count' = u.depth)
  <2>1. wr_full' = (rd_addr = u.depth - 2)
    BY <1>2, Zenon DEF Shiftreg!Inc
  <2>2. (rd_addr = u.depth - 2) = (Shiftreg(u)!Count' = u.depth)
    BY <1>2, <1>5 DEF ShiftregParams
  <2> QED BY <2>1, <2>2
<1>7. almost_empty' = (Shiftreg(u)!Count' <= u.almost_empty)
  <2>1. almost_empty' =
          (Shiftreg(u)!Count <= u.almost_empty
             /\ ~(rd_addr = u.almost_empty - 1 \/ u.almost_empty <= 0))
    BY Zenon DEF Shiftreg!Inc, Shiftreg!IInv
  <2>2. (Shiftreg(u)!Count <= u.almost_empty
             /\ ~(rd_addr = u.almost_empty - 1 \/ u.almost_empty <= 0))
          = (Shiftreg(u)!Count' <= u.almost_empty)
    BY <1>2, <1>5 DEF ShiftregParams
  <2> QED BY <2>1, <2>2
<1>8. almost_full' = (Shiftreg(u)!Count' >= u.depth - u.almost_full)
  <2>1. almost_full = (Shiftreg(u)!Count >= u.depth - u.almost_full)
    <3>1. /\ almost_full = (~rst_done \/ Shiftreg(u)!Count >= u.depth - u.almost_full)
          /\ rst_done \in BOOLEAN
      BY Zenon DEF Shiftreg!IInv
    <3> QED BY <1>2, <3>1
  <2>2. almost_full' = (Shiftreg(u)!Count >= u.depth - u.almost_full
           \/ rd_addr = u.depth - u.almost_full - 2
                          \/ u.almost_full + 1 >= u.depth)
    BY <1>2, <2>1, Zenon DEF Shiftreg!Inc
  <2>3. (Shiftreg(u)!Count >= u.depth - u.almost_full
           \/ rd_addr = u.depth - u.almost_full - 2
           \/ u.almost_full + 1 >= u.depth) = (Shiftreg(u)!Count' >= u.depth - u.almost_full)
    BY <1>2, <1>5 DEF ShiftregParams
  <2> QED BY <2>2, <2>3
<1>9. wr_full' \in BOOLEAN /\ almost_full' \in BOOLEAN /\ almost_empty' \in BOOLEAN
  BY <1>6, <1>7, <1>8
<1>10. Shiftreg(u)!EMPTY' = Shiftreg(u)!EMPTY
  BY DEF Shiftreg!EMPTY
<1> QED BY <1>1, <1>3, <1>4, <1>6, <1>7, <1>8, <1>9, <1>10, Zenon DEF Shiftreg!IInv

LEMMA ShiftregDecInv ==
  ASSUME NEW u \in Of("shiftreg"), ShiftregParams(u), Shiftreg(u)!IInv, NEW d \in Data,
         Shiftreg(u)!Legal(FALSE, TRUE), Shiftreg(u)!Dec, rst_done' = TRUE,
         Shiftreg(u)!Shift(FALSE, d)
  PROVE  Shiftreg(u)!IInv'
<1>1. mem' = mem
  BY DEF Shiftreg!Shift
<1>2. /\ rst_done /\ ~rd_empty /\ rd_addr \in 0..u.depth-1
      /\ Shiftreg(u)!Count = rd_addr + 1 /\ Shiftreg(u)!Count' = rd_addr
      /\ rd_addr = 0 => rd_empty' = TRUE /\ rd_addr' = Shiftreg(u)!EMPTY
      /\ rd_addr # 0 => rd_empty' = FALSE /\ rd_addr' = rd_addr - 1
  BY ShiftregDecCount
<1>3. /\ rd_addr' \in 0..Shiftreg(u)!SIZE-1 /\ rd_empty' \in BOOLEAN
      /\ rd_empty' => rd_addr' = Shiftreg(u)!EMPTY
      /\ ~rd_empty' => rd_addr' \in 0..u.depth-1 /\ rd_addr' < rd_addr
  <2>1. CASE rd_addr = 0
    BY <1>2, <2>1 DEF ShiftregParams, Shiftreg!EMPTY
  <2>2. CASE rd_addr # 0
    <3>1. rd_empty' = FALSE /\ rd_addr' = rd_addr - 1
      BY <1>2, <2>2
    <3>2. /\ rd_addr' \in 0..Shiftreg(u)!SIZE-1
          /\ rd_addr' \in 0..u.depth-1
          /\ rd_addr' < rd_addr
      BY <1>2, <2>2, <3>1 DEF ShiftregParams
    <3> QED BY <3>1, <3>2, Zenon
  <2> QED BY <2>1, <2>2
<1>4. almost_empty' = (Shiftreg(u)!Count' <= u.almost_empty)
  <2>1. almost_empty' = (Shiftreg(u)!Count <= u.almost_empty \/ rd_addr = u.almost_empty)
    BY Zenon DEF Shiftreg!Dec, Shiftreg!IInv
  <2>2. (Shiftreg(u)!Count <= u.almost_empty \/ rd_addr = u.almost_empty)
          = (Shiftreg(u)!Count' <= u.almost_empty)
    BY <1>2 DEF ShiftregParams
  <2> QED BY <2>1, <2>2
<1>5. almost_full' = (Shiftreg(u)!Count' >= u.depth - u.almost_full)
  <2>1. almost_full = (Shiftreg(u)!Count >= u.depth - u.almost_full)
    <3>1. /\ almost_full = (~rst_done \/ Shiftreg(u)!Count >= u.depth - u.almost_full)
          /\ rst_done \in BOOLEAN
      BY Zenon DEF Shiftreg!IInv
    <3> QED BY <1>2, <3>1
  <2>2. almost_full' = (Shiftreg(u)!Count >= u.depth - u.almost_full
           /\ rd_addr # u.depth - u.almost_full - 1)
    BY <1>2, <2>1, Zenon DEF Shiftreg!Dec
  <2>3. (Shiftreg(u)!Count >= u.depth - u.almost_full
           /\ rd_addr # u.depth - u.almost_full - 1)
          = (Shiftreg(u)!Count' >= u.depth - u.almost_full)
    BY <1>2 DEF ShiftregParams
  <2> QED BY <2>2, <2>3
<1>6. wr_full' = (Shiftreg(u)!Count' = u.depth)
  <2>1. wr_full' = FALSE
    BY DEF Shiftreg!Dec
  <2>2. ~(Shiftreg(u)!Count' = u.depth)
    BY <1>2 DEF ShiftregParams
  <2> QED BY <2>1, <2>2
<1>7. ~rd_empty' => \A i \in 0..rd_addr' : mem'[i] \in Data
  <2>1. \A i \in 0..rd_addr : mem[i] \in Data
    BY <1>2 DEF Shiftreg!IInv
  <2> QED BY <1>1, <1>2, <1>3, <2>1 DEF ShiftregParams
<1>8. wr_full' \in BOOLEAN /\ almost_full' \in BOOLEAN /\ almost_empty' \in BOOLEAN
  BY <1>4, <1>5, <1>6
<1>9. mem' \in [0..u.depth-1 -> Data \cup {None}]
  BY <1>1 DEF Shiftreg!IInv
<1>10. Shiftreg(u)!EMPTY' = Shiftreg(u)!EMPTY
  BY DEF Shiftreg!EMPTY
<1> QED BY <1>3, <1>4, <1>5, <1>6, <1>7, <1>8, <1>9, <1>10 DEF Shiftreg!IInv

LEMMA ShiftregEvenInv ==
  ASSUME NEW u \in Of("shiftreg"), ShiftregParams(u), Shiftreg(u)!IInv,
         NEW push \in BOOLEAN, NEW d \in Data, Shiftreg(u)!Legal(push, push),
         Shiftreg(u)!Even,
         rst_done' = TRUE, Shiftreg(u)!Shift(push, d)
  PROVE  Shiftreg(u)!IInv'
<1>1. /\ mem' \in [0..u.depth-1 -> Data \cup {None}]
      /\ ~push => mem' = mem
      /\ push => mem'[0] = d /\ \A i \in 1..u.depth-1 : mem'[i] = mem[i-1]
  BY ShiftregShiftCells
<1>2. Shiftreg(u)!Count' = Shiftreg(u)!Count /\ Shiftreg(u)!Count \in 0..u.depth
  BY ShiftregEvenCount, ShiftregCountType
<1>3. rd_addr' = rd_addr /\ rd_empty' = rd_empty /\ almost_empty' = almost_empty
  BY DEF Shiftreg!Even
<1>4. ~rd_empty => rd_addr \in 0..u.depth-1 /\ \A i \in 0..rd_addr : mem'[i] \in Data
  <2>1. ~rd_empty => rd_addr \in 0..u.depth-1 /\ \A i \in 0..rd_addr : mem[i] \in Data
    BY DEF Shiftreg!IInv
  <2>2. CASE push
    BY <1>1, <2>1, <2>2 DEF ShiftregParams
  <2>3. CASE ~push
    BY <1>1, <2>1, <2>3
  <2> QED BY <2>2, <2>3
<1>5. ~rst_done => /\ ~(Shiftreg(u)!Count = u.depth)
                   /\ ~(Shiftreg(u)!Count >= u.depth - u.almost_full)
  <2>1. ~rst_done => Shiftreg(u)!Count = 0
    BY DEF Shiftreg!IInv, Shiftreg!Count
  <2> QED BY <2>1 DEF ShiftregParams
<1>6. /\ wr_full' = (Shiftreg(u)!Count' = u.depth)
      /\ almost_full' = (Shiftreg(u)!Count' >= u.depth - u.almost_full)
  <2>1. /\ wr_full' = (rst_done /\ (~rst_done \/ Shiftreg(u)!Count = u.depth))
        /\ almost_full' =
             (rst_done /\ (~rst_done \/ Shiftreg(u)!Count >= u.depth - u.almost_full))
        /\ rst_done \in BOOLEAN
    BY Zenon DEF Shiftreg!IInv, Shiftreg!Even
  <2> QED BY <1>2, <1>5, <2>1
<1>7. almost_empty' = (Shiftreg(u)!Count' <= u.almost_empty)
  BY <1>2, <1>3 DEF Shiftreg!IInv
<1>8. Shiftreg(u)!EMPTY' = Shiftreg(u)!EMPTY
  BY DEF Shiftreg!EMPTY
<1> QED BY <1>1, <1>3, <1>4, <1>6, <1>7, <1>8 DEF Shiftreg!IInv

LEMMA ShiftregClkInv ==
  ASSUME NEW u \in Of("shiftreg"), ShiftregParams(u), Shiftreg(u)!IInv,
         NEW push \in BOOLEAN, NEW pop \in BOOLEAN, NEW d \in Data,
         Shiftreg(u)!Clk(push, d, pop)
  PROVE  Shiftreg(u)!IInv'
<1>1. CASE Shiftreg(u)!Reset
  BY <1>1, ShiftregResetInv DEF Shiftreg!Clk
<1>2. CASE Shiftreg(u)!Running(push, pop)
  <2>0. Shiftreg(u)!Shift(push, d) /\ Shiftreg(u)!Legal(push, pop) /\ rst_done' = TRUE
    BY <1>2 DEF Shiftreg!Clk, Shiftreg!Running
  <2>1. CASE push /\ ~pop
    <3>1. push = TRUE /\ pop = FALSE
      BY <2>1
    <3> QED BY <1>2, <2>0, <3>1, ShiftregIncInv DEF Shiftreg!Running
  <2>2. CASE ~push /\ pop
    <3>1. push = FALSE /\ pop = TRUE
      BY <2>2
    <3> QED BY <1>2, <2>0, <3>1, ShiftregDecInv DEF Shiftreg!Running
  <2>3. CASE push = pop
    <3>1. Shiftreg(u)!Legal(push, push)
      BY <2>0, <2>3
    <3> QED BY <1>2, <2>0, <2>3, <3>1, ShiftregEvenInv DEF Shiftreg!Running
  <2> QED BY <2>1, <2>2, <2>3
<1> QED BY <1>1, <1>2 DEF Shiftreg!Clk

LEMMA ShiftregNextInv ==
  ASSUME NEW u \in Of("shiftreg"), ShiftregParams(u), Shiftreg(u)!IInv, Shiftreg(u)!Next
  PROVE  Shiftreg(u)!IInv'
  BY ShiftregClkInv DEF Shiftreg!Next

--------------------------------------------------------------------------------
(* The contents as a sequence, the newest word at address 0.               *)
Oldest(m, n) == [i \in 1..n |-> m[n - i]]

(* A word shifted in from below is a word appended. *)
LEMMA PushAppends ==
  ASSUME NEW n \in Nat, NEW m, NEW m2, NEW d \in Data,
         \A i \in 0..n-1 : m[i] \in Data,
         m2[0] = d, \A i \in 1..n : m2[i] = m[i-1]
  PROVE  Oldest(m2, n + 1) = Append(Oldest(m, n), d)
<1>1. Oldest(m, n) \in Seq(Data) /\ Len(Oldest(m, n)) = n
  <2>1. \A i \in 1..n : m[n - i] \in Data
    OBVIOUS
  <2>2. Oldest(m, n) \in [1..n -> Data]
    BY <2>1 DEF Oldest
  <2> QED BY <2>2
<1>2. \A i \in 1..n+1 : m2[n + 1 - i] \in Data
  <2>1. \A i \in 1..n : n + 1 - i \in 1..n /\ n + 1 - i - 1 \in 0..n-1
    OBVIOUS
  <2>2. \A i \in 1..n : m2[n + 1 - i] = m[n + 1 - i - 1]
    BY <2>1
  <2>3. n + 1 - (n + 1) = 0
    OBVIOUS
  <2> QED BY <2>1, <2>2, <2>3
<1>3. Oldest(m2, n + 1) \in [1..n+1 -> Data]
  BY <1>2 DEF Oldest
<1>4. Oldest(m2, n + 1) \in Seq(Data) /\ Len(Oldest(m2, n + 1)) = n + 1
  BY <1>3
<1>5. /\ Append(Oldest(m, n), d) \in Seq(Data)
      /\ Len(Append(Oldest(m, n), d)) = n + 1
  BY <1>1
<1>6. ASSUME NEW i \in 1..n+1
      PROVE  Oldest(m2, n + 1)[i] = Append(Oldest(m, n), d)[i]
  <2>1. Oldest(m2, n + 1)[i] = m2[n + 1 - i]
    BY DEF Oldest
  <2>2. CASE i = n + 1
    <3>1. Append(Oldest(m, n), d)[i] = d
      BY <1>1, <2>2
    <3>2. n + 1 - i = 0
      BY <2>2
    <3> QED BY <2>1, <3>1, <3>2
  <2>3. CASE i # n + 1
    <3>1. i \in 1..n /\ n + 1 - i \in 1..n /\ n + 1 - i - 1 = n - i
      BY <2>3
    <3>2. Append(Oldest(m, n), d)[i] = Oldest(m, n)[i]
      BY <1>1, <3>1
    <3>3. Oldest(m, n)[i] = m[n - i]
      BY <3>1 DEF Oldest
    <3>4. m2[n + 1 - i] = m[n - i]
      BY <3>1
    <3> QED BY <2>1, <3>2, <3>3, <3>4
  <2> QED BY <2>2, <2>3
<1> QED BY <1>4, <1>5, <1>6, SeqEqual

(* The oldest word leaves when the count falls by one. *)
LEMMA PopTakesHead ==
  ASSUME NEW n \in Nat, n > 0, NEW m, \A i \in 0..n-1 : m[i] \in Data
  PROVE  Tail(Oldest(m, n)) = Oldest(m, n - 1)
<1>1. Oldest(m, n) \in Seq(Data) /\ Len(Oldest(m, n)) = n
  <2>1. \A i \in 1..n : m[n - i] \in Data
    OBVIOUS
  <2>2. Oldest(m, n) \in [1..n -> Data]
    BY <2>1 DEF Oldest
  <2> QED BY <2>2
<1>2. Oldest(m, n - 1) \in Seq(Data) /\ Len(Oldest(m, n - 1)) = n - 1
  <2>1. \A i \in 1..n-1 : m[n - 1 - i] \in Data
    OBVIOUS
  <2>2. Oldest(m, n - 1) \in [1..n-1 -> Data]
    BY <2>1 DEF Oldest
  <2> QED BY <2>2
<1>3. Oldest(m, n) # << >>
  BY <1>1
<1>4. /\ Tail(Oldest(m, n)) \in Seq(Data) /\ Len(Tail(Oldest(m, n))) = n - 1
      /\ \A i \in 1..n-1 : Tail(Oldest(m, n))[i] = Oldest(m, n)[i + 1]
  BY <1>1, <1>3
<1>5. ASSUME NEW i \in 1..n-1
      PROVE  Tail(Oldest(m, n))[i] = Oldest(m, n - 1)[i]
  <2>1. Oldest(m, n)[i + 1] = m[n - (i + 1)]
    BY DEF Oldest
  <2>2. Oldest(m, n - 1)[i] = m[n - 1 - i]
    BY DEF Oldest
  <2>3. n - (i + 1) = n - 1 - i
    OBVIOUS
  <2> QED BY <1>4, <2>1, <2>2, <2>3
<1> QED BY <1>2, <1>4, <1>5, SeqEqual

LEMMA ShiftregContentsType ==
  ASSUME NEW u \in Of("shiftreg"), ShiftregParams(u), Shiftreg(u)!IInv
  PROVE  /\ Shiftreg(u)!Count \in 0..u.depth
         /\ Shiftreg(u)!Contents = Oldest(mem, Shiftreg(u)!Count)
         /\ \A i \in 0..Shiftreg(u)!Count-1 : mem[i] \in Data
         /\ rd_empty = (Shiftreg(u)!Count = 0)
<1>1. Shiftreg(u)!Count \in 0..u.depth
  BY ShiftregCountType
<1>2. Shiftreg(u)!Contents = Oldest(mem, Shiftreg(u)!Count)
  BY DEF Shiftreg!Contents, Oldest
<1>3. /\ rd_empty => Shiftreg(u)!Count = 0
      /\ ~rd_empty => /\ Shiftreg(u)!Count = rd_addr + 1 /\ Shiftreg(u)!Count # 0
                      /\ \A i \in 0..rd_addr : mem[i] \in Data
  BY DEF Shiftreg!IInv, Shiftreg!Count, ShiftregParams
<1>4. \A i \in 0..Shiftreg(u)!Count-1 : mem[i] \in Data
  <2>1. CASE rd_empty
    BY <1>3, <2>1
  <2>2. CASE ~rd_empty
    <3>1. Shiftreg(u)!Count - 1 = rd_addr
      BY <1>3, <2>2 DEF Shiftreg!IInv
    <3> QED BY <1>3, <2>2, <3>1
  <2> QED BY <2>1, <2>2
<1>5. rd_empty = (Shiftreg(u)!Count = 0)
  <2>1. rd_empty \in BOOLEAN
    BY DEF Shiftreg!IInv
  <2> QED BY <1>3, <2>1
<1> QED BY <1>1, <1>2, <1>4, <1>5

(* After a cycle out of reset the flags are the ones the abstract FIFO has. *)
LEMMA ShiftregFlagsAgree ==
  ASSUME NEW u \in Of("shiftreg"), ShiftregParams(u), Shiftreg(u)!IInv',
         rst_done' = TRUE, NEW push \in BOOLEAN
  PROVE  Shiftreg(u)!Fifo!Flags(push)
<1>1. /\ Shiftreg(u)!Count' \in 0..u.depth
      /\ \A i \in 0..Shiftreg(u)!Count'-1 : mem'[i] \in Data
      /\ rd_empty' = (Shiftreg(u)!Count' = 0)
  <2>1. /\ rd_empty' \in BOOLEAN /\ rd_addr' \in 0..Shiftreg(u)!SIZE-1
        /\ ~rd_empty' => /\ rd_addr' \in 0..u.depth-1
                         /\ \A i \in 0..rd_addr' : mem'[i] \in Data
    BY DEF Shiftreg!IInv
  <2>2. CASE rd_empty'
    <3>1. Shiftreg(u)!Count' = 0 /\ rd_empty' = TRUE
      BY <2>1, <2>2 DEF Shiftreg!Count
    <3>2. rd_empty' = (Shiftreg(u)!Count' = 0)
      BY <3>1
    <3>3. /\ Shiftreg(u)!Count' \in 0..u.depth
          /\ \A i \in 0..Shiftreg(u)!Count'-1 : mem'[i] \in Data
      BY <3>1 DEF ShiftregParams
    <3> QED BY <3>2, <3>3
  <2>3. CASE ~rd_empty'
    <3>0. rd_addr' \in 0..u.depth-1
      BY <2>1, <2>3
    <3>1. Shiftreg(u)!Count' = rd_addr' + 1
      BY <2>3 DEF Shiftreg!Count
    <3>2. /\ Shiftreg(u)!Count' \in 0..u.depth
          /\ Shiftreg(u)!Count' # 0
          /\ Shiftreg(u)!Count' - 1 = rd_addr'
      <4>1. \A a \in 0..u.depth-1 : a + 1 \in 0..u.depth /\ a + 1 # 0 /\ (a + 1) - 1 = a
        BY DEF ShiftregParams
      <4> QED BY <3>0, <3>1, <4>1
    <3>3. rd_empty' = (Shiftreg(u)!Count' = 0)
      BY <2>1, <2>3, <3>2
    <3> QED BY <2>1, <2>3, <3>2, <3>3
  <2> QED BY <2>2, <2>3
<1>2. Len(Shiftreg(u)!Contents') = Shiftreg(u)!Count'
  <2>1. Shiftreg(u)!Contents' =
          [i \in 1..Shiftreg(u)!Count' |-> mem'[Shiftreg(u)!Count' - i]]
    BY DEF Shiftreg!Contents
  <2>0. \A i \in 1..Shiftreg(u)!Count' :
          Shiftreg(u)!Count' - i \in 0..Shiftreg(u)!Count'-1
    <3>1. \A c \in Nat : \A i \in 1..c : c - i \in 0..c-1
      OBVIOUS
    <3>2. Shiftreg(u)!Count' \in Nat
      BY <1>1 DEF ShiftregParams
    <3> QED BY <3>1, <3>2
  <2>2. \A i \in 1..Shiftreg(u)!Count' : mem'[Shiftreg(u)!Count' - i] \in Data
    BY <1>1, <2>0
  <2>3. Shiftreg(u)!Contents' \in [1..Shiftreg(u)!Count' -> Data]
    BY <2>1, <2>2
  <2> QED BY <1>1, <2>3
<1>3. /\ wr_full' = (Shiftreg(u)!Count' = u.depth)
      /\ almost_full' = (Shiftreg(u)!Count' >= u.depth - u.almost_full)
      /\ almost_empty' = (Shiftreg(u)!Count' <= u.almost_empty)
  <2>1. /\ wr_full' = (~rst_done' \/ Shiftreg(u)!Count' = u.depth)
        /\ almost_full' = (~rst_done' \/ Shiftreg(u)!Count' >= u.depth - u.almost_full)
        /\ almost_empty' = (Shiftreg(u)!Count' <= u.almost_empty)
    BY Zenon DEF Shiftreg!IInv
  <2> QED BY <2>1
<1>4. Shiftreg(u)!wr_almost_full' = (Shiftreg(u)!Count' >= u.depth - u.almost_full)
  <2>1. CASE u.almost_full = 0
    <3>1. Shiftreg(u)!wr_almost_full' = wr_full'
      BY <2>1 DEF Shiftreg!wr_almost_full
    <3>2. (Shiftreg(u)!Count' = u.depth) = (Shiftreg(u)!Count' >= u.depth - u.almost_full)
      BY <1>1, <2>1 DEF ShiftregParams
    <3> QED BY <1>3, <3>1, <3>2
  <2>2. CASE u.almost_full # 0
    <3>1. Shiftreg(u)!wr_almost_full' = almost_full'
      BY <2>2 DEF Shiftreg!wr_almost_full
    <3> QED BY <1>3, <3>1
  <2> QED BY <2>1, <2>2
<1>5. Shiftreg(u)!rd_almost_empty' = (rd_empty' \/ Shiftreg(u)!Count' <= u.almost_empty)
  <2>1. (Shiftreg(u)!Count' = 0 \/ Shiftreg(u)!Count' <= u.almost_empty)
          = (Shiftreg(u)!Count' <= u.almost_empty)
    BY <1>1 DEF ShiftregParams
  <2>2. CASE u.almost_empty = 0
    <3>1. Shiftreg(u)!rd_almost_empty' = rd_empty'
      BY <2>2 DEF Shiftreg!rd_almost_empty
    <3>2. (Shiftreg(u)!Count' = 0) = (Shiftreg(u)!Count' <= u.almost_empty)
      BY <1>1, <2>2 DEF ShiftregParams
    <3> QED BY <1>1, <2>1, <3>1, <3>2
  <2>3. CASE u.almost_empty # 0
    <3>1. Shiftreg(u)!rd_almost_empty' = almost_empty'
      BY <2>3 DEF Shiftreg!rd_almost_empty
    <3> QED BY <1>1, <1>3, <2>1, <3>1
  <2> QED BY <2>2, <2>3
<1>6. rd_empty' \in BOOLEAN
  BY DEF Shiftreg!IInv
<1>7. Len(Shiftreg(u)!Contents') = 0 => rd_empty'
  BY <1>1, <1>2
<1> QED BY <1>1, <1>2, <1>3, <1>4, <1>5, <1>6, <1>7 DEF Shiftreg!Fifo!Flags

(* The words move as in the abstract queue. *)
LEMMA ShiftregWordsMove ==
  ASSUME NEW u \in Of("shiftreg"), ShiftregParams(u), Shiftreg(u)!IInv,
         NEW push \in BOOLEAN, NEW pop \in BOOLEAN, NEW d \in Data,
         Shiftreg(u)!Running(push, pop), Shiftreg(u)!Shift(push, d)
  PROVE  LET rest == IF pop THEN Tail(Shiftreg(u)!Contents) ELSE Shiftreg(u)!Contents
         IN  Shiftreg(u)!Contents' = IF push THEN Append(rest, d) ELSE rest
<1> DEFINE n == Shiftreg(u)!Count
<1>1. /\ n \in 0..u.depth /\ Shiftreg(u)!Contents = Oldest(mem, n)
      /\ \A i \in 0..n-1 : mem[i] \in Data
      /\ rd_empty = (n = 0)
  BY ShiftregContentsType
<1>2. Shiftreg(u)!Contents' = Oldest(mem', Shiftreg(u)!Count')
  BY DEF Shiftreg!Contents, Oldest
<1>3. /\ ~push => mem' = mem
      /\ push => mem'[0] = d /\ \A i \in 1..u.depth-1 : mem'[i] = mem[i-1]
  BY ShiftregShiftCells
<1>4. Shiftreg(u)!Legal(push, pop)
  BY DEF Shiftreg!Running
<1>5. CASE push /\ ~pop
  <2>1. push = TRUE /\ pop = FALSE
    BY <1>5
  <2>2. Shiftreg(u)!Inc
    BY <1>5 DEF Shiftreg!Running
  <2>3. n < u.depth /\ Shiftreg(u)!Count' = n + 1
    BY <1>4, <2>1, <2>2, ShiftregIncCount
  <2>4. \A i \in 1..n : mem'[i] = mem[i-1]
    BY <1>1, <1>3, <1>5, <2>3 DEF ShiftregParams
  <2>5. n \in Nat /\ mem'[0] = d
    BY <1>1, <1>3, <1>5
  <2> HIDE DEF n
  <2>6. Oldest(mem', n + 1) = Append(Oldest(mem, n), d)
    BY <1>1, <2>4, <2>5, PushAppends
  <2> QED BY <1>1, <1>2, <1>5, <2>3, <2>6
<1>6. CASE ~push /\ pop
  <2>1. push = FALSE /\ pop = TRUE
    BY <1>6
  <2>2. Shiftreg(u)!Dec
    BY <1>6 DEF Shiftreg!Running
  <2>3. n > 0 /\ Shiftreg(u)!Count' = n - 1 /\ n \in Nat
    <3>1. /\ Shiftreg(u)!Count' = rd_addr
          /\ Shiftreg(u)!Count = rd_addr + 1
          /\ rd_addr \in 0..u.depth-1
      BY <1>4, <2>1, <2>2, ShiftregDecCount
    <3> QED BY <3>1 DEF ShiftregParams
  <2> HIDE DEF n
  <2>4. Tail(Oldest(mem, n)) = Oldest(mem, n - 1)
    BY <1>1, <2>3, PopTakesHead
  <2> QED BY <1>1, <1>2, <1>3, <1>6, <2>3, <2>4
<1>7. CASE push /\ pop
  <2>1. Shiftreg(u)!Even
    BY <1>7 DEF Shiftreg!Running
  <2>2. Shiftreg(u)!Count' = n
    BY <2>1, ShiftregEvenCount
  <2>3. n \in Nat /\ n > 0 /\ n <= u.depth
    <3>1. rd_empty = FALSE
      BY <1>4, <1>7 DEF Shiftreg!Legal, Shiftreg!IInv
    <3>2. n # 0
      BY <1>1, <3>1
    <3> QED BY <1>1, <3>2 DEF ShiftregParams
  <2>4. /\ n - 1 \in Nat /\ mem'[0] = d /\ (n - 1) + 1 = n
        /\ \A i \in 1..n-1 : mem'[i] = mem[i-1]
        /\ \A i \in 0..(n-1)-1 : mem[i] \in Data
    BY <1>1, <1>3, <1>7, <2>3 DEF ShiftregParams
  <2> HIDE DEF n
  <2>5. Oldest(mem', n) = Append(Oldest(mem, n - 1), d)
    BY <2>4, PushAppends
  <2>6. Tail(Oldest(mem, n)) = Oldest(mem, n - 1)
    BY <1>1, <2>3, PopTakesHead
  <2> QED BY <1>1, <1>2, <1>7, <2>2, <2>5, <2>6
<1>8. CASE ~push /\ ~pop
  <2>1. Shiftreg(u)!Even
    BY <1>8 DEF Shiftreg!Running
  <2> QED BY <1>1, <1>2, <1>3, <1>8, <2>1, ShiftregEvenCount
<1> QED BY <1>5, <1>6, <1>7, <1>8

LEMMA ShiftregStepMaps ==
  ASSUME NEW u \in Of("shiftreg"), ShiftregParams(u), Shiftreg(u)!IInv,
         Shiftreg(u)!IInv'
  PROVE  Shiftreg(u)!FifoEdge
<1>1. ASSUME Shiftreg(u)!Reset PROVE Shiftreg(u)!Fifo!Reset
  <2>1. Shiftreg(u)!Contents' = << >>
    BY <1>1, ShiftregResetCount DEF Shiftreg!Contents
  <2> QED BY <1>1, <2>1 DEF Shiftreg!Fifo!Reset, Shiftreg!Reset,
             Shiftreg!rd_almost_empty, Shiftreg!wr_almost_full
<1>2. ASSUME NEW push \in BOOLEAN, NEW pop \in BOOLEAN, NEW d \in Data,
             Shiftreg(u)!Clk(push, d, pop), Shiftreg(u)!Running(push, pop)
      PROVE  Shiftreg(u)!Fifo!Clk(push, d, pop)
  <2>1. Shiftreg(u)!Shift(push, d) /\ rst_done' = TRUE
    BY <1>2 DEF Shiftreg!Clk, Shiftreg!Running
  <2>2. Shiftreg(u)!Fifo!Flags(push)
    BY <2>1, ShiftregFlagsAgree
  <2>3. Shiftreg(u)!Fifo!Legal(push, pop)
    BY <1>2 DEF Shiftreg!Running, Shiftreg!Legal, Shiftreg!Fifo!Legal
  <2> QED BY <1>2, <2>1, <2>2, <2>3, ShiftregWordsMove DEF Shiftreg!Fifo!Clk
<1> QED BY <1>1, <1>2 DEF Shiftreg!FifoEdge

LEMMA ShiftregInitMaps ==
  ASSUME NEW u \in Of("shiftreg"), ShiftregParams(u), Shiftreg(u)!Init
  PROVE  Shiftreg(u)!Fifo!Init
<1>1. Shiftreg(u)!Contents = << >>
  BY DEF Shiftreg!Init, Shiftreg!Contents, Shiftreg!Count
<1> QED BY <1>1 DEF Shiftreg!Init, Shiftreg!Fifo!Init, Shiftreg!rd_almost_empty,
           Shiftreg!wr_almost_full

--------------------------------------------------------------------------------
(* dlsc_fifo_counter, of any unit that has its parameters. *)

CounterParams(u) ==
    /\ u.depth \in Nat /\ u.depth >= 1
    /\ u.almost_full \in Nat /\ u.almost_full < u.depth
    /\ u.almost_empty \in Nat /\ u.almost_empty < u.depth
    /\ u.fast_flags \in BOOLEAN /\ u.full_in_reset \in BOOLEAN

LEMMA CounterBounds ==
  ASSUME NEW u, Counter(u)!FifoCounterAssumption
  PROVE  CounterParams(u)
  BY DEF CounterParams, Counter!FifoCounterAssumption

LEMMA CounterInit ==
  ASSUME NEW u, CounterParams(u), Counter(u)!CntInit
  PROVE  Counter(u)!CntInv
<1>1. cnt = 0 /\ cnt \in 0..u.depth /\ free = u.depth - cnt
  BY DEF CounterParams, Counter!CntInit
<1>2. (0 = u.depth) = FALSE /\ (0 >= u.depth - u.almost_full) = FALSE
      /\ (0 <= u.almost_empty) = TRUE
  BY DEF CounterParams
<1>3. /\ rd_empty = TRUE /\ almost_empty = TRUE
      /\ wr_full = u.full_in_reset /\ almost_full = u.full_in_reset
      /\ rst_done = ~u.full_in_reset /\ u.full_in_reset \in BOOLEAN
  BY DEF Counter!CntInit, CounterParams
<1> QED BY <1>1, <1>2, <1>3, Zenon DEF Counter!CntInv

LEMMA CounterReset ==
  ASSUME NEW u, CounterParams(u), Counter(u)!CntReset
  PROVE  Counter(u)!CntInv'
<1>1. cnt' = 0 /\ cnt' \in 0..u.depth /\ free' = u.depth - cnt'
  BY DEF CounterParams, Counter!CntReset
<1>2. (0 = u.depth) = FALSE /\ (0 >= u.depth - u.almost_full) = FALSE
      /\ (0 <= u.almost_empty) = TRUE
  BY DEF CounterParams
<1>3. /\ rd_empty' = TRUE /\ almost_empty' = TRUE
      /\ wr_full' = u.full_in_reset /\ almost_full' = u.full_in_reset
      /\ rst_done' = ~u.full_in_reset /\ u.full_in_reset \in BOOLEAN
  BY DEF Counter!CntReset, CounterParams
<1> QED BY <1>1, <1>2, <1>3, Zenon DEF Counter!CntInv

(* The count and the empty flag, which need no other register. *)
LEMMA CounterCount ==
  ASSUME NEW u, CounterParams(u), Counter(u)!CntInv,
         NEW push \in BOOLEAN, NEW pop \in BOOLEAN, Counter(u)!CntRunning(push, pop)
  PROVE  /\ push /\ ~pop => cnt < u.depth /\ rst_done
         /\ pop => cnt > 0 /\ ~rd_empty /\ rst_done
         /\ cnt' = IF push /\ ~pop THEN cnt + 1 ELSE IF pop /\ ~push THEN cnt - 1 ELSE cnt
         /\ cnt \in 0..u.depth /\ cnt' \in 0..u.depth
         /\ free' = u.depth - cnt'
         /\ rd_empty' \in BOOLEAN
         /\ cnt' = 0 => rd_empty'
         /\ rd_empty' => cnt' = 0 \/ (~u.fast_flags /\ cnt' = 1 /\ push)
<1>1. /\ cnt \in 0..u.depth /\ free = u.depth - cnt
      /\ rd_empty \in BOOLEAN /\ rst_done \in BOOLEAN
      /\ cnt = 0 => rd_empty
      /\ rd_empty => cnt = 0 \/ (~u.fast_flags /\ cnt = 1)
      /\ ~rst_done => cnt = 0
  BY DEF Counter!CntInv
<1>2. wr_full = (~rst_done \/ cnt = u.depth)
  BY Zenon DEF Counter!CntInv
<1>3. /\ push /\ ~pop => cnt < u.depth /\ rst_done
      /\ pop => cnt > 0 /\ ~rd_empty /\ rst_done
  <2>1. (push /\ ~pop => ~wr_full) /\ (pop => ~rd_empty)
    BY DEF Counter!CntRunning, Counter!Legal
  <2> QED BY <1>1, <1>2, <2>1 DEF CounterParams
<1>4. /\ cnt' = IF push /\ ~pop THEN cnt + 1 ELSE IF pop /\ ~push THEN cnt - 1 ELSE cnt
      /\ free' = IF push /\ ~pop THEN free - 1 ELSE IF pop /\ ~push THEN free + 1 ELSE free
  BY DEF Counter!CntRunning, Counter!Inc, Counter!Dec, Counter!Even
<1>5. cnt' \in 0..u.depth /\ free' = u.depth - cnt'
  BY <1>1, <1>3, <1>4 DEF CounterParams
<1>6. rd_empty' = Counter(u)!EmptyNext(push, pop)
  BY DEF Counter!CntRunning
<1>7. /\ rd_empty' \in BOOLEAN
      /\ cnt' = 0 => rd_empty'
      /\ rd_empty' => cnt' = 0 \/ (~u.fast_flags /\ cnt' = 1 /\ push)
  <2>1. CASE u.fast_flags
    <3>1. rd_empty' = (IF push = pop THEN rd_empty ELSE pop /\ cnt = 1)
      BY <1>6, <2>1 DEF Counter!EmptyNext
    <3> QED BY <1>1, <1>3, <1>4, <2>1, <3>1
  <2>2. CASE ~u.fast_flags
    <3>1. rd_empty' = (IF cnt = 1 THEN pop ELSE rd_empty)
      BY <1>6, <2>2 DEF Counter!EmptyNext
    <3> QED BY <1>1, <1>3, <1>4, <2>2, <3>1
  <2> QED BY <2>1, <2>2 DEF CounterParams
<1> QED BY <1>1, <1>3, <1>4, <1>5, <1>7

LEMMA CounterRunning ==
  ASSUME NEW u, CounterParams(u), Counter(u)!CntInv,
         NEW push \in BOOLEAN, NEW pop \in BOOLEAN, Counter(u)!CntRunning(push, pop)
  PROVE  Counter(u)!CntInv'
<1>1. /\ push /\ ~pop => cnt < u.depth /\ rst_done
      /\ pop => cnt > 0 /\ rst_done
      /\ cnt \in 0..u.depth
      /\ cnt' = IF push /\ ~pop THEN cnt + 1 ELSE IF pop /\ ~push THEN cnt - 1 ELSE cnt
  BY CounterCount
<1>2. /\ cnt' \in 0..u.depth /\ free' = u.depth - cnt' /\ rd_empty' \in BOOLEAN
      /\ cnt' = 0 => rd_empty'
      /\ rd_empty' => cnt' = 0 \/ (~u.fast_flags /\ cnt' = 1)
  BY CounterCount
<1>3. /\ almost_empty = (cnt <= u.almost_empty)
      /\ wr_full = (~rst_done \/ cnt = u.depth)
      /\ almost_full = (~rst_done \/ cnt >= u.depth - u.almost_full)
      /\ ~rst_done => cnt = 0
      /\ rst_done \in BOOLEAN
  BY Zenon DEF Counter!CntInv
<1>4. rst_done' = TRUE
  BY DEF Counter!CntRunning
<1>5. /\ almost_empty' = (cnt' <= u.almost_empty)
      /\ wr_full' = (cnt' = u.depth)
      /\ almost_full' = (cnt' >= u.depth - u.almost_full)
  <2>1. CASE push /\ ~pop
    <3>1. /\ wr_full' = (cnt = u.depth - 1)
          /\ almost_empty' = (cnt <= u.almost_empty /\ cnt # u.almost_empty)
          /\ almost_full' = (cnt >= u.depth - u.almost_full
                               \/ cnt = u.depth - u.almost_full - 1)
      <4>1. Counter(u)!Inc
        BY <2>1 DEF Counter!CntRunning
      <4>2. rst_done = TRUE
        BY <1>1, <1>3, <2>1
      <4> QED BY <1>3, <4>1, <4>2, Zenon DEF Counter!Inc
    <3>2. cnt' = cnt + 1
      BY <1>1, <2>1
    <3> QED BY <1>1, <3>1, <3>2 DEF CounterParams
  <2>2. CASE ~push /\ pop
    <3>1. /\ wr_full' = FALSE
          /\ almost_empty' = (cnt <= u.almost_empty \/ cnt = u.almost_empty + 1)
          /\ almost_full' = (cnt >= u.depth - u.almost_full
                               /\ cnt # u.depth - u.almost_full)
      <4>1. Counter(u)!Dec
        BY <2>2 DEF Counter!CntRunning
      <4>2. rst_done = TRUE
        BY <1>1, <1>3, <2>2
      <4> QED BY <1>3, <4>1, <4>2, Zenon DEF Counter!Dec
    <3>2. cnt' = cnt - 1
      BY <1>1, <2>2
    <3>3. /\ FALSE = (cnt - 1 = u.depth)
          /\ (cnt <= u.almost_empty \/ cnt = u.almost_empty + 1) = (cnt - 1 <= u.almost_empty)
          /\ (cnt >= u.depth - u.almost_full /\ cnt # u.depth - u.almost_full)
               = (cnt - 1 >= u.depth - u.almost_full)
      BY <1>1 DEF CounterParams
    <3> QED BY <3>1, <3>2, <3>3
  <2>3. CASE push = pop
    <3>1. /\ wr_full' = (rst_done /\ (~rst_done \/ cnt = u.depth))
          /\ almost_empty' = (cnt <= u.almost_empty)
          /\ almost_full' = (rst_done /\ (~rst_done \/ cnt >= u.depth - u.almost_full))
          /\ cnt' = cnt
      <4>1. Counter(u)!Even
        BY <2>3 DEF Counter!CntRunning
      <4> QED BY <1>3, <4>1, Zenon DEF Counter!Even
    <3>2. ~rst_done => ~(cnt = u.depth) /\ ~(cnt >= u.depth - u.almost_full)
      BY <1>3 DEF CounterParams
    <3>3. /\ wr_full' = (cnt = u.depth)
          /\ almost_full' = (cnt >= u.depth - u.almost_full)
      BY <1>3, <3>1, <3>2
    <3> QED BY <3>1, <3>3
  <2> QED BY <2>1, <2>2, <2>3
<1>6. almost_empty' \in BOOLEAN /\ wr_full' \in BOOLEAN /\ almost_full' \in BOOLEAN
  BY <1>5
<1> QED BY <1>2, <1>4, <1>5, <1>6, Zenon DEF Counter!CntInv

(* After a cycle out of reset the flags are the ones the abstract FIFO has. *)
LEMMA CounterFlags ==
  ASSUME NEW u, CounterParams(u), Counter(u)!CntInv,
         NEW push \in BOOLEAN, NEW pop \in BOOLEAN, Counter(u)!CntRunning(push, pop)
  PROVE  /\ wr_full' = (cnt' = u.depth)
         /\ Counter(u)!wr_almost_full' = (cnt' >= u.depth - u.almost_full)
         /\ rd_empty' \in BOOLEAN
         /\ cnt' = 0 => rd_empty'
         /\ u.fast_flags \/ cnt' > 1 \/ ~push => rd_empty' = (cnt' = 0)
         /\ Counter(u)!rd_almost_empty' = (rd_empty' \/ cnt' <= u.almost_empty)
<1>1. /\ cnt' \in 0..u.depth /\ rd_empty' \in BOOLEAN
      /\ cnt' = 0 => rd_empty'
      /\ rd_empty' => cnt' = 0 \/ (~u.fast_flags /\ cnt' = 1 /\ push)
  BY CounterCount
<1>2. /\ wr_full' = (cnt' = u.depth)
      /\ almost_full' = (cnt' >= u.depth - u.almost_full)
      /\ almost_empty' = (cnt' <= u.almost_empty)
  <2>1. /\ wr_full' = (~rst_done' \/ cnt' = u.depth)
        /\ almost_full' = (~rst_done' \/ cnt' >= u.depth - u.almost_full)
        /\ almost_empty' = (cnt' <= u.almost_empty)
    BY CounterRunning, Zenon DEF Counter!CntInv
  <2>2. rst_done' = TRUE
    BY DEF Counter!CntRunning
  <2> QED BY <2>1, <2>2
<1>3. Counter(u)!wr_almost_full' = (cnt' >= u.depth - u.almost_full)
  <2>1. Counter(u)!wr_almost_full' = IF u.almost_full = 0 THEN wr_full' ELSE almost_full'
    BY DEF Counter!wr_almost_full
  <2> QED BY <1>1, <1>2, <2>1 DEF CounterParams
<1>4. Counter(u)!rd_almost_empty' = (rd_empty' \/ cnt' <= u.almost_empty)
  <2>1. Counter(u)!rd_almost_empty' = IF u.almost_empty = 0 THEN rd_empty' ELSE almost_empty'
    BY DEF Counter!rd_almost_empty
  <2> QED BY <1>1, <1>2, <2>1 DEF CounterParams
<1>5. u.fast_flags \/ cnt' > 1 \/ ~push => rd_empty' = (cnt' = 0)
  BY <1>1
<1> QED BY <1>1, <1>2, <1>3, <1>4, <1>5

--------------------------------------------------------------------------------
(* dlsc_fifo_counter by itself, as a FIFO of tokens. *)

(* Len(q') of the abstract FIFO, and how tokens move. *)
LEMMA TokensMove ==
  ASSUME NEW n \in Nat
  PROVE  LET Tok(k) == [i \in 1..k |-> 0]
         IN  /\ Len(Tok(n)) = n
             /\ Append(Tok(n), 0) = Tok(n + 1)
             /\ n > 0 => Tail(Tok(n)) = Tok(n - 1)
<1> DEFINE Tok(k) == [i \in 1..k |-> 0]
<1>1. \A k \in Nat : Tok(k) \in Seq({0}) /\ Len(Tok(k)) = k
  OBVIOUS
<1>2. Append(Tok(n), 0) = Tok(n + 1)
  <2>1. /\ Append(Tok(n), 0) \in Seq({0}) /\ Len(Append(Tok(n), 0)) = n + 1
        /\ \A i \in 1..n : Append(Tok(n), 0)[i] = 0
        /\ Append(Tok(n), 0)[n + 1] = 0
    BY <1>1, AppendProperties
  <2>2. Tok(n + 1) \in Seq({0}) /\ Len(Tok(n + 1)) = n + 1
    BY <1>1
  <2>3. \A i \in 1..n + 1 : Append(Tok(n), 0)[i] = Tok(n + 1)[i]
    BY <2>1
  <2> QED BY <2>1, <2>2, <2>3, SeqEqual
<1>3. n > 0 => Tail(Tok(n)) = Tok(n - 1)
  <2> SUFFICES ASSUME n > 0 PROVE Tail(Tok(n)) = Tok(n - 1)
    OBVIOUS
  <2>1. Tok(n) \in Seq({0}) /\ Len(Tok(n)) = n /\ Tok(n) # <<>>
    BY <1>1
  <2>2. /\ Tail(Tok(n)) \in Seq({0}) /\ Len(Tail(Tok(n))) = n - 1
        /\ \A i \in 1..n - 1 : Tail(Tok(n))[i] = Tok(n)[i + 1]
    BY <2>1, HeadTailProperties
  <2>3. Tok(n - 1) \in Seq({0}) /\ Len(Tok(n - 1)) = n - 1
    BY <1>1
  <2>4. \A i \in 1..n - 1 : Tail(Tok(n))[i] = Tok(n - 1)[i]
    BY <2>2
  <2> QED BY <2>2, <2>3, <2>4, SeqEqual
<1> QED BY <1>1, <1>2, <1>3

LEMMA CounterMaps ==
  ASSUME NEW u, CounterParams(u), Counter(u)!CntInv
  PROVE  Counter(u)!TokensEdge
<1>1. ASSUME Counter(u)!CntReset PROVE Counter(u)!Tokens!Reset
  <2>1. [i \in 1..cnt' |-> 0] = <<>>
    BY <1>1 DEF Counter!CntReset
  <2> QED BY <1>1, <2>1 DEF Counter!CntReset, Counter!Tokens!Reset,
             Counter!wr_almost_full, Counter!rd_almost_empty
<1>2. ASSUME NEW push \in BOOLEAN, NEW pop \in BOOLEAN, Counter(u)!CntRunning(push, pop)
      PROVE  Counter(u)!Tokens!Clk(push, 0, pop)
  <2>1. /\ pop => cnt > 0
        /\ cnt' = IF push /\ ~pop THEN cnt + 1 ELSE IF pop /\ ~push THEN cnt - 1 ELSE cnt
        /\ cnt \in Nat /\ cnt' \in Nat
    BY <1>2, CounterCount DEF CounterParams
  <2>2. Counter(u)!Tokens!Legal(push, pop)
    BY <1>2 DEF Counter!CntRunning, Counter!Legal, Counter!Tokens!Legal
  <2> DEFINE Tok(k) == [i \in 1..k |-> 0]
             rest == IF pop THEN Tail(Tok(cnt)) ELSE Tok(cnt)
  <2>3. /\ \A k \in Nat : Len(Tok(k)) = k /\ Append(Tok(k), 0) = Tok(k + 1)
        /\ \A k \in Nat : k > 0 => Tail(Tok(k)) = Tok(k - 1)
    BY TokensMove
  <2> HIDE DEF Tok
  <2>4. Tok(cnt') = IF push THEN Append(rest, 0) ELSE rest
    <3>1. CASE push /\ pop
      <4>1. cnt - 1 \in Nat /\ (cnt - 1) + 1 = cnt
        BY <2>1, <3>1
      <4>2. Append(Tok(cnt - 1), 0) = Tok(cnt)
        BY <2>3, <4>1
      <4> QED BY <2>1, <2>3, <3>1, <4>2
    <3>2. CASE push /\ ~pop
      BY <2>1, <2>3, <3>2
    <3>3. CASE ~push /\ pop
      BY <2>1, <2>3, <3>3
    <3>4. CASE ~push /\ ~pop
      BY <2>1, <3>4
    <3> QED BY <3>1, <3>2, <3>3, <3>4
  <2>5. Len(Tok(cnt')) = cnt'
    BY <2>1, <2>3
  <2>6. Counter(u)!Tokens!Flags(push)
    BY <1>2, <2>5, CounterFlags DEF Tok, Counter!Tokens!Flags
  <2> QED BY <2>2, <2>4, <2>6 DEF Tok, Counter!Tokens!Clk
<1> QED BY <1>1, <1>2 DEF Counter!TokensEdge

LEMMA CounterInitMaps ==
  ASSUME NEW u, Counter(u)!CntInit
  PROVE  Counter(u)!Tokens!Init
<1>1. [i \in 1..cnt |-> 0] = <<>>
  BY DEF Counter!CntInit
<1> QED BY <1>1 DEF Counter!CntInit, Counter!Tokens!Init,
           Counter!wr_almost_full, Counter!rd_almost_empty

--------------------------------------------------------------------------------
(* dlsc_fifo_ram *)

(* Addresses of a memory of n cells: the next one, the one k cells on, and *)
(* the one that is written next when there are k words.                    *)
After(n, a) == IF a = n - 1 THEN 0 ELSE a + 1
At(n, a, k) == IF a + k < n THEN a + k ELSE a + k - n
Slot(n, a, k) == IF k = n THEN a ELSE At(n, a, k)

LEMMA CellsApart ==
  ASSUME NEW n \in Nat, NEW a \in 0..n-1
  PROVE  /\ After(n, a) \in 0..n-1
         /\ \A k \in 0..n-1 : At(n, a, k) \in 0..n-1
         /\ At(n, a, 0) = a
         /\ \A j, k \in 0..n-1 : At(n, a, j) = At(n, a, k) => j = k
         /\ \A k \in 0..n-2 : At(n, After(n, a), k) = At(n, a, k + 1)
         /\ \A k \in 0..n : Slot(n, a, k) \in 0..n-1
         /\ \A k \in 0..n-1 : After(n, Slot(n, a, k)) = Slot(n, a, k + 1)
         /\ \A k \in 1..n : Slot(n, After(n, a), k - 1) = Slot(n, a, k)
         /\ \A k \in 1..n-1 : Slot(n, a, k) # a
         /\ \A k \in 2..n : Slot(n, a, k) # After(n, a)
<1>1. After(n, a) \in 0..n-1
  BY DEF After
<1>2. \A k \in 0..n-1 : At(n, a, k) \in 0..n-1
  BY DEF At
<1>3. At(n, a, 0) = a
  BY DEF At
<1>4. \A j, k \in 0..n-1 : At(n, a, j) = At(n, a, k) => j = k
  BY DEF At
<1>5. \A k \in 0..n-2 : At(n, After(n, a), k) = At(n, a, k + 1)
  BY DEF At, After
<1>6. \A k \in 0..n : Slot(n, a, k) \in 0..n-1
  BY DEF Slot, At
<1>7. \A k \in 0..n-1 : After(n, Slot(n, a, k)) = Slot(n, a, k + 1)
  BY DEF Slot, At, After
<1>8. \A k \in 1..n : Slot(n, After(n, a), k - 1) = Slot(n, a, k)
  BY DEF Slot, At, After
<1>9. \A k \in 1..n-1 : Slot(n, a, k) # a
  BY DEF Slot, At
<1>10. \A k \in 2..n : Slot(n, a, k) # After(n, a)
  BY DEF Slot, At, After
<1> QED BY <1>1, <1>2, <1>3, <1>4, <1>5, <1>6, <1>7, <1>8, <1>9, <1>10

(* The k words from address a of the memory m of n cells on. *)
Words(m, n, a, k) == [i \in 1..k |-> m[At(n, a, i - 1)]]

LEMMA WordsType ==
  ASSUME NEW m, NEW n \in Nat, NEW a, NEW k \in Nat,
         \A j \in 0..k-1 : m[At(n, a, j)] \in Data
  PROVE  Words(m, n, a, k) \in Seq(Data) /\ Len(Words(m, n, a, k)) = k
<1>1. \A i \in 1..k : m[At(n, a, i - 1)] \in Data
  OBVIOUS
<1>2. Words(m, n, a, k) \in [1..k -> Data]
  BY <1>1 DEF Words
<1> QED BY <1>2

(* The oldest word leaves when the read address moves on. *)
LEMMA WordsPop ==
  ASSUME NEW m, NEW n \in Nat, NEW a \in 0..n-1, NEW k \in 1..n,
         \A j \in 0..k-1 : m[At(n, a, j)] \in Data
  PROVE  /\ Tail(Words(m, n, a, k)) = Words(m, n, After(n, a), k - 1)
         /\ \A j \in 0..k-2 : m[At(n, After(n, a), j)] \in Data
<1>1. Words(m, n, a, k) \in Seq(Data) /\ Len(Words(m, n, a, k)) = k
  BY WordsType
<1>2. \A j \in 0..k-2 : At(n, After(n, a), j) = At(n, a, j + 1)
  BY CellsApart
<1>3. \A j \in 0..k-2 : m[At(n, After(n, a), j)] \in Data
  BY <1>2
<1>4. /\ Words(m, n, After(n, a), k - 1) \in Seq(Data)
      /\ Len(Words(m, n, After(n, a), k - 1)) = k - 1
  <2>1. k - 1 \in Nat /\ (k - 1) - 1 = k - 2
    OBVIOUS
  <2> QED BY <1>3, <2>1, WordsType
<1>5. /\ Tail(Words(m, n, a, k)) \in Seq(Data) /\ Len(Tail(Words(m, n, a, k))) = k - 1
      /\ \A i \in 1..k-1 : Tail(Words(m, n, a, k))[i] = Words(m, n, a, k)[i + 1]
  <2>1. Words(m, n, a, k) # <<>>
    BY <1>1
  <2> QED BY <1>1, <2>1, HeadTailProperties
<1>6. ASSUME NEW i \in 1..k-1
      PROVE  Words(m, n, a, k)[i + 1] = Words(m, n, After(n, a), k - 1)[i]
  <2>1. Words(m, n, a, k)[i + 1] = m[At(n, a, i)]
    BY DEF Words
  <2>2. Words(m, n, After(n, a), k - 1)[i] = m[At(n, After(n, a), i - 1)]
    BY DEF Words
  <2>3. At(n, After(n, a), i - 1) = At(n, a, i)
    <3>1. i - 1 \in 0..k-2 /\ (i - 1) + 1 = i
      OBVIOUS
    <3> QED BY <1>2, <3>1
  <2> QED BY <2>1, <2>2, <2>3
<1> QED BY <1>3, <1>4, <1>5, <1>6, SeqEqual

(* Those k cells hold words, and m2 is m but for the word d in one cell. *)
Stored(m, n, a, k) == \A j \in 0..k-1 : m[At(n, a, j)] \in Data
Written(m, m2, n, cell, d) ==
    m2[cell] = d /\ \A c \in 0..n-1 : c # cell => m2[c] = m[c]

(* A word written in the next slot is a word appended. *)
LEMMA WordsPush ==
  ASSUME NEW n \in Nat, NEW a \in 0..n-1, NEW k \in 0..n-1,
         NEW m, NEW m2, NEW d \in Data,
         Stored(m, n, a, k), Written(m, m2, n, Slot(n, a, k), d)
  PROVE  /\ Words(m2, n, a, k + 1) = Append(Words(m, n, a, k), d)
         /\ Stored(m2, n, a, k + 1)
<1> USE DEF Stored, Written
<1>1. Words(m, n, a, k) \in Seq(Data) /\ Len(Words(m, n, a, k)) = k
  BY WordsType
<1>2. Slot(n, a, k) = At(n, a, k)
  BY DEF Slot
<1>3. \A j \in 0..k-1 : m2[At(n, a, j)] = m[At(n, a, j)]
  <2>1. ASSUME NEW j \in 0..k-1
        PROVE  At(n, a, j) \in 0..n-1 /\ At(n, a, j) # At(n, a, k)
    <3>1. j \in 0..n-1 /\ j # k
      OBVIOUS
    <3>2. At(n, a, j) \in 0..n-1
      BY <3>1, CellsApart
    <3>3. At(n, a, j) # At(n, a, k)
      BY <3>1 DEF At
    <3> QED BY <3>2, <3>3
  <2> QED BY <1>2, <2>1
<1>4. \A j \in 0..k : m2[At(n, a, j)] \in Data
  <2>1. \A j \in 0..k : j = k \/ j \in 0..k-1
    OBVIOUS
  <2> QED BY <1>2, <1>3, <2>1
<1>5. Words(m2, n, a, k + 1) \in Seq(Data) /\ Len(Words(m2, n, a, k + 1)) = k + 1
  <2>1. k + 1 \in Nat /\ (k + 1) - 1 = k
    OBVIOUS
  <2> QED BY <1>4, <2>1, WordsType
<1>6. /\ Append(Words(m, n, a, k), d) \in Seq(Data)
      /\ Len(Append(Words(m, n, a, k), d)) = k + 1
      /\ \A i \in 1..k : Append(Words(m, n, a, k), d)[i] = Words(m, n, a, k)[i]
      /\ Append(Words(m, n, a, k), d)[k + 1] = d
  BY <1>1, AppendProperties
<1>7. ASSUME NEW i \in 1..k+1
      PROVE  Words(m2, n, a, k + 1)[i] = Append(Words(m, n, a, k), d)[i]
  <2>1. Words(m2, n, a, k + 1)[i] = m2[At(n, a, i - 1)]
    BY DEF Words
  <2>2. CASE i = k + 1
    <3>1. i - 1 = k
      BY <2>2
    <3> QED BY <1>2, <1>6, <2>1, <2>2, <3>1
  <2>3. CASE i # k + 1
    <3>1. i \in 1..k /\ i - 1 \in 0..k-1
      BY <2>3
    <3>2. Words(m, n, a, k)[i] = m[At(n, a, i - 1)]
      BY <3>1 DEF Words
    <3> QED BY <1>3, <1>6, <2>1, <3>1, <3>2
  <2> QED BY <2>2, <2>3
<1> QED BY <1>4, <1>5, <1>6, <1>7, SeqEqual

(* The memory FIFO is the counter with a memory: what the other lemmas use *)
(* of its definitions, in the terms above.                                 *)
RamInv(u) ==
    /\ Counter(u)!CntInv
    /\ mem \in [0..u.depth-1 -> Data \cup {None}]
    /\ out_data \in Data \cup {None}
    /\ rd_addr \in 0..u.depth-1
    /\ wr_addr = Slot(u.depth, rd_addr, cnt)
    /\ \A k \in 0..cnt-1 : mem[At(u.depth, rd_addr, k)] \in Data
    /\ ~u.fast_flags /\ ~rd_empty => out_data = mem[rd_addr]

LEMMA RamInvIs ==
  ASSUME NEW u, CounterParams(u)
  PROVE  Ram(u)!IInv <=> RamInv(u)
<1>1. Ram(u)!CntInv <=> Counter(u)!CntInv
  BY DEF Ram!CntInv, Counter!CntInv
<1>2. Ram(u)!Cells = 0..u.depth-1
  BY DEF Ram!Cells
<1>3. \A k : Ram(u)!CellAt(k) = At(u.depth, rd_addr, k)
  BY DEF Ram!CellAt, At
<1>4. (IF cnt = u.depth THEN rd_addr ELSE Ram(u)!CellAt(cnt)) = Slot(u.depth, rd_addr, cnt)
  BY <1>3 DEF Slot
<1>5. Ram(u)!IInv => RamInv(u)
  BY <1>1, <1>2, <1>3, <1>4 DEF Ram!IInv, RamInv
<1>6. RamInv(u) => Ram(u)!IInv
  <2> SUFFICES ASSUME RamInv(u) PROVE Ram(u)!IInv
    OBVIOUS
  <2>1. cnt \in 0..u.depth /\ rd_addr \in 0..u.depth-1
    BY DEF RamInv, Counter!CntInv
  <2>2. wr_addr \in 0..u.depth-1
    BY <2>1, CellsApart DEF RamInv, CounterParams
  <2> QED BY <1>1, <1>2, <1>3, <1>4, <2>2 DEF Ram!IInv, RamInv
<1> QED BY <1>5, <1>6

LEMMA RamInvIsNext ==
  ASSUME NEW u, CounterParams(u)
  PROVE  Ram(u)!IInv' <=> RamInv(u)'
<1>1. Ram(u)!IInv <=> RamInv(u)
  BY RamInvIs
<1> QED BY <1>1, PTL

LEMMA RamContents ==
  ASSUME NEW u
  PROVE  /\ Ram(u)!Contents = Words(mem, u.depth, rd_addr, cnt)
         /\ Ram(u)!Contents' = Words(mem', u.depth, rd_addr', cnt')
<1>1. \A k : Ram(u)!CellAt(k) = At(u.depth, rd_addr, k)
  BY DEF Ram!CellAt, At
<1>2. \A k : Ram(u)!CellAt(k)' = At(u.depth, rd_addr', k)
  BY DEF Ram!CellAt, At
<1>3. Ram(u)!Contents = Words(mem, u.depth, rd_addr, cnt)
  BY <1>1 DEF Ram!Contents, Words
<1>4. Ram(u)!Contents' = Words(mem', u.depth, rd_addr', cnt')
  BY <1>2 DEF Ram!Contents, Words
<1> QED BY <1>3, <1>4

LEMMA RamInitInv ==
  ASSUME NEW u, CounterParams(u), Ram(u)!Init
  PROVE  RamInv(u) /\ Ram(u)!Fifo!Init
<1>1. Counter(u)!CntInit
  BY DEF Ram!Init, Ram!CntInit, Counter!CntInit
<1>2. /\ Counter(u)!CntInv /\ cnt = 0 /\ rd_empty = TRUE
      /\ mem = [c \in 0..u.depth-1 |-> None] /\ out_data = None
      /\ rd_addr = 0 /\ wr_addr = 0
  BY <1>1, CounterInit DEF Ram!Init, Ram!Cells, Counter!CntInit
<1>3. RamInv(u)
  BY <1>2 DEF RamInv, CounterParams, Slot, At
<1>4. Ram(u)!Contents = <<>>
  BY <1>2 DEF Ram!Contents
<1> QED BY <1>1, <1>3, <1>4 DEF Ram!Fifo!Init, Ram!wr_almost_full, Ram!rd_almost_empty,
       Counter!CntInit

(* The memory and its read register after a cycle. *)
LEMMA RamMemory ==
  ASSUME NEW u, CounterParams(u), RamInv(u),
         NEW push \in BOOLEAN, NEW pop \in BOOLEAN, NEW d \in Data,
         Ram(u)!Memory(push, d, pop)
  PROVE  /\ mem' \in [0..u.depth-1 -> Data \cup {None}]
         /\ ~push => mem' = mem
         /\ push => /\ mem'[wr_addr] = d
                    /\ \A c \in 0..u.depth-1 : c # wr_addr => mem'[c] = mem[c]
         /\ out_data' \in Data \cup {None}
         /\ LET a == IF pop THEN After(u.depth, rd_addr) ELSE rd_addr
            IN  IF u.fast_flags \/ ~(pop \/ (rd_empty /\ cnt = 1)) THEN out_data' = out_data
                ELSE (push /\ wr_addr = a) \/ out_data' = mem[a]
<1> DEFINE a == IF pop THEN After(u.depth, rd_addr) ELSE rd_addr
<1>1. /\ mem \in [0..u.depth-1 -> Data \cup {None}]
      /\ out_data \in Data \cup {None}
      /\ cnt \in 0..u.depth /\ rd_addr \in 0..u.depth-1
      /\ wr_addr \in 0..u.depth-1 /\ a \in 0..u.depth-1
  <2>1. cnt \in 0..u.depth /\ rd_addr \in 0..u.depth-1 /\ u.depth \in Nat
    BY DEF RamInv, Counter!CntInv, CounterParams
  <2>2. wr_addr \in 0..u.depth-1 /\ a \in 0..u.depth-1
    BY <2>1, CellsApart DEF RamInv
  <2> QED BY <2>1, <2>2 DEF RamInv
<1>2. Ram(u)!RdAddrNext(pop) = a
  BY DEF Ram!RdAddrNext, Ram!Succ, After
<1>3. /\ mem' = IF push THEN [mem EXCEPT ![wr_addr] = d] ELSE mem
      /\ IF u.fast_flags \/ ~(pop \/ (rd_empty /\ cnt = 1)) THEN out_data' = out_data
         ELSE IF push /\ wr_addr = a THEN out_data' \in Data \cup {None}
         ELSE out_data' = mem[a]
  BY <1>2 DEF Ram!Memory, Ram!RdEn
<1> HIDE DEF a
<1>4. /\ mem' \in [0..u.depth-1 -> Data \cup {None}]
      /\ ~push => mem' = mem
      /\ push => /\ mem'[wr_addr] = d
                 /\ \A c \in 0..u.depth-1 : c # wr_addr => mem'[c] = mem[c]
  BY <1>1, <1>3
<1>5. mem[a] \in Data \cup {None}
  BY <1>1
<1>6. out_data' \in Data \cup {None}
  BY <1>1, <1>3, <1>5
<1> QED BY <1>3, <1>4, <1>6 DEF a

LEMMA RamReset ==
  ASSUME NEW u, CounterParams(u), RamInv(u),
         NEW push \in BOOLEAN, NEW pop \in BOOLEAN, NEW d \in Data,
         Ram(u)!Reset, Ram(u)!Memory(push, d, pop)
  PROVE  RamInv(u)'
<1>1. Counter(u)!CntReset
  BY DEF Ram!Reset, Ram!CntReset, Counter!CntReset
<1>2. /\ Counter(u)!CntInv' /\ cnt' = 0 /\ rd_empty' = TRUE
      /\ rd_addr' = 0 /\ wr_addr' = 0
  BY <1>1, CounterReset DEF Ram!Reset, Counter!CntReset
<1>3. mem' \in [0..u.depth-1 -> Data \cup {None}] /\ out_data' \in Data \cup {None}
  BY RamMemory
<1> QED BY <1>2, <1>3 DEF RamInv, CounterParams, Slot, At

(* A cycle out of reset: the words move as in the abstract queue, and the  *)
(* read register keeps up.  A word is never both written and read for the  *)
(* first time in the cycle in which the user is told of it.                *)
LEMMA RamRunning ==
  ASSUME NEW u, CounterParams(u), RamInv(u),
         NEW push \in BOOLEAN, NEW pop \in BOOLEAN, NEW d \in Data,
         Ram(u)!Running(push, pop), Ram(u)!Memory(push, d, pop)
  PROVE  /\ RamInv(u)'
         /\ LET c == Words(mem, u.depth, rd_addr, cnt)
                rest == IF pop THEN Tail(c) ELSE c
            IN  Words(mem', u.depth, rd_addr', cnt') = IF push THEN Append(rest, d) ELSE rest
         /\ Len(Words(mem', u.depth, rd_addr', cnt')) = cnt'
<1> DEFINE n == u.depth
           a == IF pop THEN After(n, rd_addr) ELSE rd_addr
           k == IF pop THEN cnt - 1 ELSE cnt
<1>1. Counter(u)!CntRunning(push, pop) /\ Counter(u)!CntInv
  <2>1. Ram(u)!CntRunning(push, pop)
    BY DEF Ram!Running
  <2>2. Counter(u)!CntRunning(push, pop)
    BY <2>1 DEF Ram!CntRunning, Counter!CntRunning, Ram!Legal, Counter!Legal, Ram!Inc,
       Counter!Inc, Ram!Dec, Counter!Dec, Ram!Even, Counter!Even, Ram!EmptyNext,
       Counter!EmptyNext
  <2> QED BY <2>2 DEF RamInv
<1>2. /\ push /\ ~pop => cnt < n
      /\ pop => cnt > 0 /\ ~rd_empty
      /\ cnt' = IF push /\ ~pop THEN cnt + 1 ELSE IF pop /\ ~push THEN cnt - 1 ELSE cnt
      /\ cnt \in 0..n /\ cnt' \in 0..n /\ n \in Nat
  BY <1>1, CounterCount DEF CounterParams
<1>3. Counter(u)!CntInv'
  BY <1>1, CounterRunning
<1>4. /\ k \in 0..n /\ (push => k \in 0..n-1)
      /\ cnt' = IF push THEN k + 1 ELSE k
  BY <1>2
<1>5. rd_addr' = a /\ wr_addr' = IF push THEN After(n, wr_addr) ELSE wr_addr
  BY DEF Ram!Running, Ram!RdAddrNext, Ram!Succ, After
<1>6. /\ rd_addr \in 0..n-1 /\ wr_addr = Slot(n, rd_addr, cnt)
      /\ \A j \in 0..cnt-1 : mem[At(n, rd_addr, j)] \in Data
  BY DEF RamInv
<1>7. a \in 0..n-1
  BY <1>2, <1>6, CellsApart
(* The word that is popped leaves first. *)
<1>8. /\ wr_addr = Slot(n, a, k)
      /\ \A j \in 0..k-1 : mem[At(n, a, j)] \in Data
      /\ Words(mem, n, a, k) = IF pop THEN Tail(Words(mem, n, rd_addr, cnt))
                               ELSE Words(mem, n, rd_addr, cnt)
  <2>1. CASE pop
    <3>1. cnt \in 1..n /\ cnt - 2 = (cnt - 1) - 1
      BY <1>2, <2>1
    <3>2. Slot(n, After(n, rd_addr), cnt - 1) = Slot(n, rd_addr, cnt)
      <4>1. n \in Nat /\ rd_addr \in 0..n-1
        BY <1>2, <1>6
      <4> HIDE DEF n
      <4> QED BY <3>1, <4>1, CellsApart
    <3>3. /\ Tail(Words(mem, n, rd_addr, cnt)) = Words(mem, n, After(n, rd_addr), cnt - 1)
          /\ \A j \in 0..cnt-2 : mem[At(n, After(n, rd_addr), j)] \in Data
      BY <1>2, <1>6, <3>1, WordsPop
    <3> QED BY <1>6, <2>1, <3>1, <3>2, <3>3
  <2>2. CASE ~pop
    BY <1>6, <2>2
  <2> QED BY <2>1, <2>2
<1>9. /\ mem' \in [0..n-1 -> Data \cup {None}]
      /\ ~push => mem' = mem
      /\ push => /\ mem'[wr_addr] = d
                 /\ \A c \in 0..n-1 : c # wr_addr => mem'[c] = mem[c]
      /\ out_data' \in Data \cup {None}
      /\ IF u.fast_flags \/ ~(pop \/ (rd_empty /\ cnt = 1)) THEN out_data' = out_data
         ELSE (push /\ wr_addr = a) \/ out_data' = mem[a]
  BY RamMemory
<1> HIDE DEF n, a, k
(* Then the one that is pushed comes in. *)
<1>10. /\ wr_addr' = Slot(n, a, cnt')
       /\ \A j \in 0..cnt'-1 : mem'[At(n, a, j)] \in Data
       /\ Words(mem', n, a, cnt') = IF push THEN Append(Words(mem, n, a, k), d)
                                    ELSE Words(mem, n, a, k)
  <2>1. CASE push
    <3>1. k \in 0..n-1 /\ cnt' = k + 1 /\ cnt' - 1 = k /\ n \in Nat
      BY <1>2, <1>4, <2>1
    <3>2. After(n, wr_addr) = Slot(n, a, k + 1)
      BY <1>7, <1>8, <3>1, CellsApart
    <3>3. /\ Words(mem', n, a, k + 1) = Append(Words(mem, n, a, k), d)
          /\ \A j \in 0..k : mem'[At(n, a, j)] \in Data
      <4>1. Written(mem, mem', n, Slot(n, a, k), d)
        BY <1>8, <1>9, <2>1 DEF Written
      <4>2. Stored(mem, n, a, k)
        BY <1>8 DEF Stored
      <4>3. n \in Nat /\ a \in 0..n-1 /\ k \in 0..n-1
        BY <1>7, <3>1
      <4>4. /\ Words(mem', n, a, k + 1) = Append(Words(mem, n, a, k), d)
            /\ Stored(mem', n, a, k + 1)
        BY <4>1, <4>2, <4>3, WordsPush
      <4> QED BY <3>1, <4>4 DEF Stored
    <3> QED BY <1>5, <2>1, <3>1, <3>2, <3>3
  <2>2. CASE ~push
    BY <1>4, <1>5, <1>8, <1>9, <2>2
  <2> QED BY <2>1, <2>2
<1>11. ~u.fast_flags /\ ~rd_empty' => out_data' = mem'[a]
  <2> SUFFICES ASSUME ~u.fast_flags, ~rd_empty' PROVE out_data' = mem'[a]
    OBVIOUS
  <2>1. /\ cnt = 1 => ~pop
        /\ cnt # 1 => ~rd_empty
        /\ cnt > 0
    <3>1. rd_empty' = IF cnt = 1 THEN pop ELSE rd_empty
      BY <1>1 DEF Counter!CntRunning, Counter!EmptyNext
    <3>2. cnt = 0 => rd_empty
      BY <1>1 DEF Counter!CntInv
    <3> QED BY <1>2, <3>1, <3>2
  <2>2. push => wr_addr # a
    <3>1. CASE pop
      <4>1. cnt \in 2..n
        BY <1>2, <2>1, <3>1
      <4>2. Slot(n, rd_addr, cnt) # After(n, rd_addr)
        BY <1>2, <1>6, <4>1, CellsApart
      <4> QED BY <1>6, <3>1, <4>2 DEF a
    <3>2. CASE push /\ ~pop
      <4>1. cnt \in 1..n-1
        BY <1>2, <2>1, <3>2
      <4>2. Slot(n, rd_addr, cnt) # rd_addr
        BY <1>2, <1>6, <4>1, CellsApart
      <4> QED BY <1>6, <3>2, <4>2 DEF a
    <3> QED BY <3>1, <3>2
  <2>3. mem'[a] = mem[a]
    BY <1>7, <1>9, <2>2
  <2>4. ~(pop \/ (rd_empty /\ cnt = 1)) => out_data = mem[a]
    BY <2>1 DEF RamInv, a
  <2> QED BY <1>9, <2>2, <2>3, <2>4
<1>12. RamInv(u)'
  BY <1>3, <1>5, <1>7, <1>9, <1>10, <1>11 DEF RamInv, n
<1>13. Len(Words(mem', n, a, cnt')) = cnt'
  BY <1>2, <1>10, WordsType
<1> QED BY <1>5, <1>8, <1>10, <1>12, <1>13 DEF n

LEMMA RamNext ==
  ASSUME NEW u, CounterParams(u), RamInv(u), Ram(u)!Next
  PROVE  RamInv(u)'
<1> SUFFICES ASSUME NEW push \in BOOLEAN, NEW pop \in BOOLEAN, NEW d \in Data,
                    Ram(u)!Clk(push, d, pop)
             PROVE  RamInv(u)'
  BY DEF Ram!Next
<1>1. Ram(u)!Memory(push, d, pop)
  BY DEF Ram!Clk
<1>2. CASE Ram(u)!Reset
  BY <1>1, <1>2, RamReset
<1>3. CASE Ram(u)!Running(push, pop)
  BY <1>1, <1>3, RamRunning
<1> QED BY <1>2, <1>3 DEF Ram!Clk

LEMMA RamMaps ==
  ASSUME NEW u, CounterParams(u), RamInv(u)
  PROVE  Ram(u)!FifoEdge
<1>1. ASSUME Ram(u)!Reset PROVE Ram(u)!Fifo!Reset
  <2>1. Ram(u)!CntReset
    BY <1>1 DEF Ram!Reset
  <2>2. Ram(u)!Contents' = <<>>
    BY <2>1 DEF Ram!CntReset, Ram!Contents
  <2> QED BY <2>1, <2>2 DEF Ram!Fifo!Reset, Ram!wr_almost_full, Ram!rd_almost_empty,
         Ram!CntReset
<1>2. ASSUME NEW push \in BOOLEAN, NEW pop \in BOOLEAN, NEW d \in Data,
             Ram(u)!Clk(push, d, pop), Ram(u)!Running(push, pop)
      PROVE  Ram(u)!Fifo!Clk(push, d, pop)
  <2>1. Ram(u)!Memory(push, d, pop)
    BY <1>2 DEF Ram!Clk
  <2>2. Ram(u)!Fifo!Legal(push, pop)
    BY <1>2 DEF Ram!Running, Ram!CntRunning, Ram!Legal, Ram!Fifo!Legal
  <2>3. Counter(u)!CntRunning(push, pop) /\ Counter(u)!CntInv
    <3>1. Ram(u)!CntRunning(push, pop)
      BY <1>2 DEF Ram!Running
    <3>2. Counter(u)!CntRunning(push, pop)
      BY <3>1 DEF Ram!CntRunning, Counter!CntRunning, Ram!Legal, Counter!Legal, Ram!Inc,
         Counter!Inc, Ram!Dec, Counter!Dec, Ram!Even, Counter!Even, Ram!EmptyNext,
         Counter!EmptyNext
    <3> QED BY <3>2 DEF RamInv
  <2>4. /\ wr_full' = (cnt' = u.depth)
        /\ Ram(u)!wr_almost_full' = (cnt' >= u.depth - u.almost_full)
        /\ rd_empty' \in BOOLEAN
        /\ cnt' = 0 => rd_empty'
        /\ u.fast_flags \/ cnt' > 1 \/ ~push => rd_empty' = (cnt' = 0)
        /\ Ram(u)!rd_almost_empty' = (rd_empty' \/ cnt' <= u.almost_empty)
    <3>1. /\ Ram(u)!wr_almost_full' = Counter(u)!wr_almost_full'
          /\ Ram(u)!rd_almost_empty' = Counter(u)!rd_almost_empty'
      BY DEF Ram!wr_almost_full, Counter!wr_almost_full, Ram!rd_almost_empty,
         Counter!rd_almost_empty
    <3> QED BY <2>3, <3>1, CounterFlags
  <2>5. LET rest == IF pop THEN Tail(Ram(u)!Contents) ELSE Ram(u)!Contents
        IN  /\ Ram(u)!Contents' = IF push THEN Append(rest, d) ELSE rest
            /\ Len(Ram(u)!Contents') = cnt'
    BY <1>2, <2>1, RamRunning, RamContents
  <2>6. Ram(u)!Fifo!Flags(push)
    BY <2>4, <2>5 DEF Ram!Fifo!Flags
  <2> QED BY <2>2, <2>5, <2>6 DEF Ram!Fifo!Clk
<1> QED BY <1>1, <1>2 DEF Ram!FifoEdge

LEMMA RamHead ==
  ASSUME NEW u, CounterParams(u), RamInv(u)
  PROVE  Ram(u)!HeadReady
<1> SUFFICES ASSUME ~rd_empty PROVE Ram(u)!rd_data = Ram(u)!Contents[1]
  BY DEF Ram!HeadReady
<1>1. cnt \in 1..u.depth /\ rd_addr \in 0..u.depth-1
  BY DEF RamInv, Counter!CntInv
<1>2. Ram(u)!Contents[1] = mem[rd_addr]
  <2>1. Words(mem, u.depth, rd_addr, cnt)[1] = mem[At(u.depth, rd_addr, 0)]
    BY <1>1 DEF Words
  <2>2. At(u.depth, rd_addr, 0) = rd_addr
    BY <1>1, CellsApart DEF CounterParams
  <2> QED BY <2>1, <2>2, RamContents
<1>3. Ram(u)!rd_data = mem[rd_addr]
  BY DEF Ram!rd_data, RamInv
<1> QED BY <1>2, <1>3

--------------------------------------------------------------------------------
(* dlsc_fifo_rvh *)

(* A word in front of a queue. *)
LEMMA InFront ==
  ASSUME NEW s \in Seq(Data), NEW x \in Data, NEW d \in Data
  PROVE  /\ <<x>> \o s \in Seq(Data) /\ <<x>> \o s # <<>> /\ Len(<<x>> \o s) = Len(s) + 1
         /\ Tail(<<x>> \o s) = s
         /\ <<x>> \o Append(s, d) = Append(<<x>> \o s, d)
         /\ s # <<>> => <<Head(s)>> \o Tail(s) = s
<1> DEFINE t == <<x>> \o s
<1>1. <<x>> \in Seq(Data) /\ Len(<<x>>) = 1 /\ <<x>>[1] = x /\ Len(s) \in Nat
  OBVIOUS
<1>2. /\ t \in Seq(Data) /\ Len(t) = Len(s) + 1
      /\ t[1] = x /\ \A i \in 2..Len(s) + 1 : t[i] = s[i - 1]
  <2>1. /\ t \in Seq(Data) /\ Len(t) = 1 + Len(s)
        /\ \A i \in 1..1 + Len(s) : t[i] = IF i <= 1 THEN <<x>>[i] ELSE s[i - 1]
    BY <1>1, ConcatProperties
  <2> HIDE DEF t
  <2> QED BY <1>1, <2>1
<1> HIDE DEF t
<1>3. t # <<>>
  BY <1>1, <1>2
<1>4. Tail(t) = s
  <2>1. /\ Tail(t) \in Seq(Data) /\ Len(Tail(t)) = Len(t) - 1
        /\ \A i \in 1..Len(Tail(t)) : Tail(t)[i] = t[i + 1]
    BY <1>2, <1>3, HeadTailProperties
  <2>2. Len(Tail(t)) = Len(s)
    BY <1>1, <1>2, <2>1
  <2>3. \A i \in 1..Len(s) : Tail(t)[i] = s[i]
    <3>1. \A i \in 1..Len(s) : i + 1 \in 2..Len(s) + 1 /\ (i + 1) - 1 = i
      BY <1>1
    <3> QED BY <1>2, <2>1, <2>2, <3>1
  <2> QED BY <2>1, <2>2, <2>3, SeqEqual
<1>5. <<x>> \o Append(s, d) = Append(t, d)
  <2>1. Append(s, d) = s \o <<d>> /\ Append(t, d) = t \o <<d>>
    BY <1>2, AppendIsConcat
  <2>2. <<d>> \in Seq(Data)
    OBVIOUS
  <2> QED BY <1>1, <2>1, <2>2, ConcatAssociative DEF t
<1>6. s # <<>> => <<Head(s)>> \o Tail(s) = s
  <2> SUFFICES ASSUME s # <<>> PROVE <<Head(s)>> \o Tail(s) = s
    OBVIOUS
  <2>1. /\ Head(s) \in Data /\ Tail(s) \in Seq(Data) /\ Len(Tail(s)) = Len(s) - 1
        /\ \A i \in 1..Len(s) - 1 : Tail(s)[i] = s[i + 1]
        /\ Head(s) = s[1]
    BY HeadTailProperties
  <2> DEFINE h == Head(s)
             r == Tail(s)
  <2>2. <<h>> \in Seq(Data) /\ Len(<<h>>) = 1 /\ <<h>>[1] = h
    BY <2>1
  <2>3. /\ <<h>> \o r \in Seq(Data) /\ Len(<<h>> \o r) = 1 + Len(r)
        /\ \A i \in 1..1 + Len(r) : (<<h>> \o r)[i] = IF i <= 1 THEN <<h>>[i] ELSE r[i - 1]
    BY <2>1, <2>2, ConcatProperties
  <2> HIDE DEF h, r
  <2>4. Len(r) = Len(s) - 1 /\ 1 + Len(r) = Len(s) /\ h = s[1]
    BY <1>1, <2>1 DEF h, r
  <2>5. ASSUME NEW i \in 1..Len(s) PROVE (<<h>> \o r)[i] = s[i]
    <3>1. CASE i = 1
      BY <2>2, <2>3, <2>4, <3>1
    <3>2. CASE i # 1
      <4>1. i - 1 \in 1..Len(s) - 1 /\ (i - 1) + 1 = i /\ ~(i <= 1)
        BY <1>1, <3>2
      <4>2. r[i - 1] = s[i]
        BY <2>1, <4>1 DEF r
      <4> QED BY <2>3, <2>4, <4>1, <4>2
    <3> QED BY <3>1, <3>2
  <2>6. <<h>> \o r = s
    BY <2>3, <2>4, <2>5, SeqEqual
  <2> QED BY <2>6 DEF h, r
<1> QED BY <1>2, <1>3, <1>4, <1>5, <1>6 DEF t

LEMMA RvhInit ==
  ASSUME NEW u, Rvh(u)!FifoRvhAssumption, Rvh(u)!Init
  PROVE  Rvh(u)!IInv /\ Rvh(u)!Chan!Init
<1>1. /\ rst = TRUE /\ mem = <<>> /\ wr_full = TRUE /\ rd_empty = TRUE
      /\ out_valid = FALSE /\ out_data = None
  BY DEF Rvh!Init, Rvh!Fifo!Init, Rvh!FULL_IN_RESET
<1>2. mem \in Seq(Data) /\ Len(mem) <= u.depth
  BY <1>1 DEF Rvh!FifoRvhAssumption
<1>3. Rvh(u)!IInv
  BY <1>1, <1>2, Zenon DEF Rvh!IInv
<1>4. Rvh(u)!Chan!Init
  BY <1>1 DEF Rvh!Chan!Init, Rvh!Contents
<1> QED BY <1>3, <1>4

LEMMA RvhReset ==
  ASSUME NEW u, Rvh(u)!FifoRvhAssumption, Rvh(u)!IInv, Rvh(u)!Reset,
         out_data' \in Data \cup {None}
  PROVE  Rvh(u)!IInv'
<1>1. /\ rst' = TRUE /\ mem' = <<>> /\ wr_full' = TRUE /\ rd_empty' = TRUE
      /\ out_valid' = FALSE
  BY DEF Rvh!Reset, Rvh!Fifo!Reset, Rvh!FULL_IN_RESET
<1>2. mem' \in Seq(Data) /\ Len(mem') <= u.depth
  BY <1>1 DEF Rvh!FifoRvhAssumption
<1> QED BY <1>1, <1>2, Zenon DEF Rvh!IInv

(* What the register is given is the head of the queue. *)
LEMMA RvhHead ==
  ASSUME NEW u, Rvh(u)!IInv, NEW rd_ready \in BOOLEAN, Rvh(u)!Pop(rd_ready)
  PROVE  mem # <<>> /\ Head(mem) \in Data
<1>1. mem \in Seq(Data) /\ mem # <<>>
  BY DEF Rvh!IInv, Rvh!Pop
<1> QED BY <1>1, HeadTailProperties

LEMMA RvhRunning ==
  ASSUME NEW u, Rvh(u)!FifoRvhAssumption, Rvh(u)!IInv,
         NEW wr_valid \in BOOLEAN, NEW rd_ready \in BOOLEAN, NEW d \in Data,
         Rvh(u)!Running(wr_valid, d, rd_ready),
         out_data' = IF Rvh(u)!Pop(rd_ready) THEN Head(mem) ELSE out_data
  PROVE  /\ Rvh(u)!IInv'
         /\ Rvh(u)!Chan!Edge(~wr_full /\ wr_valid, d, out_valid /\ rd_ready)
         /\ rst => Rvh(u)!Chan!Up
<1> DEFINE push == ~wr_full /\ wr_valid
           pop == Rvh(u)!Pop(rd_ready)
           rest == IF pop THEN Tail(mem) ELSE mem
<1>1. /\ mem \in Seq(Data) /\ Len(mem) <= u.depth /\ Len(mem) \in Nat
      /\ rst \in BOOLEAN /\ out_valid \in BOOLEAN /\ out_data \in Data \cup {None}
      /\ out_valid => out_data \in Data
      /\ rd_empty \in BOOLEAN /\ (mem = <<>> => rd_empty)
      /\ rst => mem = <<>> /\ ~out_valid
      /\ u.depth \in Nat
  <2>1. /\ mem \in Seq(Data) /\ Len(mem) <= u.depth
        /\ rst \in BOOLEAN /\ out_valid \in BOOLEAN /\ out_data \in Data \cup {None}
        /\ out_valid => out_data \in Data
        /\ rd_empty \in BOOLEAN /\ (mem = <<>> => rd_empty)
        /\ rst => mem = <<>> /\ ~out_valid
    BY Zenon DEF Rvh!IInv
  <2>2. Len(mem) \in Nat
    BY <2>1, LenProperties
  <2>3. u.depth \in Nat
    BY DEF Rvh!FifoRvhAssumption
  <2> QED BY <2>1, <2>2, <2>3
<1>2. push => Len(mem) < u.depth /\ ~rst
  <2>1. wr_full = (rst \/ Len(mem) = u.depth)
    BY Zenon DEF Rvh!IInv
  <2>2. push => ~rst /\ Len(mem) # u.depth
    BY <2>1
  <2> QED BY <1>1, <2>2
<1>3. Rvh(u)!Fifo!Clk(push, d, pop)
  BY DEF Rvh!Running, Rvh!wr_ready
<1>4. /\ mem' = IF push THEN Append(rest, d) ELSE rest
      /\ wr_full' = (Len(mem') = u.depth)
      /\ rd_empty' \in BOOLEAN /\ (Len(mem') = 0 => rd_empty')
      /\ pop = (~rd_empty /\ (~out_valid \/ rd_ready))
      /\ rst' = FALSE
      /\ out_valid' = (pop \/ (out_valid /\ ~rd_ready))
  <2>1. pop = (~rd_empty /\ (~out_valid \/ rd_ready))
    BY DEF Rvh!Pop
  <2>2. rst' = FALSE /\ out_valid' = (pop \/ (out_valid /\ ~rd_ready))
    BY DEF Rvh!Running, Rvh!ValidNext
  <2>3. /\ mem' = IF push THEN Append(rest, d) ELSE rest
        /\ Rvh(u)!Fifo!Flags(push)
    BY <1>3, Zenon DEF Rvh!Fifo!Clk
  <2>4. /\ wr_full' = (Len(mem') = u.depth)
        /\ rd_empty' \in BOOLEAN /\ (Len(mem') = 0 => rd_empty')
    BY <2>3, Zenon DEF Rvh!Fifo!Flags
  <2> QED BY <2>1, <2>2, <2>3, <2>4
<1>5. pop => mem # <<>> /\ Head(mem) \in Data /\ ~rst
  BY <1>1, RvhHead
<1> HIDE DEF pop, push
<1>6. rest \in Seq(Data) /\ Len(rest) \in Nat /\ Len(rest) <= Len(mem)
  <2>1. CASE pop
    <3>1. Tail(mem) \in Seq(Data) /\ Len(Tail(mem)) = Len(mem) - 1
      BY <1>1, <1>5, <2>1, HeadTailProperties
    <3> QED BY <1>1, <2>1, <3>1, LenProperties
  <2>2. CASE ~pop
    BY <1>1, <2>2
  <2> QED BY <2>1, <2>2
<1> HIDE DEF rest
<1>7. mem' \in Seq(Data) /\ Len(mem') <= u.depth
  <2>1. CASE push
    <3>1. Append(rest, d) \in Seq(Data) /\ Len(Append(rest, d)) = Len(rest) + 1
      BY <1>6, AppendProperties
    <3> QED BY <1>1, <1>2, <1>4, <1>6, <2>1, <3>1
  <2>2. CASE ~push
    BY <1>1, <1>4, <1>6, <2>2
  <2> QED BY <2>1, <2>2
<1>8. /\ out_data' = IF pop THEN Head(mem) ELSE out_data
      /\ out_data' \in Data \cup {None}
      /\ out_valid' => out_data' \in Data
  BY <1>1, <1>4, <1>5 DEF pop
<1>9. Rvh(u)!IInv'
  <2>1. mem' = <<>> => rd_empty'
    BY <1>4
  <2>2. wr_full' = (rst' \/ Len(mem') = u.depth)
    BY <1>4
  <2>3. out_valid' \in BOOLEAN
    BY <1>1, <1>4 DEF pop, Rvh!Pop
  <2> QED BY <1>4, <1>7, <1>8, <2>1, <2>2, <2>3, Zenon DEF Rvh!IInv
(* Register and queue as one: take is the reader's handshake. *)
<1> DEFINE c == Rvh(u)!Contents
           take == out_valid /\ rd_ready
           left == IF take THEN Tail(c) ELSE c
<1>10. /\ c \in Seq(Data)
       /\ take => c # <<>>
       /\ left = IF out_valid /\ ~rd_ready THEN <<out_data>> \o mem ELSE mem
       /\ push => Len(c) < u.depth + 1
  <2>1. c = IF out_valid THEN <<out_data>> \o mem ELSE mem
    BY DEF Rvh!Contents
  <2> HIDE DEF c, push
  <2>2. CASE out_valid
    <3>1. c = <<out_data>> \o mem /\ out_data \in Data
      BY <1>1, <2>1, <2>2
    <3>2. c \in Seq(Data) /\ c # <<>> /\ Len(c) = Len(mem) + 1 /\ Tail(c) = mem
      BY <1>1, <3>1, InFront
    <3>3. push => Len(c) < u.depth + 1
      BY <1>1, <1>2, <3>2
    <3>4. left = IF rd_ready THEN mem ELSE <<out_data>> \o mem
      BY <2>2, <3>1, <3>2
    <3> QED BY <2>2, <3>2, <3>3, <3>4
  <2>3. CASE ~out_valid
    <3>1. c = mem /\ ~take
      BY <2>1, <2>3
    <3> QED BY <1>1, <1>2, <2>3, <3>1
  <2> QED BY <2>2, <2>3
<1>11. c' = IF push THEN Append(left, d) ELSE left
  <2>1. c' = IF out_valid' THEN <<out_data'>> \o mem' ELSE mem'
    BY DEF Rvh!Contents
  <2> HIDE DEF left, c, take
  <2>2. CASE pop
    <3>1. /\ out_valid' /\ ~(out_valid /\ ~rd_ready)
          /\ left = mem /\ rest = Tail(mem) /\ out_data' = Head(mem)
      BY <1>4, <1>8, <1>10, <2>2 DEF rest, pop, Rvh!Pop
    <3>2. <<Head(mem)>> \o Tail(mem) = mem
      BY <1>1, <1>5, <2>2, InFront
    <3>3. <<Head(mem)>> \o Append(Tail(mem), d) = Append(<<Head(mem)>> \o Tail(mem), d)
      BY <1>5, <1>6, <2>2, <3>1, InFront
    <3> QED BY <1>4, <2>1, <3>1, <3>2, <3>3
  <2>3. CASE ~pop /\ out_valid /\ ~rd_ready
    <3>1. /\ out_valid' /\ left = <<out_data>> \o mem /\ rest = mem
          /\ out_data' = out_data /\ out_data \in Data
      BY <1>1, <1>4, <1>8, <1>10, <2>3 DEF rest
    <3>2. <<out_data>> \o Append(mem, d) = Append(<<out_data>> \o mem, d)
      BY <1>1, <3>1, InFront
    <3> QED BY <1>4, <2>1, <3>1, <3>2
  <2>4. CASE ~pop /\ ~(out_valid /\ ~rd_ready)
    <3>1. ~out_valid' /\ left = mem /\ rest = mem
      BY <1>4, <1>10, <2>4 DEF rest
    <3> QED BY <1>4, <2>1, <3>1
  <2> QED BY <2>2, <2>3, <2>4
<1>12. rst => Rvh(u)!Chan!Up
  <2> SUFFICES ASSUME rst PROVE Rvh(u)!Chan!Up
    OBVIOUS
  <2>1. ~push /\ ~take /\ c = <<>>
    BY <1>1, <1>2 DEF Rvh!Contents
  <2>2. c' = <<>>
    BY <1>11, <2>1
  <2> HIDE DEF c
  <2> QED BY <1>4, <2>1, <2>2 DEF c, Rvh!Chan!Up
<1>13. Rvh(u)!Chan!Edge(push, d, take)
  <2>1. (push => ~rst) /\ (take => ~rst) /\ ~rst'
    BY <1>1, <1>2, <1>4
  <2> HIDE DEF c, push, take
  <2>2. push /\ take => Rvh(u)!Chan!Exchange(d)
    BY <1>10, <1>11, <2>1 DEF c, Rvh!Chan!Exchange
  <2>3. push /\ ~take => Rvh(u)!Chan!Put(d)
    BY <1>10, <1>11, <2>1 DEF c, Rvh!Chan!Put
  <2>4. ~push /\ take => Rvh(u)!Chan!Take
    BY <1>10, <1>11, <2>1 DEF c, Rvh!Chan!Take
  <2>5. ~push /\ ~take => c' = c
    BY <1>11
  <2> QED BY <2>2, <2>3, <2>4, <2>5 DEF c, Rvh!Chan!Edge
<1>14. Rvh(u)!Chan!Edge(~wr_full /\ wr_valid, d, out_valid /\ rd_ready)
  BY <1>13, Zenon DEF push, take
<1> QED BY <1>9, <1>12, <1>14

LEMMA RvhNext ==
  ASSUME NEW u, Rvh(u)!FifoRvhAssumption, Rvh(u)!IInv, Rvh(u)!Next
  PROVE  Rvh(u)!IInv'
<1> SUFFICES ASSUME NEW wr_valid \in BOOLEAN, NEW rd_ready \in BOOLEAN, NEW d \in Data,
                    Rvh(u)!Clk(wr_valid, d, rd_ready)
             PROVE  Rvh(u)!IInv'
  BY DEF Rvh!Next
<1>1. out_data' = IF Rvh(u)!Pop(rd_ready) THEN Head(mem) ELSE out_data
  BY DEF Rvh!Clk
<1>2. out_data' \in Data \cup {None}
  BY <1>1, RvhHead DEF Rvh!IInv
<1>3. CASE Rvh(u)!Reset
  BY <1>2, <1>3, RvhReset
<1>4. CASE Rvh(u)!Running(wr_valid, d, rd_ready)
  BY <1>1, <1>4, RvhRunning
<1> QED BY <1>3, <1>4 DEF Rvh!Clk

LEMMA RvhMaps ==
  ASSUME NEW u, Rvh(u)!FifoRvhAssumption, Rvh(u)!IInv
  PROVE  Rvh(u)!ChannelEdge
<1>1. Rvh(u)!Reset => Rvh(u)!Chan!Down
  BY DEF Rvh!Reset, Rvh!Fifo!Reset, Rvh!Chan!Down, Rvh!Contents
<1>2. ASSUME NEW wr_valid \in BOOLEAN, NEW rd_ready \in BOOLEAN, NEW d \in Data,
             Rvh(u)!Clk(wr_valid, d, rd_ready), Rvh(u)!Running(wr_valid, d, rd_ready)
      PROVE  /\ Rvh(u)!Chan!Edge(~wr_full /\ wr_valid, d, out_valid /\ rd_ready)
             /\ rst => Rvh(u)!Chan!Up
  BY <1>2, RvhRunning DEF Rvh!Clk
<1> QED BY <1>1, <1>2 DEF Rvh!ChannelEdge, Rvh!wr_ready, Rvh!rd_valid

--------------------------------------------------------------------------------
(* dlsc_rvh_decoupler *)

LEMMA DecouplerInit ==
  ASSUME Decoupler!Init
  PROVE  Decoupler!IInv /\ Decoupler!Chan!Init
<1>1. Decoupler!IInv
  BY DEF Decoupler!Init, Decoupler!IInv
<1>2. Decoupler!Chan!Init
  BY DEF Decoupler!Init, Decoupler!Chan!Init, Decoupler!Contents
<1> QED BY <1>1, <1>2

LEMMA DecouplerReset ==
  ASSUME Decoupler!IInv, Decoupler!Reset
  PROVE  Decoupler!IInv' /\ Decoupler!Chan!Down
<1>1. Decoupler!IInv'
  BY DEF Decoupler!Reset, Decoupler!IInv
<1>2. Decoupler!Chan!Down
  BY DEF Decoupler!Reset, Decoupler!Chan!Down, Decoupler!Contents
<1> QED BY <1>1, <1>2

LEMMA DecouplerRunning ==
  ASSUME Decoupler!IInv, NEW in_en \in BOOLEAN, NEW in_valid \in BOOLEAN,
         NEW out_en \in BOOLEAN, NEW rdy \in BOOLEAN, NEW d \in Data,
         Decoupler!Running(in_en, in_valid, d, out_en, rdy)
  PROVE  /\ Decoupler!IInv'
         /\ Decoupler!Chan!Edge(in_en /\ in_valid /\ in_ready, d, out_en /\ rdy /\ out_valid)
         /\ rst => Decoupler!Chan!Up
<1> DEFINE take == out_en /\ rdy /\ out_valid
           give == in_en /\ in_valid /\ in_ready
           room == ~out_valid \/ (out_en /\ rdy)
<1>1. /\ rst \in BOOLEAN /\ in_ready \in BOOLEAN /\ out_valid \in BOOLEAN
      /\ out_data \in Data \cup {None} /\ buf_data \in Data \cup {None}
      /\ rst_done = ~rst
      /\ rst => ~in_ready /\ ~out_valid
      /\ out_valid => out_data \in Data
      /\ ~rst /\ ~in_ready => out_valid /\ buf_data \in Data
  BY DEF Decoupler!IInv
<1>2. /\ rst' = FALSE /\ rst_done' = TRUE
      /\ out_data' = IF give /\ room THEN d
                     ELSE IF take /\ ~in_ready THEN buf_data ELSE out_data
      /\ out_valid' = ((give /\ room) \/ (out_valid /\ (take => ~in_ready)))
      /\ buf_data' = IF give /\ ~room THEN d ELSE buf_data
      /\ in_ready' = (~rst_done \/ (take /\ ~in_ready) \/ (in_ready /\ (give => room)))
  BY DEF Decoupler!Running, Decoupler!OutDataNext, Decoupler!OutValidNext,
     Decoupler!InReadyNext, Decoupler!Free
<1>3. /\ take \in BOOLEAN /\ give \in BOOLEAN
      /\ take => out_valid
      /\ give => in_ready
      /\ room = (~out_valid \/ take)
  BY <1>1
<1> HIDE DEF take, give, room
<1>4. Decoupler!IInv'
  <2>1. out_data' \in Data \cup {None} /\ buf_data' \in Data \cup {None}
    BY <1>1, <1>2
  <2>2. in_ready' \in BOOLEAN /\ out_valid' \in BOOLEAN
    BY <1>1, <1>2, <1>3
  <2>3. out_valid' => out_data' \in Data
    BY <1>1, <1>2, <1>3
  <2>4. ~in_ready' => out_valid' /\ buf_data' \in Data
    BY <1>1, <1>2, <1>3
  <2> QED BY <1>2, <2>1, <2>2, <2>3, <2>4, Zenon DEF Decoupler!IInv
<1> DEFINE c == Decoupler!Contents
           left == IF take THEN Tail(c) ELSE c
<1>5. /\ c = IF ~out_valid THEN <<>> ELSE IF in_ready THEN <<out_data>>
             ELSE <<out_data, buf_data>>
      /\ c' = IF ~out_valid' THEN <<>> ELSE IF in_ready' THEN <<out_data'>>
              ELSE <<out_data', buf_data'>>
  BY DEF Decoupler!Contents
<1>6. /\ take => c # <<>>
      /\ give => Len(c) < 2
  <2>1. CASE ~out_valid
    BY <1>3, <1>5, <2>1, ShortSequences
  <2>2. CASE out_valid /\ in_ready
    BY <1>5, <2>2, ShortSequences
  <2>3. CASE out_valid /\ ~in_ready
    BY <1>3, <1>5, <2>3, ShortSequences
  <2> QED BY <2>1, <2>2, <2>3
<1>7. ~rst => left = IF take THEN IF in_ready THEN <<>> ELSE <<buf_data>> ELSE c
  BY <1>3, <1>5, ShortSequences
<1>8. ~rst => c' = IF give THEN Append(left, d) ELSE left
  <2> SUFFICES ASSUME ~rst PROVE c' = IF give THEN Append(left, d) ELSE left
    OBVIOUS
  <2> HIDE DEF c, left
  <2>1. CASE take /\ in_ready
    <3>1. left = <<>> /\ (give => out_valid' /\ in_ready' /\ out_data' = d)
      BY <1>1, <1>2, <1>3, <1>7, <2>1
    <3>2. ~give => ~out_valid'
      BY <1>2, <2>1
    <3> QED BY <1>5, <3>1, <3>2, ShortSequences
  <2>2. CASE take /\ ~in_ready
    <3>1. left = <<buf_data>> /\ ~give /\ out_valid' /\ in_ready' /\ out_data' = buf_data
      BY <1>1, <1>2, <1>3, <1>7, <2>2
    <3> QED BY <1>5, <3>1
  <2>3. CASE ~take /\ ~out_valid
    <3>1. left = <<>> /\ in_ready /\ in_ready'
      BY <1>1, <1>2, <1>3, <1>5, <1>7, <2>3
    <3>2. give => out_valid' /\ out_data' = d
      BY <1>2, <1>3, <2>3
    <3>3. ~give => ~out_valid'
      BY <1>2, <2>3
    <3> QED BY <1>5, <3>1, <3>2, <3>3, ShortSequences
  <2>4. CASE ~take /\ out_valid
    <3>1. ~room /\ left = c /\ out_valid' /\ out_data' = out_data
      BY <1>2, <1>3, <1>7, <2>4
    <3>2. CASE give
      <4>1. in_ready /\ ~in_ready' /\ buf_data' = d /\ left = <<out_data>>
        BY <1>1, <1>2, <1>3, <1>5, <2>4, <3>1, <3>2
      <4> QED BY <1>5, <3>1, <3>2, <4>1, ShortSequences
    <3>3. CASE ~give
      <4>1. in_ready' = in_ready /\ buf_data' = buf_data
        BY <1>1, <1>2, <2>4, <3>3
      <4> QED BY <1>5, <2>4, <3>1, <3>3, <4>1
    <3> QED BY <3>2, <3>3
  <2> QED BY <1>1, <1>3, <2>1, <2>2, <2>3, <2>4
<1>9. rst => Decoupler!Chan!Up
  <2> SUFFICES ASSUME rst PROVE Decoupler!Chan!Up
    OBVIOUS
  <2> HIDE DEF c
  <2>1. ~take /\ ~give /\ ~out_valid
    BY <1>1, <1>3
  <2>2. c = <<>> /\ c' = <<>> /\ rst' = FALSE
    BY <1>2, <1>5, <2>1
  <2> QED BY <2>2 DEF c, Decoupler!Chan!Up
<1>10. Decoupler!Chan!Edge(give, d, take)
  <2>1. (give => ~rst) /\ (take => ~rst) /\ ~rst'
    BY <1>1, <1>2, <1>3
  <2>2. rst => c' = c
    BY <1>9 DEF Decoupler!Chan!Up
  <2> HIDE DEF c
  <2>3. give /\ take => Decoupler!Chan!Exchange(d)
    BY <1>6, <1>8, <2>1 DEF c, Decoupler!Chan!Exchange
  <2>4. give /\ ~take => Decoupler!Chan!Put(d)
    BY <1>6, <1>8, <2>1 DEF c, Decoupler!Chan!Put
  <2>5. ~give /\ take => Decoupler!Chan!Take
    BY <1>6, <1>8, <2>1 DEF c, Decoupler!Chan!Take
  <2>6. ~give /\ ~take => c' = c
    BY <1>8, <2>2
  <2> QED BY <1>3, <2>3, <2>4, <2>5, <2>6 DEF c, Decoupler!Chan!Edge
<1> QED BY <1>4, <1>9, <1>10 DEF give, take

LEMMA DecouplerNext ==
  ASSUME Decoupler!IInv, Decoupler!Clk
  PROVE  Decoupler!IInv'
  BY DecouplerReset, DecouplerRunning DEF Decoupler!Clk

LEMMA DecouplerMaps ==
  ASSUME Decoupler!IInv
  PROVE  Decoupler!ChannelEdge
<1>1. Decoupler!Reset => Decoupler!Chan!Down
  BY DecouplerReset
<1>2. ASSUME NEW in_en \in BOOLEAN, NEW in_valid \in BOOLEAN, NEW out_en \in BOOLEAN,
             NEW rdy \in BOOLEAN, NEW d \in Data,
             Decoupler!Running(in_en, in_valid, d, out_en, rdy)
      PROVE  /\ Decoupler!Chan!Edge(in_en /\ in_valid /\ in_ready, d,
                                    out_en /\ rdy /\ out_valid)
             /\ rst => Decoupler!Chan!Up
  BY <1>2, DecouplerRunning
<1> QED BY <1>1, <1>2 DEF Decoupler!ChannelEdge

--------------------------------------------------------------------------------
(* The units together. *)

(* What the code allows of the parameters, for each kind. *)
LEMMA Allowed ==
  /\ \A u \in Of("one") : One(u)!FifoOneAssumption
  /\ \A u \in Of("two") : Two(u)!FifoTwoAssumption
  /\ \A u \in Of("shiftreg") : ShiftregParams(u)
  /\ \A u \in Of("counter") : CounterParams(u)
  /\ \A u \in Of("ram") : CounterParams(u)
  /\ \A u \in Of("rvh") : Rvh(u)!FifoRvhAssumption
<1>1. \A u \in Of("shiftreg") : ShiftregParams(u)
  BY UnitsAllowed, ShiftregBounds DEF UnitsAssumption
<1>2. \A u \in Of("counter") : CounterParams(u)
  BY UnitsAllowed, CounterBounds DEF UnitsAssumption
<1>3. \A u \in Of("ram") : CounterParams(u)
  <2> SUFFICES ASSUME NEW u \in Of("ram") PROVE CounterParams(u)
    OBVIOUS
  <2>1. Ram(u)!FifoCounterAssumption
    BY UnitsAllowed DEF UnitsAssumption
  <2> QED BY <2>1 DEF Ram!FifoCounterAssumption, CounterParams
<1> QED BY <1>1, <1>2, <1>3, UnitsAllowed DEF UnitsAssumption

(* A unit is of one kind, so one conjunct of the invariant is about it. *)
LEMMA OneKind ==
  ASSUME NEW k, NEW l, NEW u \in Of(k), NEW v \in Of(l), u = v
  PROVE  k = l
  BY DEF Of

LEMMA InitHolds ==
  ASSUME Init
  PROVE  IInv /\ FifoInit /\ ChannelInit
<1>1. ASSUME NEW u \in Of("one"), unit = u, One(u)!Init
      PROVE  IInv /\ FifoInit /\ ChannelInit
  <2>1. One(u)!IInv /\ One(u)!Fifo!Init
    BY <1>1, Allowed, OneInit
  <2> QED BY <1>1, <2>1, OneKind DEF IInv, FifoInit, ChannelInit
<1>2. ASSUME NEW u \in Of("two"), unit = u, Two(u)!Init
      PROVE  IInv /\ FifoInit /\ ChannelInit
  <2>1. Two(u)!IInv /\ Two(u)!Fifo!Init
    BY <1>2, Allowed, TwoInit
  <2> QED BY <1>2, <2>1, OneKind DEF IInv, FifoInit, ChannelInit
<1>3. ASSUME NEW u \in Of("shiftreg"), unit = u, Shiftreg(u)!Init
      PROVE  IInv /\ FifoInit /\ ChannelInit
  <2>1. Shiftreg(u)!IInv /\ Shiftreg(u)!Fifo!Init
    BY <1>3, Allowed, ShiftregInitInv, ShiftregInitMaps
  <2> QED BY <1>3, <2>1, OneKind DEF IInv, FifoInit, ChannelInit
<1>4. ASSUME NEW u \in Of("counter"), unit = u, Counter(u)!CntInit
      PROVE  IInv /\ FifoInit /\ ChannelInit
  <2>1. Counter(u)!CntInv /\ Counter(u)!Tokens!Init
    BY <1>4, Allowed, CounterInit, CounterInitMaps
  <2> QED BY <1>4, <2>1, OneKind DEF IInv, FifoInit, ChannelInit
<1>5. ASSUME NEW u \in Of("ram"), unit = u, Ram(u)!Init
      PROVE  IInv /\ FifoInit /\ ChannelInit
  <2>1. Ram(u)!IInv /\ Ram(u)!Fifo!Init
    BY <1>5, Allowed, RamInitInv, RamInvIs
  <2> QED BY <1>5, <2>1, OneKind DEF IInv, FifoInit, ChannelInit
<1>6. ASSUME NEW u \in Of("rvh"), unit = u, Rvh(u)!Init
      PROVE  IInv /\ FifoInit /\ ChannelInit
  <2>1. Rvh(u)!IInv /\ Rvh(u)!Chan!Init
    BY <1>6, Allowed, RvhInit
  <2> QED BY <1>6, <2>1, OneKind DEF IInv, FifoInit, ChannelInit
<1>7. ASSUME NEW u \in Of("decoupler"), unit = u, Decoupler!Init
      PROVE  IInv /\ FifoInit /\ ChannelInit
  <2>1. Decoupler!IInv /\ Decoupler!Chan!Init
    BY <1>7, DecouplerInit
  <2> QED BY <1>7, <2>1, OneKind DEF IInv, FifoInit, ChannelInit
<1> QED BY <1>1, <1>2, <1>3, <1>4, <1>5, <1>6, <1>7 DEF Init

LEMMA NextHolds ==
  ASSUME IInv, Next
  PROVE  IInv' /\ FifoStep /\ ChannelStep
<1>0. unit' = unit
  BY DEF Next
<1>1. ASSUME NEW u \in Of("one"), unit = u, One(u)!Next
      PROVE  IInv' /\ FifoStep /\ ChannelStep
  <2>1. One(u)!IInv' /\ One(u)!FifoEdge
    BY <1>1, Allowed, OneInv, OneMaps DEF IInv
  <2> QED BY <1>0, <1>1, <2>1, OneKind DEF IInv, FifoStep, ChannelStep
<1>2. ASSUME NEW u \in Of("two"), unit = u, Two(u)!Next
      PROVE  IInv' /\ FifoStep /\ ChannelStep
  <2>1. Two(u)!IInv' /\ Two(u)!FifoEdge
    BY <1>2, Allowed, TwoInv, TwoMaps DEF IInv
  <2> QED BY <1>0, <1>2, <2>1, OneKind DEF IInv, FifoStep, ChannelStep
<1>3. ASSUME NEW u \in Of("shiftreg"), unit = u, Shiftreg(u)!Next
      PROVE  IInv' /\ FifoStep /\ ChannelStep
  <2>1. Shiftreg(u)!IInv /\ ShiftregParams(u)
    BY <1>3, Allowed DEF IInv
  <2>2. Shiftreg(u)!IInv' /\ Shiftreg(u)!FifoEdge
    BY <1>3, <2>1, ShiftregNextInv, ShiftregStepMaps
  <2> QED BY <1>0, <1>3, <2>2, OneKind DEF IInv, FifoStep, ChannelStep
<1>4. ASSUME NEW u \in Of("counter"), unit = u, Counter(u)!CntNext
      PROVE  IInv' /\ FifoStep /\ ChannelStep
  <2>1. Counter(u)!CntInv /\ CounterParams(u)
    BY <1>4, Allowed DEF IInv
  <2>2. Counter(u)!CntInv'
    BY <1>4, <2>1, CounterReset, CounterRunning DEF Counter!CntNext
  <2>3. Counter(u)!TokensEdge
    BY <2>1, CounterMaps
  <2> QED BY <1>0, <1>4, <2>2, <2>3, OneKind DEF IInv, FifoStep, ChannelStep
<1>5. ASSUME NEW u \in Of("ram"), unit = u, Ram(u)!Next
      PROVE  IInv' /\ FifoStep /\ ChannelStep
  <2>1. RamInv(u) /\ CounterParams(u)
    BY <1>5, Allowed, RamInvIs DEF IInv
  <2>2. RamInv(u)' /\ Ram(u)!FifoEdge
    BY <1>5, <2>1, RamNext, RamMaps
  <2>3. Ram(u)!IInv'
    BY <2>1, <2>2, RamInvIsNext
  <2> QED BY <1>0, <1>5, <2>2, <2>3, OneKind DEF IInv, FifoStep, ChannelStep
<1>6. ASSUME NEW u \in Of("rvh"), unit = u, Rvh(u)!Next
      PROVE  IInv' /\ FifoStep /\ ChannelStep
  <2>1. Rvh(u)!IInv' /\ Rvh(u)!ChannelEdge
    BY <1>6, Allowed, RvhNext, RvhMaps DEF IInv
  <2> QED BY <1>0, <1>6, <2>1, OneKind DEF IInv, FifoStep, ChannelStep
<1>7. ASSUME NEW u \in Of("decoupler"), unit = u, Decoupler!Clk
      PROVE  IInv' /\ FifoStep /\ ChannelStep
  <2>1. Decoupler!IInv' /\ Decoupler!ChannelEdge
    BY <1>7, DecouplerNext, DecouplerMaps DEF IInv
  <2> QED BY <1>0, <1>7, <2>1, OneKind DEF IInv, FifoStep, ChannelStep
<1> QED BY <1>1, <1>2, <1>3, <1>4, <1>5, <1>6, <1>7 DEF Next

LEMMA StutterHolds ==
  ASSUME IInv, UNCHANGED vars
  PROVE  IInv'
<1> USE DEF vars
<1>1. \A u \in Of("one") : One(u)!IInv => One(u)!IInv'
  BY DEF One!IInv
<1>2. \A u \in Of("two") : Two(u)!IInv => Two(u)!IInv'
  BY DEF Two!IInv
<1>3. \A u \in Of("shiftreg") : Shiftreg(u)!IInv => Shiftreg(u)!IInv'
  BY DEF Shiftreg!IInv, Shiftreg!Count, Shiftreg!EMPTY
<1>4. \A u \in Of("counter") : Counter(u)!CntInv => Counter(u)!CntInv'
  BY DEF Counter!CntInv
<1>5. \A u \in Of("ram") : Ram(u)!IInv => Ram(u)!IInv'
  BY DEF Ram!IInv, Ram!CntInv, Ram!CellAt, Ram!Cells
<1>6. \A u \in Of("rvh") : Rvh(u)!IInv => Rvh(u)!IInv'
  BY DEF Rvh!IInv
<1>7. Decoupler!IInv => Decoupler!IInv'
  BY DEF Decoupler!IInv
<1> QED BY <1>1, <1>2, <1>3, <1>4, <1>5, <1>6, <1>7 DEF IInv

(* The invariant of every unit, whatever its parameters: counts, addresses, *)
(* flags and contents of each FIFO of mem/rtl, and of the register slices   *)
(* of rvh/rtl, agree.                                                       *)
THEOREM Invariance == Spec => []IInv
<1>1. Init => IInv
  BY InitHolds
<1>2. IInv /\ [Next]_vars => IInv'
  BY NextHolds, StutterHolds
<1> QED BY <1>1, <1>2, PTL DEF Spec

(* A word the user of dlsc_fifo_ram sees is the oldest one, at every depth, *)
(* although the memory may return anything for a word read while written.   *)
THEOREM HeadIsReady == Spec => []HeadReady
<1>1. IInv => HeadReady
  BY Allowed, RamInvIs, RamHead DEF IInv, HeadReady
<1> QED BY <1>1, Invariance, PTL

(* Every implementation dlsc_fifo can select is the one queue, with exact  *)
(* full and almost flags, that its test bench models: at every edge it     *)
(* appends the word the user pushes and drops the one the user pops, both  *)
(* at once included, whatever the depth and the thresholds.                *)
THEOREM FifoRefinement == Spec => ImplementsFifo
<1>1. Init => FifoInit
  BY InitHolds
<1>2. IInv /\ [Next]_vars => [FifoStep]_vars
  BY NextHolds
<1> QED BY <1>1, <1>2, Invariance, PTL DEF Spec, ImplementsFifo

(* dlsc_fifo_rvh and dlsc_rvh_decoupler pass every word once and in order, *)
(* whatever the depth: at every edge exactly the words of the handshakes   *)
(* on the two sides enter and leave, both at once included, and a word the *)
(* sink does not take stays.                                               *)
THEOREM ChannelRefinement == Spec => ImplementsChannel
<1>1. Init => ChannelInit
  BY InitHolds
<1>2. IInv /\ [Next]_vars => [ChannelStep]_vars
  BY NextHolds
<1> QED BY <1>1, <1>2, Invariance, PTL DEF Spec, ImplementsChannel
================================================================================
