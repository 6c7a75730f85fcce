--------------------------- MODULE AxiRstcrossProofs ---------------------------
(***************************************************************************)
(* Proofs about dlsc_axi_rstcross for every number of outstanding          *)
(* transactions, width of a burst length and bound on the master.          *)
(*                                                                         *)
(* What the run checks is not inductive: while one side is fed phony       *)
(* traffic the two ends say nothing of each other, and yet they have to    *)
(* agree when it ends.  So WrInv and RdInv add what holds meanwhile: the   *)
(* partner of a side that is fed phony traffic has nothing on its way, no  *)
(* beat is counted of a burst that is not there, and on the write side the *)
(* commands not yet passed on are the last of those whose data is awaited. *)
(***************************************************************************)
EXTENDS MCAxiRstcross, FiniteSets, FiniteSetTheorems, SequenceTheorems, TLAPS

(* A queue after a cycle in which x may come in and the head may leave. *)
Step(a, add, drop, x) ==
    LET g == IF add THEN Append(a, x) ELSE a IN IF drop THEN Tail(g) ELSE g

(* What concatenation does at both ends. *)
LEMMA ConcatFacts ==
  ASSUME NEW S, NEW a \in Seq(S), NEW b \in Seq(S), NEW x \in S
  PROVE  /\ a \o b \in Seq(S) /\ Len(a \o b) = Len(a) + Len(b)
         /\ a # <<>> => Head(a \o b) = Head(a) /\ Tail(a \o b) = Tail(a) \o b
         /\ Append(a, x) \o b = a \o (<<x>> \o b)
         /\ Append(a \o b, x) = a \o Append(b, x)
         /\ b # <<>> => b = <<Head(b)>> \o Tail(b)
<1>1. a \o b \in Seq(S) /\ Len(a \o b) = Len(a) + Len(b)
  BY ConcatProperties
<1>2. ASSUME a # <<>> PROVE Head(a \o b) = Head(a) /\ Tail(a \o b) = Tail(a) \o b
  <2>1. /\ Head(a) \in S /\ Tail(a) \in Seq(S) /\ Len(Tail(a)) = Len(a) - 1 /\ Len(a) > 0
        /\ \A i \in 1..Len(Tail(a)) : Tail(a)[i] = a[i + 1]
    BY <1>2, HeadTailProperties, EmptySeq
  <2>2. a \o b # <<>>
    BY <1>1, <2>1
  <2>3. /\ Tail(a \o b) \in Seq(S) /\ Len(Tail(a \o b)) = Len(a) + Len(b) - 1
        /\ \A i \in 1..Len(Tail(a \o b)) : Tail(a \o b)[i] = (a \o b)[i + 1]
    BY <1>1, <2>2, HeadTailProperties
  <2>4. Tail(a) \o b \in Seq(S) /\ Len(Tail(a) \o b) = Len(a) + Len(b) - 1
    BY <2>1, ConcatProperties
  <2>5. \A i \in 1..Len(Tail(a \o b)) : Tail(a \o b)[i] = (Tail(a) \o b)[i]
    BY <2>1, <2>3, <2>4
  <2>6. Head(a \o b) = (a \o b)[1] /\ Head(a) = a[1] /\ (a \o b)[1] = a[1]
    BY <1>1, <2>1, <2>2
  <2> QED BY <2>3, <2>4, <2>5, <2>6, SeqEqual
<1>3. Append(a, x) \o b = a \o (<<x>> \o b) /\ Append(a \o b, x) = a \o Append(b, x)
  <2>1. <<x>> \in Seq(S)
    OBVIOUS
  <2>2. Append(a, x) = a \o <<x>> /\ Append(b, x) = b \o <<x>> /\ Append(a \o b, x) = (a \o b) \o <<x>>
    BY <1>1, AppendIsConcat
  <2> QED BY <2>1, <2>2, ConcatAssociative
<1>4. ASSUME b # <<>> PROVE b = <<Head(b)>> \o Tail(b)
  <2>1. /\ Head(b) \in S /\ Tail(b) \in Seq(S) /\ Len(Tail(b)) = Len(b) - 1 /\ Len(b) > 0
        /\ \A i \in 1..Len(Tail(b)) : Tail(b)[i] = b[i + 1]
    BY <1>4, HeadTailProperties, EmptySeq
  <2>2. <<Head(b)>> \in Seq(S) /\ Len(<<Head(b)>>) = 1 /\ <<Head(b)>>[1] = Head(b)
    BY <2>1
  <2>3. <<Head(b)>> \o Tail(b) \in Seq(S) /\ Len(<<Head(b)>> \o Tail(b)) = Len(b)
    BY <2>1, <2>2, ConcatProperties
  <2>4. \A i \in 1..Len(b) : b[i] = (<<Head(b)>> \o Tail(b))[i]
    <3> SUFFICES ASSUME NEW i \in 1..Len(b) PROVE b[i] = (<<Head(b)>> \o Tail(b))[i]
      OBVIOUS
    <3>1. CASE i = 1
      BY <2>1, <2>2, <3>1, ConcatProperties
    <3>2. CASE i # 1
      <4>1. (<<Head(b)>> \o Tail(b))[i] = Tail(b)[i - 1]
        BY <2>1, <2>2, <3>2, ConcatProperties
      <4> QED BY <2>1, <3>2, <4>1
    <3> QED BY <3>1, <3>2
  <2> QED BY <2>3, <2>4, SeqEqual
<1> QED BY <1>1, <1>2, <1>3, <1>4

(* The queue in its length, and its head. *)
LEMMA StepFacts ==
  ASSUME NEW S, NEW a \in Seq(S), NEW add, NEW drop, NEW x,
         add => x \in S, drop => a # <<>>
  PROVE  /\ Step(a, add, drop, x) \in Seq(S)
         /\ Len(Step(a, add, drop, x)) = Len(a) + (IF add THEN 1 ELSE 0) - (IF drop THEN 1 ELSE 0)
         /\ ~drop /\ a # <<>> => Step(a, add, drop, x) # <<>> /\ Head(Step(a, add, drop, x)) = Head(a)
         /\ add /\ drop => Step(a, add, drop, x) = Append(Tail(a), x)
         /\ add /\ ~drop => Step(a, add, drop, x) = Append(a, x)
         /\ ~add /\ drop => Step(a, add, drop, x) = Tail(a)
         /\ ~add /\ ~drop => Step(a, add, drop, x) = a
<1>1. CASE add /\ drop
  <2>1. /\ Tail(a) \in Seq(S) /\ Len(Tail(a)) = Len(a) - 1 /\ Len(a) > 0
    BY <1>1, HeadTailProperties, EmptySeq
  <2>3. Tail(Append(a, x)) = Append(Tail(a), x)
    BY <1>1, HeadTailAppend
  <2>4. Append(Tail(a), x) \in Seq(S) /\ Len(Append(Tail(a), x)) = Len(a)
    BY <1>1, <2>1, AppendProperties
  <2> QED BY <1>1, <2>1, <2>3, <2>4 DEF Step
<1>2. CASE add /\ ~drop
  <2>1. Append(a, x) \in Seq(S) /\ Len(Append(a, x)) = Len(a) + 1 /\ Append(a, x) # <<>>
    BY <1>2, AppendProperties
  <2>2. a # <<>> => Head(Append(a, x)) = Head(a)
    BY HeadTailAppend
  <2> QED BY <1>2, <2>1, <2>2 DEF Step
<1>3. CASE ~add /\ drop
  <2>1. /\ Tail(a) \in Seq(S) /\ Len(Tail(a)) = Len(a) - 1 /\ Len(a) > 0
    BY <1>3, HeadTailProperties, EmptySeq
  <2>2. Step(a, add, drop, x) = Tail(a)
    BY <1>3 DEF Step
  <2>3. Len(Tail(a)) = Len(a) + (IF add THEN 1 ELSE 0) - (IF drop THEN 1 ELSE 0)
    BY <1>3, <2>1
  <2> QED BY <1>3, <2>1, <2>2, <2>3, Zenon
<1>4. CASE ~add /\ ~drop
  BY <1>4 DEF Step
<1> QED BY <1>1, <1>2, <1>3, <1>4

(* The first of two queues takes the head of the second and gives its own: *)
(* one element less at the front of the whole, if any.                     *)
LEMMA MoveConcat ==
  ASSUME NEW S, NEW a \in Seq(S), NEW b \in Seq(S)
  PROVE  /\ b # <<>> => Append(a, Head(b)) \o Tail(b) = a \o b
         /\ a # <<>> => Tail(a) \o b = Tail(a \o b)
         /\ a # <<>> /\ b # <<>> => Append(Tail(a), Head(b)) \o Tail(b) = Tail(a \o b)
<1>1. b # <<>> => /\ Head(b) \in S /\ Tail(b) \in Seq(S)
  BY HeadTailProperties
<1>2. a # <<>> => Head(a) \in S /\ Tail(a) \in Seq(S)
  BY HeadTailProperties
<1>3. \A c \in Seq(S) : b # <<>> => Append(c, Head(b)) \o Tail(b) = c \o b
  BY <1>1, ConcatFacts
<1>4. a # <<>> => Tail(a) \o b = Tail(a \o b)
  BY <1>2, ConcatFacts
<1> QED BY <1>2, <1>3, <1>4

--------------------------------------------------------------------------------
(* The write channels.  The inductive invariant, with ahead the bursts of  *)
(* which the slave side was told and the master has not given all data.    *)

(* The master and its tracking. *)
WrMaster(ahead) ==
    /\ ahead \in Seq(Wr!Lens) /\ m_aw \in Seq(Wr!Lens)
    /\ m_w = ahead \o m_aw
    /\ IF ahead = <<>> THEN m_sent = 0 ELSE m_sent \in 0..Head(ahead)
    /\ m_w_cnt = Len(ahead)
    /\ m_b_cnt \in Nat
    /\ m_cnt = m_w_cnt + m_b_cnt /\ m_cnt <= MOT
    /\ m_out = m_cnt + Len(m_aw) /\ m_out <= ISSUE

(* The slave and its tracking. *)
WrSlave ==
    /\ s_cmds \in Seq(Wr!Lens)
    /\ IF s_cmds = <<>> THEN s_beats = 0 ELSE s_beats \in 0..Head(s_cmds)
    /\ s_owed \in Nat /\ s_early = 0
    /\ s_len = s_cmds /\ s_w_cnt = s_beats /\ s_b_cnt = s_owed
    /\ Len(s_cmds) + s_owed <= MOT
    /\ Len(s_cmds) + s_owed <= ISSUE
    /\ s_whole = TRUE

(* What each side knows of the other: the partner of a side that is fed    *)
(* phony traffic has nothing on its way.                                   *)
WrEnds(ahead) ==
    /\ m_phony \in BOOLEAN /\ s_phony \in BOOLEAN
    /\ m_phony => s_cmds = <<>> /\ s_owed = 0
    /\ s_phony => m_cnt = 0
    /\ ~m_phony /\ ~s_phony => s_cmds = ahead /\ s_owed = m_b_cnt /\ s_beats = m_sent

WrInv == \E ahead \in Seq(Wr!Lens) : WrMaster(ahead) /\ WrSlave /\ WrEnds(ahead)

(* A power of two, as the number of subsets, is a positive number. *)
LEMMA PowerOfTwo ==
  ASSUME NEW n \in Nat
  PROVE  2^n \in Nat /\ 2^n > 0
<1>1. IsFiniteSet(1..n) /\ Cardinality(1..n) = n
  BY FS_Interval
<1>2. IsFiniteSet(SUBSET (1..n)) /\ Cardinality(SUBSET (1..n)) = 2^n
  BY <1>1, FS_SUBSET
<1>3. SUBSET (1..n) # {}
  OBVIOUS
<1> QED BY <1>2, <1>3, FS_CardinalityType, FS_EmptySet

LEMMA LensFacts ==
  ASSUME Wr!AxiRstcrossWrAssumption
  PROVE  /\ 2^LEN \in Nat /\ 2^LEN > 0
         /\ \A n \in Wr!Lens : n \in Nat /\ n < 2^LEN
         /\ \A n \in Wr!Lens : 0..n \subseteq Wr!Lens
<1>1. 2^LEN \in Nat /\ 2^LEN > 0
  BY PowerOfTwo DEF Wr!AxiRstcrossWrAssumption
<1> QED BY <1>1 DEF Wr!Lens

(* The master's side of an edge, given what its handshakes presuppose. *)
LEMMA WrMasterEdge ==
  ASSUME Wr!AxiRstcrossWrAssumption, NEW i \in Wr!Inputs, NEW ahead, WrMaster(ahead),
         Wr!MasterTracking(i), Wr!MasterNext(i),
         NEW aw, aw <=> Wr!MAw(i), NEW last, last <=> Wr!MW(i) /\ Wr!m_w_last,
         Wr!MAw(i) => m_aw # <<>> /\ m_cnt # MOT,
         Wr!MW(i) => ahead # <<>>, 
         Wr!MB(i) => m_b_cnt > 0,
         NEW next, i.m_rst => next = <<>>, ~i.m_rst => next = Step(ahead, aw, last, Head(m_aw))
  PROVE  WrMaster(next)'
<1> DEFINE w == Wr!MW(i)
           b == Wr!MB(i)
<1>1. /\ i.m_rst \in BOOLEAN /\ w \in BOOLEAN /\ b \in BOOLEAN
      /\ last => w
  BY DEF Wr!Inputs, Wr!MW, Wr!MB, Wr!m_w_cnt_zero, Wr!m_b_cnt_zero
<1>2. /\ ahead \in Seq(Wr!Lens) /\ m_aw \in Seq(Wr!Lens) /\ m_w = ahead \o m_aw
      /\ Len(ahead) \in Nat /\ Len(m_aw) \in Nat
      /\ m_b_cnt \in Nat /\ MOT \in Nat /\ ISSUE \in Nat
      /\ m_w_cnt = Len(ahead) /\ m_cnt = m_w_cnt + m_b_cnt /\ m_cnt <= MOT
      /\ m_out = m_cnt + Len(m_aw) /\ m_out <= ISSUE
      /\ m_w_cnt \in Nat /\ m_cnt \in Nat /\ m_out \in Nat
  BY DEF WrMaster, Wr!AxiRstcrossWrAssumption
<1>3. m_aw # <<>> => /\ Head(m_aw) \in Wr!Lens /\ Tail(m_aw) \in Seq(Wr!Lens)
                     /\ Len(Tail(m_aw)) = Len(m_aw) - 1 /\ Len(m_aw) > 0
  BY <1>2, HeadTailProperties, EmptySeq
<1>4. ahead # <<>> => m_w # <<>> /\ Head(m_w) = Head(ahead)
  <2>1. CASE m_aw = <<>>
    BY <1>2, <2>1, ConcatEmptySeq
  <2>2. CASE m_aw # <<>>
    BY <1>2, <1>3, <2>2, ConcatFacts, ConcatEqualIffEmpty
  <2> QED BY <2>1, <2>2
<1>5. w => (last <=> m_sent = Head(ahead))
  BY <1>4 DEF Wr!m_w_last
<1>6. CASE i.m_rst
  BY <1>6, <1>2 DEF WrMaster, Wr!MasterTracking, Wr!MasterNext
<1>7. CASE ~i.m_rst
  <2> DEFINE nAw == IF aw THEN 1 ELSE 0
             nLast == IF last THEN 1 ELSE 0
             nB == IF b THEN 1 ELSE 0
  <2>1. /\ m_aw' = (IF aw THEN Tail(m_aw) ELSE m_aw)
        /\ m_w' = (IF last THEN Tail(m_w) ELSE m_w)
        /\ m_sent' = (IF last THEN 0 ELSE IF w THEN m_sent + 1 ELSE m_sent)
        /\ m_out' = m_out - nB
        /\ m_w_cnt' = m_w_cnt + nAw - nLast
        /\ m_b_cnt' = m_b_cnt + nLast - nB
        /\ m_cnt' = m_cnt + nAw - nB
    <3>1. m_aw' = (IF aw THEN Tail(m_aw) ELSE m_aw) /\ m_w' = (IF last THEN Tail(m_w) ELSE m_w)
      BY <1>7 DEF Wr!MasterNext
    <3>2. m_out' = m_out - nB
      <4>1. m_out \in Int
        BY <1>2 DEF WrMaster
      <4> QED BY <1>7, <4>1 DEF Wr!MasterNext, Wr!Count
    <3>3. m_sent \in Int
      BY DEF WrMaster
    <3>4. m_sent' = (IF last THEN 0 ELSE IF w THEN m_sent + 1 ELSE m_sent)
      BY <1>1, <1>7, <3>3 DEF Wr!MasterNext, Wr!Count
    <3>5. m_w_cnt' = m_w_cnt + nAw - nLast
      BY <1>7 DEF Wr!MasterTracking, Wr!Count
    <3>6. m_b_cnt' = m_b_cnt + nLast - nB
      BY <1>7 DEF Wr!MasterTracking, Wr!Count
    <3>7. m_cnt' = m_cnt + nAw - nB
      BY <1>7 DEF Wr!MasterTracking, Wr!Count
    <3> QED BY <3>1, <3>2, <3>4, <3>5, <3>6, <3>7
  <2>0. /\ aw => m_aw # <<>> /\ Head(m_aw) \in Wr!Lens /\ m_cnt # MOT
        /\ last => ahead # <<>>
        /\ w => ahead # <<>>
        /\ b => m_b_cnt > 0
    BY <1>1, <1>3
  <2>b. next = Step(ahead, aw, last, Head(m_aw))
    BY <1>7
  <2>a. /\ nAw \in {0, 1} /\ nLast \in {0, 1} /\ nB \in {0, 1}
        /\ (nAw = 1 <=> aw) /\ (nLast = 1 <=> last) /\ (nB = 1 <=> b)
    OBVIOUS
  <2> HIDE DEF w, b
  <2>2. /\ next \in Seq(Wr!Lens)
        /\ Len(next) = Len(ahead) + nAw - nLast
        /\ ~last /\ ahead # <<>> => next # <<>> /\ Head(next) = Head(ahead)
        /\ aw /\ last => next = Append(Tail(ahead), Head(m_aw))
        /\ aw /\ ~last => next = Append(ahead, Head(m_aw))
        /\ ~aw /\ last => next = Tail(ahead)
        /\ ~aw /\ ~last => next = ahead
    <3>1. /\ next \in Seq(Wr!Lens)
          /\ Len(next) = Len(ahead) + nAw - nLast
          /\ ~last /\ ahead # <<>> => next # <<>> /\ Head(next) = Head(ahead)
      BY <1>2, <2>0, <2>b, StepFacts
    <3> DEFINE step == Step(ahead, aw, last, Head(m_aw))
    <3>a. ahead \in Seq(Wr!Lens) /\ (aw => Head(m_aw) \in Wr!Lens) /\ (last => ahead # <<>>)
      BY <1>2, <2>0
    <3>2. /\ aw /\ last => step = Append(Tail(ahead), Head(m_aw))
          /\ aw /\ ~last => step = Append(ahead, Head(m_aw))
          /\ ~aw /\ last => step = Tail(ahead)
          /\ ~aw /\ ~last => step = ahead
      BY <3>a, StepFacts
    <3>3. next = step
      BY <2>b
    <3> HIDE DEF step
    <3> QED BY <3>1, <3>2, <3>3
  <2> HIDE DEF nAw, nLast, nB
  <2>3. m_w' = next \o m_aw'
    <3>1. CASE aw /\ last
      BY <1>2, <2>0, <2>1, <2>2, <3>1, MoveConcat
    <3>2. CASE aw /\ ~last
      BY <1>2, <2>0, <2>1, <2>2, <3>2, MoveConcat
    <3>3. CASE ~aw /\ last
      BY <1>2, <2>0, <2>1, <2>2, <3>3, MoveConcat
    <3>4. CASE ~aw /\ ~last
      BY <1>2, <2>1, <2>2, <3>4
    <3> QED BY <3>1, <3>2, <3>3, <3>4
  <2>4. m_aw' \in Seq(Wr!Lens) /\ Len(m_aw') = Len(m_aw) - nAw
    BY <1>2, <1>3, <2>a, <2>1
  <2>5. IF next = <<>> THEN m_sent' = 0 ELSE m_sent' \in 0..Head(next)
    <3>1. next # <<>> => Head(next) \in Nat
      BY <2>2, LensFacts, HeadTailProperties
    <3>2. CASE last
      BY <2>1, <3>1, <3>2
    <3>3. CASE ~last /\ ahead = <<>>
      BY <1>1, <2>0, <2>1, <3>1, <3>3 DEF WrMaster
    <3>4. CASE ~last /\ ahead # <<>>
      <4>1. m_sent \in 0..Head(ahead) /\ next # <<>> /\ Head(next) = Head(ahead)
        BY <2>2, <3>4 DEF WrMaster
      <4>2. m_sent' = (IF w THEN m_sent + 1 ELSE m_sent) /\ (w => m_sent # Head(ahead))
        BY <1>5, <2>1, <3>4 DEF w
      <4> QED BY <3>1, <4>1, <4>2
    <3> QED BY <3>2, <3>3, <3>4
  <2>6. /\ m_w_cnt' = Len(next) /\ m_b_cnt' \in Nat /\ m_cnt' = m_w_cnt' + m_b_cnt'
        /\ m_cnt' <= MOT
        /\ m_out' = m_cnt' + Len(m_aw') /\ m_out' <= ISSUE
    <3>1. m_cnt' <= MOT
      <4>1. m_cnt <= MOT /\ m_cnt \in Nat
        BY <1>2 DEF WrMaster
      <4> QED BY <1>2, <2>0, <2>a, <2>1, <4>1
    <3>2. m_b_cnt' \in Nat
      BY <1>2, <2>0, <2>a, <2>1
    <3>3. m_w_cnt' = Len(next) /\ m_cnt' = m_w_cnt' + m_b_cnt'
      <4>1. m_w_cnt' = Len(next)
        BY <1>2, <2>a, <2>1, <2>2
      <4>2. m_cnt' = m_w_cnt' + m_b_cnt'
        BY <1>2, <2>a, <2>1
      <4> QED BY <4>1, <4>2
    <3>4. m_out' = m_cnt' + Len(m_aw')
      <4>1. m_out' = m_out - nB /\ m_cnt' = m_cnt + nAw - nB
        BY <2>1
      <4>2. Len(m_aw') = Len(m_aw) - nAw
        BY <2>4
      <4> QED BY <1>2, <2>a, <4>1, <4>2
    <3>5. m_out' <= ISSUE
      BY <1>2, <2>a, <2>1
    <3> QED BY <3>1, <3>2, <3>3, <3>4, <3>5
  <2> QED BY <2>2, <2>3, <2>4, <2>5, <2>6 DEF WrMaster
<1> QED BY <1>1, <1>6, <1>7

(* The slave's side of an edge. *)
LEMMA WrSlaveEdge ==
  ASSUME Wr!AxiRstcrossWrAssumption, NEW i \in Wr!Inputs, WrSlave, 
         Wr!SlaveTracking(i), Wr!SlaveNext(i),
         NEW aw, aw <=> Wr!SAw(i), NEW last, last <=> Wr!SW(i) /\ Wr!SWLast,
         aw => /\ Head(m_aw) \in Wr!Lens
               /\ Len(s_cmds) + s_owed < MOT /\ Len(s_cmds) + s_owed < ISSUE,
         Wr!SW(i) => s_cmds # <<>> /\ (Wr!SWLast <=> s_beats = Head(s_cmds)),
         Wr!SB(i) => s_owed > 0
  PROVE  /\ WrSlave'
         /\ s_cmds' = IF i.s_rst THEN <<>> ELSE Step(s_cmds, aw, last, Head(m_aw))
         /\ ~i.s_rst => /\ s_owed' = s_owed + (IF last THEN 1 ELSE 0) - (IF Wr!SB(i) THEN 1 ELSE 0)
                        /\ s_beats' = (IF last THEN 0 ELSE IF Wr!SW(i) THEN s_beats + 1 ELSE s_beats)
<1> DEFINE w == Wr!SW(i)
           b == Wr!SB(i)
           next == Step(s_cmds, aw, last, Head(m_aw))
<1>1. /\ i.s_rst \in BOOLEAN /\ w \in BOOLEAN /\ b \in BOOLEAN
      /\ last => w
      /\ w => (last <=> s_beats = Head(s_cmds))
  BY DEF Wr!Inputs, Wr!SW, Wr!SB, Wr!s_empty, Wr!s_b_cnt_zero
<1>2. /\ s_cmds \in Seq(Wr!Lens) /\ Len(s_cmds) \in Nat /\ s_len = s_cmds
      /\ s_owed \in Nat /\ MOT \in Nat /\ ISSUE \in Nat /\ s_early = 0
  BY DEF WrSlave, Wr!AxiRstcrossWrAssumption
<1>3. s_cmds # <<>> => /\ Head(s_cmds) \in Wr!Lens /\ Head(s_cmds) \in Nat /\ Head(s_cmds) < 2^LEN
                       /\ Len(s_cmds) > 0
  BY <1>2, HeadTailProperties, EmptySeq, LensFacts
<1>4. CASE i.s_rst
  BY <1>4, <1>2 DEF WrSlave, Wr!SlaveTracking, Wr!SlaveNext
<1>5. CASE ~i.s_rst
  <2>0. /\ aw => Head(m_aw) \in Wr!Lens
        /\ w => s_cmds # <<>>
        /\ last => s_cmds # <<>>
        /\ b => s_owed > 0
    BY <1>1
  <2>1. /\ next \in Seq(Wr!Lens)
        /\ Len(next) = Len(s_cmds) + (IF aw THEN 1 ELSE 0) - (IF last THEN 1 ELSE 0)
        /\ ~last /\ s_cmds # <<>> => next # <<>> /\ Head(next) = Head(s_cmds)
        /\ aw /\ last => next = Append(Tail(s_cmds), Head(m_aw))
        /\ aw /\ ~last => next = Append(s_cmds, Head(m_aw))
        /\ ~aw /\ last => next = Tail(s_cmds)
        /\ ~aw /\ ~last => next = s_cmds
    <3>1. /\ next \in Seq(Wr!Lens)
          /\ Len(next) = Len(s_cmds) + (IF aw THEN 1 ELSE 0) - (IF last THEN 1 ELSE 0)
          /\ ~last /\ s_cmds # <<>> => next # <<>> /\ Head(next) = Head(s_cmds)
      BY <1>2, <2>0, StepFacts
    <3>2. /\ aw /\ last => next = Append(Tail(s_cmds), Head(m_aw))
          /\ aw /\ ~last => next = Append(s_cmds, Head(m_aw))
          /\ ~aw /\ last => next = Tail(s_cmds)
          /\ ~aw /\ ~last => next = s_cmds
      BY <1>2, <2>0, StepFacts
    <3> QED BY <3>1, <3>2
  <2>2. s_len' = next
    <3>1. s_len' = Wr!LengthFifo(i)
      BY <1>5 DEF Wr!SlaveTracking
    <3>2. ~(last /\ Wr!s_empty)
      BY <1>1, <1>2 DEF Wr!s_empty
    <3> QED BY <1>1, <1>2, <2>1, <3>1, <3>2 DEF Wr!LengthFifo
  <2>3. aw /\ s_cmds # <<>> => /\ Append(s_cmds, Head(m_aw)) # <<>>
                               /\ Head(Append(s_cmds, Head(m_aw))) = Head(s_cmds)
    BY <1>2, HeadTailAppend, AppendProperties
  <2>4. /\ s_cmds' = next /\ s_early' = 0
        /\ s_owed' = s_owed + (IF last THEN 1 ELSE 0) - (IF b THEN 1 ELSE 0)
        /\ s_beats' = (IF last THEN 0 ELSE IF w THEN s_beats + 1 ELSE s_beats)
        /\ s_whole' = TRUE
    <3> DEFINE cmds == IF aw THEN Append(s_cmds, Head(m_aw)) ELSE s_cmds
    <3>1. w => cmds # <<>> /\ Head(cmds) = Head(s_cmds)
      BY <1>1, <2>3
    <3> DEFINE data == s_early + (IF last THEN 1 ELSE 0)
               both == cmds # <<>> /\ data > 0
    <3>2. data = (IF last THEN 1 ELSE 0) /\ (both <=> last)
      BY <1>1, <1>2, <3>1
    <3>3. Wr!Count(s_early, Wr!SW(i) /\ Wr!SWLast, FALSE) = data
      BY <1>2 DEF Wr!Count
    <3>4. cmds = IF Wr!SAw(i) THEN Append(s_cmds, Head(m_aw)) ELSE s_cmds
      OBVIOUS
    <3> HIDE DEF data, cmds
    <3>5. s_cmds' = IF last THEN Tail(cmds) ELSE cmds
      BY <1>5, <3>2, <3>3, <3>4 DEF Wr!SlaveNext
    <3>6. s_early' = 0
      BY <1>5, <3>2, <3>3, <3>4 DEF Wr!SlaveNext, Wr!Count
    <3>7. s_owed' = s_owed + (IF last THEN 1 ELSE 0) - (IF b THEN 1 ELSE 0)
      BY <1>5, <3>2, <3>3, <3>4 DEF Wr!SlaveNext, Wr!Count
    <3>8. s_beats' = (IF last THEN 0 ELSE IF w THEN s_beats + 1 ELSE s_beats)
      BY <1>1, <1>5 DEF Wr!SlaveNext
    <3>9. s_whole' = TRUE
      <4>1. s_whole' = (s_whole /\ (Wr!SW(i) /\ s_early = 0 /\ cmds # <<>> =>
                                      Wr!SWLast = (s_beats = Head(cmds))))
        BY <1>5, <3>4 DEF Wr!SlaveNext
      <4>2. w => Wr!SWLast = (s_beats = Head(cmds))
        BY <3>1, Zenon DEF Wr!SWLast, Wr!s_last, Wr!m_w_last
      <4> QED BY <4>1, <4>2 DEF WrSlave
    <3> QED BY <3>5, <3>6, <3>7, <3>8, <3>9 DEF Step, cmds
  <2>5. IF next = <<>> THEN s_beats' = 0 ELSE s_beats' \in 0..Head(next)
    <3> HIDE DEF next
    <3>1. next # <<>> => Head(next) \in Nat
      BY <2>1, LensFacts, HeadTailProperties
    <3>2. CASE last
      BY <2>4, <3>1, <3>2
    <3>3. CASE ~last /\ s_cmds = <<>>
      BY <1>1, <2>0, <2>4, <3>1, <3>3 DEF WrSlave
    <3>4. CASE ~last /\ s_cmds # <<>>
      <4>1. s_beats \in 0..Head(s_cmds) /\ next # <<>> /\ Head(next) = Head(s_cmds)
        BY <2>1, <3>4 DEF WrSlave
      <4>2. s_beats' = (IF w THEN s_beats + 1 ELSE s_beats) /\ (w => s_beats # Head(s_cmds))
        BY <1>1, <2>4, <3>4
      <4> QED BY <3>1, <4>1, <4>2
    <3> QED BY <3>2, <3>3, <3>4
  <2>6. s_b_cnt' = s_owed' /\ s_owed' \in Nat
    <3>1. s_b_cnt' = s_b_cnt + (IF last THEN 1 ELSE 0) - (IF b THEN 1 ELSE 0)
      BY <1>5 DEF Wr!SlaveTracking, Wr!Count
    <3> QED BY <1>1, <1>2, <2>4, <3>1 DEF WrSlave
  <2>7. s_w_cnt' = s_beats'
    <3>1. s_w_cnt' = (IF last THEN 0 ELSE IF w THEN (s_w_cnt + 1) % 2^LEN ELSE s_w_cnt)
      BY <1>5 DEF Wr!SlaveTracking
    <3>2. w /\ ~last => s_beats + 1 \in 0..(2^LEN - 1)
      BY <1>1, <1>3, LensFacts DEF WrSlave
    <3>3. w /\ ~last => (s_beats + 1) % 2^LEN = s_beats + 1
      BY <3>2, LensFacts
    <3> QED BY <1>1, <2>4, <3>1, <3>3 DEF WrSlave
  <2>8. Len(next) + s_owed' <= MOT /\ Len(next) + s_owed' <= ISSUE
    BY <1>1, <1>2, <2>1, <2>4 DEF WrSlave
  <2>9. WrSlave'
    BY <2>1, <2>2, <2>4, <2>5, <2>6, <2>7, <2>8 DEF WrSlave
  <2> QED BY <1>5, <2>4, <2>9
<1> QED BY <1>1, <1>4, <1>5

(* What the two sides' handshakes presuppose and how they are linked.      *)
LEMMA WrHandshakes ==
  ASSUME Wr!AxiRstcrossWrAssumption, NEW i \in Wr!Inputs, NEW ahead,
         WrMaster(ahead), WrSlave, WrEnds(ahead), Wr!Offered(i)
  PROVE  /\ Wr!MAw(i) => m_aw # <<>> /\ m_cnt # MOT
         /\ Wr!MW(i) => ahead # <<>>
         /\ Wr!MB(i) => m_b_cnt > 0
         /\ Wr!SAw(i) => /\ Head(m_aw) \in Wr!Lens
                         /\ Len(s_cmds) + s_owed < MOT /\ Len(s_cmds) + s_owed < ISSUE
         /\ Wr!SW(i) => s_cmds # <<>> /\ (Wr!SWLast <=> s_beats = Head(s_cmds))
         /\ Wr!SB(i) => s_owed > 0
         /\ ~m_phony /\ ~s_phony =>
              /\ Wr!MAw(i) <=> Wr!SAw(i)
              /\ Wr!MW(i) <=> Wr!SW(i)
              /\ Wr!MB(i) <=> Wr!SB(i)
              /\ Wr!SWLast <=> Wr!m_w_last
         /\ m_phony \/ s_phony => ~Wr!MAw(i) /\ ~Wr!SAw(i)
         /\ s_phony => ~Wr!MW(i) /\ ~Wr!MB(i)
         /\ m_phony => ~Wr!SW(i) /\ ~Wr!SB(i)
<1>0. /\ i.m_aw_valid \in BOOLEAN /\ i.m_w_valid \in BOOLEAN /\ i.m_b_ready \in BOOLEAN
      /\ i.s_aw_ready \in BOOLEAN /\ i.s_w_ready \in BOOLEAN /\ i.s_b_valid \in BOOLEAN
      /\ m_phony \in BOOLEAN /\ s_phony \in BOOLEAN
  BY DEF Wr!Inputs, WrEnds
<1>1. /\ i.m_aw_valid => m_aw # <<>>
      /\ i.m_w_valid => m_w # <<>>
      /\ i.s_b_valid => s_owed > 0
  BY DEF Wr!Offered
<1>2. /\ ahead \in Seq(Wr!Lens) /\ m_aw \in Seq(Wr!Lens) /\ m_w = ahead \o m_aw
      /\ Len(ahead) \in Nat /\ Len(m_aw) \in Nat /\ MOT \in Nat /\ ISSUE \in Nat
      /\ m_w_cnt = Len(ahead) /\ m_b_cnt \in Nat /\ m_cnt = m_w_cnt + m_b_cnt /\ m_cnt <= MOT
      /\ m_out = m_cnt + Len(m_aw) /\ m_out <= ISSUE
      /\ m_cnt \in Nat
  BY DEF WrMaster, Wr!AxiRstcrossWrAssumption
<1>3. /\ Wr!m_w_cnt_zero <=> ahead = <<>>
      /\ Wr!m_b_cnt_zero <=> m_b_cnt = 0
      /\ Wr!m_cnt_max <=> m_cnt = MOT
      /\ s_phony => ahead = <<>> /\ m_b_cnt = 0
  <2>1. m_w_cnt = 0 <=> ahead = <<>>
    BY <1>2, EmptySeq
  <2>2. s_phony => m_w_cnt = 0 /\ m_b_cnt = 0
    BY <1>2 DEF WrEnds
  <2> QED BY <2>1, <2>2 DEF Wr!m_w_cnt_zero, Wr!m_b_cnt_zero, Wr!m_cnt_max
<1>4. /\ s_cmds \in Seq(Wr!Lens) /\ s_owed \in Nat /\ s_len = s_cmds /\ s_b_cnt = s_owed
      /\ s_w_cnt = s_beats
      /\ m_phony => s_cmds = <<>> /\ s_owed = 0
      /\ ~m_phony /\ ~s_phony => s_cmds = ahead /\ s_owed = m_b_cnt /\ s_beats = m_sent
  BY DEF WrSlave, WrEnds
<1>5. /\ Wr!s_empty <=> s_cmds = <<>>
      /\ Wr!s_b_cnt_zero <=> s_owed = 0
      /\ s_cmds # <<>> => (Wr!s_last <=> s_beats = Head(s_cmds))
  BY <1>4 DEF Wr!s_empty, Wr!s_b_cnt_zero, Wr!s_last
<1>6. ahead # <<>> => m_w # <<>> /\ Head(m_w) = Head(ahead)
  <2>1. CASE m_aw = <<>>
    BY <1>2, <2>1, ConcatEmptySeq
  <2>2. CASE m_aw # <<>>
    BY <1>2, <2>2, HeadTailProperties, ConcatFacts, ConcatEqualIffEmpty
  <2> QED BY <2>1, <2>2
<1>7. m_aw # <<>> => Head(m_aw) \in Wr!Lens /\ Len(m_aw) > 0
  BY <1>2, HeadTailProperties, EmptySeq
<1>8. /\ Wr!MAw(i) => m_aw # <<>> /\ m_cnt # MOT /\ ~m_phony /\ ~s_phony
      /\ Wr!MW(i) => ahead # <<>>
      /\ Wr!MB(i) => m_b_cnt > 0
  <2>1. Wr!MAw(i) => m_aw # <<>> /\ m_cnt # MOT /\ ~m_phony /\ ~s_phony
    BY <1>1, <1>3 DEF Wr!MAw
  <2>2. Wr!MW(i) => ahead # <<>>
    BY <1>3 DEF Wr!MW
  <2>3. Wr!MB(i) => m_b_cnt # 0
    BY <1>1, <1>3, <1>4 DEF Wr!MB
  <2> QED BY <1>2, <2>1, <2>2, <2>3
<1>9. Wr!SAw(i) => /\ Head(m_aw) \in Wr!Lens
                   /\ Len(s_cmds) + s_owed < MOT /\ Len(s_cmds) + s_owed < ISSUE
  <2> SUFFICES ASSUME Wr!SAw(i)
               PROVE  /\ Head(m_aw) \in Wr!Lens
                      /\ Len(s_cmds) + s_owed < MOT /\ Len(s_cmds) + s_owed < ISSUE
    OBVIOUS
  <2>1. m_aw # <<>> /\ m_cnt # MOT /\ ~m_phony /\ ~s_phony
    BY <1>1, <1>3 DEF Wr!SAw
  <2>2. Len(s_cmds) + s_owed = m_cnt
    BY <1>2, <1>4, <2>1
  <2> QED BY <1>2, <1>7, <2>1, <2>2
<1>10. ~m_phony /\ ~s_phony =>
         /\ Wr!MAw(i) <=> Wr!SAw(i)
         /\ Wr!MW(i) <=> Wr!SW(i)
         /\ Wr!MB(i) <=> Wr!SB(i)
         /\ Wr!SWLast <=> Wr!m_w_last
         /\ ahead # <<>> => (Wr!m_w_last <=> s_beats = Head(s_cmds))
  <2> SUFFICES ASSUME ~m_phony, ~s_phony
               PROVE  /\ Wr!MAw(i) <=> Wr!SAw(i)
                      /\ Wr!MW(i) <=> Wr!SW(i)
                      /\ Wr!MB(i) <=> Wr!SB(i)
                      /\ Wr!SWLast <=> Wr!m_w_last
                      /\ ahead # <<>> => (Wr!m_w_last <=> s_beats = Head(s_cmds))
    OBVIOUS
  <2>1. Wr!MAw(i) <=> Wr!SAw(i)
    BY <1>0 DEF Wr!MAw, Wr!SAw
  <2>2. Wr!MW(i) <=> Wr!SW(i)
    BY <1>0 DEF Wr!MW, Wr!SW
  <2>3. Wr!MB(i) <=> Wr!SB(i)
    BY <1>0 DEF Wr!MB, Wr!SB
  <2>4. Wr!SWLast <=> Wr!m_w_last
    BY DEF Wr!SWLast
  <2>5. ahead # <<>> => (Wr!m_w_last <=> s_beats = Head(s_cmds))
    BY <1>4, <1>6 DEF Wr!m_w_last
  <2> QED BY <2>1, <2>2, <2>3, <2>4, <2>5
<1>11. m_phony \/ s_phony => ~Wr!MAw(i) /\ ~Wr!SAw(i)
  BY DEF Wr!MAw, Wr!SAw
<1>12. s_phony => ~Wr!MW(i) /\ ~Wr!MB(i)
  BY <1>3 DEF Wr!MW, Wr!MB
<1>13. m_phony => ~Wr!SW(i) /\ ~Wr!SB(i)
  <2>1. m_phony => ~Wr!SW(i)
    BY <1>4, <1>5 DEF Wr!SW
  <2>2. m_phony => ~Wr!SB(i)
    BY <1>4, <1>5 DEF Wr!SB
  <2> QED BY <2>1, <2>2
<1>14. Wr!SW(i) => s_cmds # <<>> /\ (Wr!SWLast <=> s_beats = Head(s_cmds))
  <2>1. CASE s_phony
    <3>1. Wr!SW(i) => s_cmds # <<>>
      BY <1>5, <2>1 DEF Wr!SW
    <3> QED BY <1>5, <2>1, <3>1 DEF Wr!SWLast
  <2>2. CASE ~s_phony
    <3>1. Wr!SW(i) => ~m_phony
      BY <1>13
    <3> QED BY <1>4, <1>8, <1>10, <2>2, <3>1
  <2> QED BY <2>1, <2>2
<1>15. Wr!SB(i) => s_owed > 0
  BY <1>1 DEF Wr!SB
<1> QED BY <1>8, <1>9, <1>10, <1>11, <1>12, <1>13, <1>14, <1>15

LEMMA WrClk ==
  ASSUME Wr!AxiRstcrossWrAssumption, WrInv, NEW i \in Wr!Inputs, Wr!Clk(i)
  PROVE  WrInv'
<1> PICK ahead \in Seq(Wr!Lens) : WrMaster(ahead) /\ WrSlave /\ WrEnds(ahead)
  BY DEF WrInv
<1> DEFINE mLast == Wr!MW(i) /\ Wr!m_w_last
           sLast == Wr!SW(i) /\ Wr!SWLast
           step == Step(ahead, Wr!MAw(i), mLast, Head(m_aw))
<1> PICK next : next = IF i.m_rst THEN <<>> ELSE step
  OBVIOUS
<1>1. /\ Wr!Offered(i) /\ Wr!MasterTracking(i) /\ Wr!MasterNext(i)
      /\ Wr!SlaveTracking(i) /\ Wr!SlaveNext(i)
  BY DEF Wr!Clk
<1>2. i.m_rst \in BOOLEAN /\ i.s_rst \in BOOLEAN
  BY DEF Wr!Inputs
<1>3. /\ Wr!MAw(i) => m_aw # <<>> /\ m_cnt # MOT
      /\ Wr!MW(i) => ahead # <<>>
      /\ Wr!MB(i) => m_b_cnt > 0
  BY <1>1, WrHandshakes
<1>4. /\ Wr!SAw(i) => /\ Head(m_aw) \in Wr!Lens
                      /\ Len(s_cmds) + s_owed < MOT /\ Len(s_cmds) + s_owed < ISSUE
      /\ Wr!SW(i) => s_cmds # <<>> /\ (Wr!SWLast <=> s_beats = Head(s_cmds))
      /\ Wr!SB(i) => s_owed > 0
  BY <1>1, WrHandshakes
<1>5. WrMaster(next)'
  <2>1. (i.m_rst => next = <<>>) /\ (~i.m_rst => next = step)
    OBVIOUS
  <2> QED BY <1>1, <1>3, <2>1, WrMasterEdge
<1>6. /\ WrSlave'
      /\ i.s_rst => s_cmds' = <<>>
      /\ ~i.s_rst => s_cmds' = Step(s_cmds, Wr!SAw(i), sLast, Head(m_aw))
      /\ ~i.s_rst => /\ s_owed' = s_owed + (IF sLast THEN 1 ELSE 0) - (IF Wr!SB(i) THEN 1 ELSE 0)
                     /\ s_beats' = (IF sLast THEN 0 ELSE IF Wr!SW(i) THEN s_beats + 1 ELSE s_beats)
  BY <1>1, <1>4, WrSlaveEdge
<1>7. WrEnds(next)'
  <2>1. /\ m_phony' \in BOOLEAN /\ s_phony' \in BOOLEAN
        /\ m_phony' <=> i.s_rst \/ (m_phony /\ ~(m_w_cnt = 0 /\ m_b_cnt = 0))
        /\ s_phony' <=> i.m_rst \/ (s_phony /\ ~(s_len = <<>> /\ s_b_cnt = 0))
    BY <1>1, <1>2 DEF Wr!MasterTracking, Wr!SlaveTracking, Wr!MasterPhony, Wr!SlavePhony,
                      Wr!m_w_cnt_zero, Wr!m_b_cnt_zero, Wr!s_empty, Wr!s_b_cnt_zero
  <2>2. /\ m_phony => s_cmds = <<>> /\ s_owed = 0
        /\ s_phony => m_cnt = 0
        /\ ~m_phony /\ ~s_phony => s_cmds = ahead /\ s_owed = m_b_cnt /\ s_beats = m_sent
    BY DEF WrEnds
  <2>3. /\ m_w_cnt = Len(ahead) /\ m_b_cnt \in Nat /\ m_cnt = m_w_cnt + m_b_cnt /\ Len(ahead) \in Nat
        /\ ahead = <<>> => m_sent = 0
        /\ s_len = s_cmds /\ s_b_cnt = s_owed /\ s_owed \in Nat
        /\ s_cmds = <<>> => s_beats = 0
    BY DEF WrMaster, WrSlave
  <2>4. m_cnt = 0 <=> ahead = <<>> /\ m_b_cnt = 0
    BY <2>3, EmptySeq
  <2>5. /\ ~m_phony /\ ~s_phony => /\ Wr!MAw(i) <=> Wr!SAw(i)
                                   /\ Wr!MW(i) <=> Wr!SW(i)
                                   /\ Wr!MB(i) <=> Wr!SB(i)
                                   /\ Wr!SWLast <=> Wr!m_w_last
        /\ m_phony \/ s_phony => ~Wr!MAw(i) /\ ~Wr!SAw(i)
        /\ s_phony => ~Wr!MW(i) /\ ~Wr!MB(i)
        /\ m_phony => ~Wr!SW(i) /\ ~Wr!SB(i)
    BY <1>1, WrHandshakes
  <2>6. ~i.m_rst =>
          /\ m_sent' = (IF mLast THEN 0 ELSE Wr!Count(m_sent, Wr!MW(i), FALSE))
          /\ m_b_cnt' = Wr!Count(m_b_cnt, mLast, Wr!MB(i))
          /\ m_cnt' = Wr!Count(m_cnt, Wr!MAw(i), Wr!MB(i))
    BY <1>1, <1>2 DEF Wr!MasterTracking, Wr!MasterNext
  <2>7. m_phony' => s_cmds' = <<>> /\ s_owed' = 0
    <3>1. CASE i.s_rst
      BY <1>1, <1>6, <3>1 DEF Wr!SlaveNext
    <3>2. CASE ~i.s_rst /\ m_phony
      <4>1. s_cmds' = s_cmds
        BY <1>6, <2>5, <3>2 DEF Step
      <4>2. s_owed' = s_owed
        BY <1>6, <2>3, <2>5, <3>2
      <4> QED BY <2>2, <3>2, <4>1, <4>2
    <3> QED BY <2>1, <3>1, <3>2
  <2>8. s_phony' => m_cnt' = 0
    <3>1. CASE i.m_rst
      BY <1>1, <3>1 DEF Wr!MasterTracking
    <3>2. CASE ~i.m_rst /\ s_phony
      BY <2>2, <2>5, <2>6, <3>2 DEF Wr!Count
    <3> QED BY <2>1, <3>1, <3>2
  <2>9. ASSUME ~m_phony', ~s_phony'
        PROVE  s_cmds' = next /\ s_owed' = m_b_cnt' /\ s_beats' = m_sent'
    <3>1. ~i.m_rst /\ ~i.s_rst
      BY <1>2, <2>1, <2>9
    <3>2. CASE ~m_phony /\ ~s_phony
      <4>1. sLast <=> mLast
        BY <2>5, <3>2
      <4>2. s_cmds' = next
        BY <1>6, <2>2, <2>5, <3>1, <3>2, <4>1 DEF Step
      <4>3. s_owed' = m_b_cnt'
        BY <1>6, <2>2, <2>3, <2>5, <2>6, <3>1, <3>2, <4>1 DEF Wr!Count
      <4>4. s_beats' = m_sent'
        <5>1. m_sent \in Int
          BY DEF WrMaster
        <5> QED BY <1>6, <2>2, <2>5, <2>6, <3>1, <3>2, <4>1, <5>1 DEF Wr!Count
      <4> QED BY <4>2, <4>3, <4>4
    <3>3. CASE m_phony \/ s_phony
      <4>1. /\ ahead = <<>> /\ m_b_cnt = 0 /\ m_sent = 0
            /\ s_cmds = <<>> /\ s_owed = 0 /\ s_beats = 0
        <5>1. CASE m_phony
          <6>1. m_w_cnt = 0 /\ m_b_cnt = 0
            BY <2>1, <2>9, <5>1
          <6>2. m_cnt = 0
            BY <2>3, <6>1
          <6> QED BY <2>2, <2>3, <2>4, <5>1, <6>2
        <5>2. CASE s_phony
          <6>1. s_len = <<>> /\ s_b_cnt = 0
            BY <2>1, <2>9, <5>2
          <6> QED BY <2>2, <2>3, <2>4, <5>2, <6>1
        <5> QED BY <3>3, <5>1, <5>2
      <4>2. ~Wr!MAw(i) /\ ~Wr!SAw(i) /\ ~Wr!MW(i) /\ ~Wr!MB(i) /\ ~Wr!SW(i) /\ ~Wr!SB(i)
        <5>1. ~Wr!MW(i) /\ ~Wr!MB(i)
          BY <1>3, <4>1
        <5>2. ~Wr!SW(i) /\ ~Wr!SB(i)
          BY <1>4, <4>1
        <5> QED BY <2>5, <3>3, <5>1, <5>2
      <4>3. s_cmds' = <<>> /\ next = <<>>
        BY <1>6, <3>1, <4>1, <4>2 DEF Step
      <4>4. s_owed' = 0 /\ s_beats' = 0
        BY <1>6, <3>1, <4>1, <4>2
      <4>5. m_b_cnt' = 0 /\ m_sent' = 0
        BY <2>6, <3>1, <4>1, <4>2 DEF Wr!Count
      <4> QED BY <4>3, <4>4, <4>5
    <3> QED BY <3>2, <3>3
  <2> QED BY <2>1, <2>7, <2>8, <2>9 DEF WrEnds
<1>8. next \in Seq(Wr!Lens)
  BY <1>5 DEF WrMaster
<1>9. Wr!Lens = Wr!Lens'
  BY DEF Wr!Lens
<1> QED BY <1>5, <1>6, <1>7, <1>8, <1>9 DEF WrInv

(* The master decides on one more burst. *)
LEMMA WrIssue ==
  ASSUME Wr!AxiRstcrossWrAssumption, WrInv, NEW len \in Wr!Lens, Wr!Issue(len)
  PROVE  WrInv'
<1> PICK ahead \in Seq(Wr!Lens) : WrMaster(ahead) /\ WrSlave /\ WrEnds(ahead)
  BY DEF WrInv
<1>1. /\ m_out < ISSUE /\ m_aw' = Append(m_aw, len) /\ m_w' = Append(m_w, len)
      /\ m_out' = m_out + 1
      /\ UNCHANGED <<m_phony, m_w_cnt, m_b_cnt, m_cnt, s_phony, s_len, s_w_cnt, s_b_cnt,
                     m_sent, s_cmds, s_early, s_beats, s_owed, s_whole>>
  BY DEF Wr!Issue, Wr!resets, Wr!mTrack, Wr!sTrack, Wr!slave
<1>2. WrSlave' /\ WrEnds(ahead)'
  BY <1>1 DEF WrSlave, WrEnds
<1>3. WrMaster(ahead)'
  <2>1. /\ m_aw \in Seq(Wr!Lens) /\ m_w = ahead \o m_aw /\ Len(m_aw) \in Nat
        /\ m_cnt \in Int /\ m_out = m_cnt + Len(m_aw) /\ m_out <= ISSUE /\ ISSUE \in Nat
    BY DEF WrMaster, Wr!AxiRstcrossWrAssumption
  <2>2. m_aw' \in Seq(Wr!Lens) /\ Len(m_aw') = Len(m_aw) + 1
    BY <1>1, <2>1, AppendProperties
  <2>3. m_w' = ahead \o m_aw'
    <3>1. m_aw \in Seq(Wr!Lens)
      BY <2>1
    <3>2. Append(ahead \o m_aw, len) = ahead \o Append(m_aw, len)
      BY <3>1, ConcatFacts
    <3> QED BY <1>1, <2>1, <3>2
  <2>4. m_out' = m_cnt' + Len(m_aw') /\ m_out' <= ISSUE
    BY <1>1, <2>1, <2>2
  <2> QED BY <1>1, <2>2, <2>3, <2>4 DEF WrMaster
<1> QED BY <1>2, <1>3 DEF WrInv

LEMMA WrInit ==
  ASSUME Wr!AxiRstcrossWrAssumption, Wr!Init
  PROVE  WrInv
<1>1. <<>> \in Seq(Wr!Lens) /\ <<>> \o <<>> = <<>> /\ Len(<<>>) = 0
  BY EmptySeq, ConcatEmptySeq
<1>2. WrMaster(<<>>) /\ WrSlave /\ WrEnds(<<>>)
  BY <1>1 DEF Wr!AxiRstcrossWrAssumption, Wr!Init, WrMaster, WrSlave, WrEnds
<1> QED BY <1>1, <1>2 DEF WrInv

(* What the run checks follows from the invariant. *)
LEMMA WrSafe ==
  ASSUME Wr!AxiRstcrossWrAssumption, WrInv
  PROVE  /\ Wr!TypeOK /\ Wr!MasterTracked /\ Wr!SlaveTracked /\ Wr!EndsAgree
         /\ Wr!BurstsWhole /\ Wr!NoSpuriousResponse
<1> PICK ahead \in Seq(Wr!Lens) : WrMaster(ahead) /\ WrSlave /\ WrEnds(ahead)
  BY DEF WrInv
<1>1. /\ m_aw \in Seq(Wr!Lens) /\ m_w = ahead \o m_aw
      /\ m_w_cnt = Len(ahead) /\ m_b_cnt \in Nat
      /\ m_cnt = m_w_cnt + m_b_cnt /\ m_cnt <= MOT
      /\ m_out = m_cnt + Len(m_aw) /\ m_out <= ISSUE
      /\ IF ahead = <<>> THEN m_sent = 0 ELSE m_sent \in 0..Head(ahead)
  BY DEF WrMaster
<1>2. m_w \in Seq(Wr!Lens) /\ Len(m_w) = Len(ahead) + Len(m_aw) /\ Len(m_aw) \in Nat /\ Len(ahead) \in Nat
  BY <1>1, ConcatProperties
<1>3. Wr!DataDone = m_b_cnt /\ Wr!Accepted = m_cnt
  BY <1>1, <1>2 DEF Wr!DataDone, Wr!Accepted
<1>4. /\ s_cmds \in Seq(Wr!Lens) /\ s_owed \in Nat /\ s_early = 0
      /\ s_len = s_cmds /\ s_w_cnt = s_beats /\ s_b_cnt = s_owed
      /\ Len(s_cmds) + s_owed <= MOT /\ Len(s_cmds) + s_owed <= ISSUE
      /\ s_whole = TRUE /\ Len(s_cmds) \in Nat
      /\ IF s_cmds = <<>> THEN s_beats = 0 ELSE s_beats \in 0..Head(s_cmds)
  BY DEF WrSlave
<1>5. MOT \in Nat /\ ISSUE \in Nat
  BY DEF Wr!AxiRstcrossWrAssumption
<1>6. 0 \in Wr!Lens /\ \A n \in Wr!Lens : 0..n \subseteq Wr!Lens
  BY LensFacts DEF Wr!Lens
<1>7. m_sent \in Wr!Lens /\ s_beats \in Wr!Lens
  <2>1. \A s \in Seq(Wr!Lens) : s # <<>> => Head(s) \in Wr!Lens
    BY HeadTailProperties
  <2> QED BY <1>1, <1>4, <1>6, <2>1
<1>8. Wr!TypeOK
  <2>1. m_w_cnt \in 0..MOT /\ m_b_cnt \in 0..MOT /\ m_cnt \in 0..MOT /\ m_out \in 0..ISSUE
    BY <1>1, <1>2, <1>5
  <2>2. s_b_cnt \in 0..MOT /\ s_owed \in 0..ISSUE /\ s_early \in 0..ISSUE
    BY <1>4, <1>5
  <2> QED BY <1>1, <1>2, <1>4, <1>7, <2>1, <2>2 DEF Wr!TypeOK, WrEnds
<1>9. Wr!MasterTracked
  BY <1>1, <1>2, <1>3 DEF Wr!MasterTracked
<1>10. Wr!SlaveTracked
  BY <1>4, <1>5 DEF Wr!SlaveTracked, Wr!LengthsFit
<1>11. Wr!EndsAgree
  BY <1>1, <1>3 DEF Wr!EndsAgree, WrEnds
<1>12. Wr!BurstsWhole /\ Wr!NoSpuriousResponse
  BY <1>1, <1>2, <1>3, <1>4 DEF Wr!BurstsWhole, Wr!NoSpuriousResponse
<1> QED BY <1>8, <1>9, <1>10, <1>11, <1>12
--------------------------------------------------------------------------------
(* The read channels.  The inductive invariant: each side's tracking is    *)
(* that side's view, and the partner of a side that is fed phony traffic   *)
(* has nothing on its way.                                                 *)
Burst(cmds, beats) ==
    /\ cmds \in Seq(Rd!Lens) /\ Len(cmds) <= RD_MOT
    /\ IF cmds = <<>> THEN beats = 0 ELSE beats \in 0..Head(cmds)

RdMaster ==
    /\ Burst(m_aw, m_sent)
    /\ s_len = m_aw /\ m_w_cnt = m_sent /\ s_whole = TRUE

RdSlave == Burst(s_cmds, s_beats) /\ s_b_cnt = Len(s_cmds)

RdEnds ==
    /\ m_phony \in BOOLEAN /\ s_phony \in BOOLEAN
    /\ m_phony => s_cmds = <<>>
    /\ s_phony => m_aw = <<>>
    /\ ~m_phony /\ ~s_phony => s_cmds = m_aw /\ s_beats = m_sent

RdInv == RdMaster /\ RdSlave /\ RdEnds

LEMMA RdLensFacts ==
  ASSUME Rd!AxiRstcrossRdAssumption
  PROVE  /\ 2^RD_LEN \in Nat /\ 2^RD_LEN > 0 /\ RD_MOT \in Nat
         /\ \A n \in Rd!Lens : n \in Nat /\ n < 2^RD_LEN
         /\ \A n \in Rd!Lens : 0..n \subseteq Rd!Lens
<1>1. 2^RD_LEN \in Nat /\ 2^RD_LEN > 0
  BY PowerOfTwo DEF Rd!AxiRstcrossRdAssumption
<1> QED BY <1>1 DEF Rd!Lens, Rd!AxiRstcrossRdAssumption

(* A cycle of one side: a command may come, a beat may go, the last beat   *)
(* takes the burst with it.                                                *)
LEMMA BurstStep ==
  ASSUME Rd!AxiRstcrossRdAssumption,
         NEW cmds, NEW beats, Burst(cmds, beats),
         NEW add, NEW x, add => x \in Rd!Lens /\ Len(cmds) < RD_MOT,
         NEW beat, NEW last, last => beat,
         beat => cmds # <<>> /\ (last <=> beats = Head(cmds)),
         NEW cmds2, ~last => cmds2 = (IF add THEN Append(cmds, x) ELSE cmds),
         last => cmds2 = (IF add THEN Append(Tail(cmds), x) ELSE Tail(cmds)),
         NEW beats2, last => beats2 = 0, beat /\ ~last => beats2 = beats + 1, ~beat => beats2 = beats
  PROVE  /\ Burst(cmds2, beats2)
         /\ Len(cmds2) = Len(cmds) + (IF add THEN 1 ELSE 0) - (IF last THEN 1 ELSE 0)
<1> DEFINE step == Step(cmds, add, last, x)
<1>1. /\ cmds \in Seq(Rd!Lens) /\ Len(cmds) \in Nat /\ Len(cmds) <= RD_MOT
      /\ (add => x \in Rd!Lens) /\ (last => cmds # <<>>)
  BY DEF Burst
<1>2. cmds2 = step
  <2>1. /\ add /\ last => step = Append(Tail(cmds), x)
        /\ add /\ ~last => step = Append(cmds, x)
        /\ ~add /\ last => step = Tail(cmds)
        /\ ~add /\ ~last => step = cmds
    BY <1>1, StepFacts
  <2> HIDE DEF step
  <2> QED BY <2>1
<1>3. /\ step \in Seq(Rd!Lens)
      /\ Len(step) = Len(cmds) + (IF add THEN 1 ELSE 0) - (IF last THEN 1 ELSE 0)
      /\ ~last /\ cmds # <<>> => step # <<>> /\ Head(step) = Head(cmds)
  BY <1>1, StepFacts
<1> HIDE DEF step
<1>4. Len(step) <= RD_MOT
  <2>1. RD_MOT \in Nat /\ (add => Len(cmds) < RD_MOT)
    BY RdLensFacts
  <2>2. Len(step) = Len(cmds) + (IF add THEN 1 ELSE 0) - (IF last THEN 1 ELSE 0)
    BY <1>3
  <2>4. CASE add
    <3>1. CASE last
      BY <1>1, <2>1, <2>2, <2>4, <3>1
    <3>2. CASE ~last
      BY <1>1, <2>1, <2>2, <2>4, <3>2
    <3> QED BY <3>1, <3>2
  <2>5. CASE ~add
    <3>1. CASE last
      BY <1>1, <2>1, <2>2, <2>5, <3>1
    <3>2. CASE ~last
      BY <1>1, <2>1, <2>2, <2>5, <3>2
    <3> QED BY <3>1, <3>2
  <2> QED BY <2>4, <2>5
<1>5. IF step = <<>> THEN beats2 = 0 ELSE beats2 \in 0..Head(step)
  <2>1. step # <<>> => Head(step) \in Nat
    BY <1>3, RdLensFacts, HeadTailProperties
  <2>2. CASE last
    BY <2>1, <2>2
  <2>3. CASE ~last /\ cmds = <<>>
    BY <2>1, <2>3 DEF Burst
  <2>4. CASE ~last /\ cmds # <<>>
    <3>1. beats \in 0..Head(cmds) /\ step # <<>> /\ Head(step) = Head(cmds)
      BY <1>3, <2>4 DEF Burst
    <3>2. beats2 = beats \/ (beats2 = beats + 1 /\ beats # Head(cmds))
      BY <2>4
    <3> QED BY <2>1, <3>1, <3>2
  <2> QED BY <2>2, <2>3, <2>4
<1> QED BY <1>2, <1>3, <1>4, <1>5 DEF Burst

(* There is room for one more beat before the last. *)
LEMMA BurstRoom ==
  ASSUME Rd!AxiRstcrossRdAssumption, NEW cmds, NEW beats, Burst(cmds, beats),
         cmds # <<>>, beats # Head(cmds)
  PROVE  (beats + 1) % 2^RD_LEN = beats + 1
<1>1. Head(cmds) \in Rd!Lens /\ beats \in 0..Head(cmds)
  BY HeadTailProperties DEF Burst
<1>2. Head(cmds) \in Nat /\ Head(cmds) < 2^RD_LEN /\ 2^RD_LEN \in Nat
  BY <1>1, RdLensFacts
<1>3. beats + 1 \in 0..(2^RD_LEN - 1)
  BY <1>1, <1>2
<1> QED BY <1>2, <1>3

LEMMA RdHandshakes ==
  ASSUME Rd!AxiRstcrossRdAssumption, NEW i \in Rd!Inputs, RdInv,
         i.s_r_valid => s_cmds # <<>>
  PROVE  /\ Rd!MAr(i) <=> Rd!SAr(i)
         /\ Rd!MAr(i) => i.m_ar_len \in Rd!Lens /\ Len(m_aw) < RD_MOT /\ ~m_phony /\ ~s_phony
         /\ Rd!MR(i) => m_aw # <<>> /\ (Rd!MRLast <=> m_sent = Head(m_aw))
         /\ Rd!SR(i) => s_cmds # <<>> /\ (Rd!s_r_last <=> s_beats = Head(s_cmds))
         /\ ~m_phony /\ ~s_phony => (Rd!MR(i) <=> Rd!SR(i)) /\ (Rd!MRLast <=> Rd!s_r_last)
<1>1. /\ i.m_ar_len \in Rd!Lens
      /\ m_phony \in BOOLEAN /\ s_phony \in BOOLEAN
      /\ i.m_ar_valid \in BOOLEAN /\ i.m_r_ready \in BOOLEAN
      /\ i.s_ar_ready \in BOOLEAN /\ i.s_r_valid \in BOOLEAN
  BY DEF Rd!Inputs, RdInv, RdEnds
<1>2. /\ s_len = m_aw /\ m_w_cnt = m_sent /\ s_b_cnt = Len(s_cmds)
      /\ m_aw \in Seq(Rd!Lens) /\ Len(m_aw) <= RD_MOT /\ Len(m_aw) \in Nat
      /\ s_cmds \in Seq(Rd!Lens) /\ RD_MOT \in Nat
  BY RdLensFacts DEF RdInv, RdMaster, RdSlave, Burst
<1>3. /\ Rd!m_empty <=> m_aw = <<>>
      /\ Rd!m_full <=> Len(m_aw) = RD_MOT
      /\ Rd!s_r_cnt_zero <=> s_cmds = <<>>
  BY <1>2, EmptySeq DEF Rd!m_empty, Rd!m_full, Rd!s_r_cnt_zero
<1>4. /\ m_phony => s_cmds = <<>>
      /\ s_phony => m_aw = <<>>
      /\ ~m_phony /\ ~s_phony => s_cmds = m_aw /\ s_beats = m_sent
  BY DEF RdInv, RdEnds
<1>5. Rd!MAr(i) <=> Rd!SAr(i)
  BY <1>1 DEF Rd!MAr, Rd!SAr
<1>6. Rd!MAr(i) => Len(m_aw) < RD_MOT /\ ~m_phony /\ ~s_phony
  <2>1. Rd!MAr(i) => Len(m_aw) # RD_MOT /\ ~m_phony /\ ~s_phony
    BY <1>3 DEF Rd!MAr
  <2> QED BY <1>2, <2>1
<1>7. s_cmds # <<>> => (Rd!s_r_last <=> s_beats = Head(s_cmds))
  BY DEF Rd!s_r_last
<1>8. Rd!SR(i) => s_cmds # <<>>
  BY <1>1 DEF Rd!SR
<1>9. Rd!MR(i) => m_aw # <<>> /\ (Rd!MRLast <=> m_sent = Head(m_aw))
  <2>1. CASE m_phony
    <3>1. Rd!MR(i) => m_aw # <<>>
      BY <1>3, <2>1 DEF Rd!MR
    <3>2. m_aw # <<>> => (Rd!MRLast <=> m_sent = Head(m_aw))
      BY <1>2, <1>3, <2>1 DEF Rd!MRLast
    <3> QED BY <3>1, <3>2
  <2>2. CASE ~m_phony
    <3>1. Rd!MR(i) => ~s_phony /\ i.s_r_valid
      BY <2>2 DEF Rd!MR
    <3>2. Rd!MRLast <=> Rd!s_r_last
      BY <2>2 DEF Rd!MRLast, Rd!s_r_last
    <3> QED BY <1>4, <1>7, <2>2, <3>1, <3>2
  <2> QED BY <1>1, <2>1, <2>2
<1>10. ~m_phony /\ ~s_phony => (Rd!MR(i) <=> Rd!SR(i)) /\ (Rd!MRLast <=> Rd!s_r_last)
  <2>1. ~m_phony /\ ~s_phony => (Rd!MR(i) <=> Rd!SR(i))
    BY <1>1 DEF Rd!MR, Rd!SR
  <2>2. ~m_phony => (Rd!MRLast <=> Rd!s_r_last)
    BY DEF Rd!MRLast, Rd!s_r_last
  <2> QED BY <2>1, <2>2
<1> QED BY <1>1, <1>5, <1>6, <1>7, <1>8, <1>9, <1>10

LEMMA RdClk ==
  ASSUME Rd!AxiRstcrossRdAssumption, RdInv, NEW i \in Rd!Inputs, Rd!Clk(i)
  PROVE  RdInv'
<1> DEFINE mLast == Rd!MR(i) /\ Rd!MRLast
           sLast == Rd!SR(i) /\ Rd!s_r_last
<1>1. /\ i.s_r_valid => s_cmds # <<>>
      /\ Rd!MasterTracking(i) /\ Rd!MasterNext(i)
      /\ Rd!SlaveTracking(i) /\ Rd!SlaveNext(i)
  BY DEF Rd!Clk
<1>2. i.m_rst \in BOOLEAN /\ i.s_rst \in BOOLEAN
  BY DEF Rd!Inputs
<1>3. /\ Rd!MAr(i) <=> Rd!SAr(i)
      /\ Rd!MAr(i) => i.m_ar_len \in Rd!Lens /\ Len(m_aw) < RD_MOT /\ ~m_phony /\ ~s_phony
      /\ Rd!MR(i) => m_aw # <<>> /\ (Rd!MRLast <=> m_sent = Head(m_aw))
      /\ Rd!SR(i) => s_cmds # <<>> /\ (Rd!s_r_last <=> s_beats = Head(s_cmds))
      /\ ~m_phony /\ ~s_phony => (Rd!MR(i) <=> Rd!SR(i)) /\ (Rd!MRLast <=> Rd!s_r_last)
  BY <1>1, RdHandshakes
<1>4. /\ Burst(m_aw, m_sent) /\ s_len = m_aw /\ m_w_cnt = m_sent /\ s_whole = TRUE
      /\ Burst(s_cmds, s_beats) /\ s_b_cnt = Len(s_cmds)
      /\ m_phony \in BOOLEAN /\ s_phony \in BOOLEAN
      /\ m_phony => s_cmds = <<>>
      /\ s_phony => m_aw = <<>>
      /\ ~m_phony /\ ~s_phony => s_cmds = m_aw /\ s_beats = m_sent
  BY DEF RdInv, RdMaster, RdSlave, RdEnds
<1>5. Burst(<<>>, 0)
  BY RdLensFacts, EmptySeq DEF Burst
<1>6. m_sent \in Int /\ s_beats \in Int /\ Len(s_cmds) \in Nat
  BY <1>4 DEF Burst
<1>7. ASSUME ~i.m_rst
      PROVE  /\ mLast => m_aw' = (IF Rd!MAr(i) THEN Append(Tail(m_aw), i.m_ar_len) ELSE Tail(m_aw))
             /\ ~mLast => m_aw' = (IF Rd!MAr(i) THEN Append(m_aw, i.m_ar_len) ELSE m_aw)
             /\ mLast => m_sent' = 0
             /\ Rd!MR(i) /\ ~mLast => m_sent' = m_sent + 1
             /\ ~Rd!MR(i) => m_sent' = m_sent
  <2>1. mLast => m_aw # <<>>
    BY <1>3
  <2>2. /\ m_aw' = (LET rest == IF mLast THEN Tail(m_aw) ELSE m_aw
                    IN  IF Rd!MAr(i) THEN Append(rest, i.m_ar_len) ELSE rest)
        /\ m_sent' = (IF mLast THEN 0 ELSE Rd!Count(m_sent, Rd!MR(i), FALSE))
    BY <1>1, <1>7, <2>1 DEF Rd!MasterNext
  <2> QED BY <1>6, <2>2 DEF Rd!Count
<1>8. ASSUME ~i.s_rst
      PROVE  /\ sLast => s_cmds' = (IF Rd!SAr(i) THEN Append(Tail(s_cmds), i.m_ar_len) ELSE Tail(s_cmds))
             /\ ~sLast => s_cmds' = (IF Rd!SAr(i) THEN Append(s_cmds, i.m_ar_len) ELSE s_cmds)
             /\ sLast => s_beats' = 0
             /\ Rd!SR(i) /\ ~sLast => s_beats' = s_beats + 1
             /\ ~Rd!SR(i) => s_beats' = s_beats
             /\ s_b_cnt' = s_b_cnt + (IF Rd!SAr(i) THEN 1 ELSE 0) - (IF sLast THEN 1 ELSE 0)
  <2>1. /\ s_cmds' = (LET rest == IF sLast THEN Tail(s_cmds) ELSE s_cmds
                      IN  IF Rd!SAr(i) THEN Append(rest, i.m_ar_len) ELSE rest)
        /\ s_beats' = (IF sLast THEN 0 ELSE Rd!Count(s_beats, Rd!SR(i), FALSE))
        /\ s_b_cnt' = Rd!Count(s_b_cnt, Rd!SAr(i), sLast)
    BY <1>1, <1>8 DEF Rd!SlaveNext, Rd!SlaveTracking
  <2> QED BY <1>6, <2>1 DEF Rd!Count
<1>9. RdMaster'
  <2>1. CASE i.m_rst
    BY <1>1, <1>4, <1>5, <2>1 DEF Rd!MasterTracking, Rd!MasterNext, RdMaster
  <2>2. CASE ~i.m_rst
    <3>1. Burst(m_aw', m_sent')
      <4>1. PICK cmds2, beats2 : cmds2 = m_aw' /\ beats2 = m_sent'
        OBVIOUS
      <4>2. PICK cmds, beats : cmds = m_aw /\ beats = m_sent
        OBVIOUS
      <4>3. PICK add, beat, last : (add <=> Rd!MAr(i)) /\ (beat <=> Rd!MR(i)) /\ (last <=> mLast)
        OBVIOUS
      <4>4. /\ ~last => cmds2 = (IF add THEN Append(cmds, i.m_ar_len) ELSE cmds)
            /\ last => cmds2 = (IF add THEN Append(Tail(cmds), i.m_ar_len) ELSE Tail(cmds))
            /\ last => beats2 = 0
            /\ beat /\ ~last => beats2 = beats + 1
            /\ ~beat => beats2 = beats
        BY <1>7, <2>2, <4>1, <4>2, <4>3
      <4>5. /\ Burst(cmds, beats)
            /\ add => i.m_ar_len \in Rd!Lens /\ Len(cmds) < RD_MOT
            /\ last => beat
            /\ beat => cmds # <<>> /\ (last <=> beats = Head(cmds))
        BY <1>3, <1>4, <4>2, <4>3
      <4>6. Burst(cmds2, beats2)
        BY <4>4, <4>5, BurstStep
      <4> QED BY <4>1, <4>6
    <3>2. s_len' = m_aw'
      BY <1>1, <1>4, <2>2 DEF Rd!MasterTracking, Rd!MasterNext, Rd!m_empty
    <3>3. m_w_cnt' = m_sent'
      <4>1. m_w_cnt' = (IF mLast THEN 0
                        ELSE IF Rd!MR(i) THEN (m_sent + 1) % 2^RD_LEN ELSE m_sent)
        BY <1>1, <1>4, <2>2 DEF Rd!MasterTracking
      <4>2. Rd!MR(i) /\ ~mLast => (m_sent + 1) % 2^RD_LEN = m_sent + 1
        BY <1>3, <1>4, BurstRoom
      <4> QED BY <1>7, <2>2, <4>1, <4>2
    <3>4. s_whole' = TRUE
      <4>1. s_whole' = (s_whole /\ (Rd!MR(i) => m_aw # <<>> /\ Rd!MRLast = (m_sent = Head(m_aw))))
        BY <1>1, <2>2 DEF Rd!MasterNext
      <4>2. Rd!MRLast \in BOOLEAN
        BY Zenon DEF Rd!MRLast, Rd!m_empty, Rd!s_r_last
      <4> QED BY <1>3, <1>4, <4>1, <4>2
    <3> QED BY <3>1, <3>2, <3>3, <3>4 DEF RdMaster, Burst
  <2> QED BY <1>2, <2>1, <2>2
<1>10. RdSlave'
  <2>1. CASE i.s_rst
    BY <1>1, <1>5, <2>1, EmptySeq DEF Rd!SlaveTracking, Rd!SlaveNext, RdSlave
  <2>2. CASE ~i.s_rst
    <3>1. PICK cmds2, beats2 : cmds2 = s_cmds' /\ beats2 = s_beats'
      OBVIOUS
    <3>2. PICK cmds, beats : cmds = s_cmds /\ beats = s_beats
      OBVIOUS
    <3>3. PICK add, beat, last : (add <=> Rd!SAr(i)) /\ (beat <=> Rd!SR(i)) /\ (last <=> sLast)
      OBVIOUS
    <3>4. /\ ~last => cmds2 = (IF add THEN Append(cmds, i.m_ar_len) ELSE cmds)
          /\ last => cmds2 = (IF add THEN Append(Tail(cmds), i.m_ar_len) ELSE Tail(cmds))
          /\ last => beats2 = 0
          /\ beat /\ ~last => beats2 = beats + 1
          /\ ~beat => beats2 = beats
      BY <1>8, <2>2, <3>1, <3>2, <3>3
    <3>5. /\ Burst(cmds, beats)
          /\ add => i.m_ar_len \in Rd!Lens /\ Len(cmds) < RD_MOT
          /\ last => beat
          /\ beat => cmds # <<>> /\ (last <=> beats = Head(cmds))
      <4>1. add => Len(cmds) < RD_MOT
        BY <1>3, <1>4, <3>2, <3>3
      <4> QED BY <1>3, <1>4, <3>2, <3>3, <4>1
    <3>6. /\ Burst(cmds2, beats2)
          /\ Len(cmds2) = Len(cmds) + (IF add THEN 1 ELSE 0) - (IF last THEN 1 ELSE 0)
      BY <3>4, <3>5, BurstStep
    <3>7. s_b_cnt' = Len(cmds2)
      BY <1>4, <1>8, <2>2, <3>2, <3>3, <3>6
    <3> QED BY <3>1, <3>6, <3>7 DEF RdSlave, Burst
  <2> QED BY <1>2, <2>1, <2>2
<1>11. RdEnds'
  <2>1. /\ m_phony' \in BOOLEAN /\ s_phony' \in BOOLEAN
        /\ m_phony' <=> i.s_rst \/ (m_phony /\ m_aw # <<>>)
        /\ s_phony' <=> i.m_rst \/ (s_phony /\ s_cmds # <<>>)
    <3>1. s_b_cnt = 0 <=> s_cmds = <<>>
      BY <1>4, EmptySeq DEF Burst
    <3> QED BY <1>1, <1>2, <1>4, <3>1 DEF Rd!MasterTracking, Rd!SlaveTracking, Rd!m_empty, Rd!s_r_cnt_zero
  <2>2. m_phony' => s_cmds' = <<>>
    <3>1. CASE i.s_rst
      BY <1>1, <3>1 DEF Rd!SlaveNext
    <3>2. CASE ~i.s_rst /\ m_phony
      BY <1>3, <1>4, <1>8, <3>2
    <3> QED BY <2>1, <3>1, <3>2
  <2>3. s_phony' => m_aw' = <<>>
    <3>1. CASE i.m_rst
      BY <1>1, <3>1 DEF Rd!MasterNext
    <3>2. CASE ~i.m_rst /\ s_phony
      BY <1>3, <1>4, <1>7, <3>2
    <3> QED BY <2>1, <3>1, <3>2
  <2>4. ASSUME ~m_phony', ~s_phony'
        PROVE  s_cmds' = m_aw' /\ s_beats' = m_sent'
    <3>1. ~i.m_rst /\ ~i.s_rst
      BY <1>2, <2>1, <2>4
    <3>2. CASE ~m_phony /\ ~s_phony
      BY <1>3, <1>4, <1>7, <1>8, <3>1, <3>2
    <3>3. CASE m_phony \/ s_phony
      <4>1. m_aw = <<>> /\ s_cmds = <<>>
        BY <1>4, <2>1, <2>4, <3>3
      <4>2. m_sent = 0 /\ s_beats = 0
        BY <1>4, <4>1 DEF Burst
      <4>3. ~Rd!MR(i) /\ ~Rd!SR(i) /\ ~Rd!MAr(i) /\ ~Rd!SAr(i)
        BY <1>3, <3>3, <4>1
      <4> QED BY <1>7, <1>8, <3>1, <4>1, <4>2, <4>3
    <3> QED BY <3>2, <3>3
  <2> QED BY <2>1, <2>2, <2>3, <2>4 DEF RdEnds
<1> QED BY <1>9, <1>10, <1>11 DEF RdInv

LEMMA RdInit ==
  ASSUME Rd!AxiRstcrossRdAssumption, Rd!Init
  PROVE  RdInv
<1>1. Burst(<<>>, 0) /\ Len(<<>>) = 0
  BY RdLensFacts, EmptySeq DEF Burst
<1> QED BY <1>1 DEF Rd!Init, RdInv, RdMaster, RdSlave, RdEnds

LEMMA RdSafe ==
  ASSUME Rd!AxiRstcrossRdAssumption, RdInv
  PROVE  Rd!TypeOK /\ Rd!MasterTracked /\ Rd!SlaveTracked /\ Rd!EndsAgree /\ Rd!BurstsWhole
<1>1. /\ m_aw \in Seq(Rd!Lens) /\ s_cmds \in Seq(Rd!Lens)
      /\ Len(m_aw) <= RD_MOT /\ Len(s_cmds) <= RD_MOT /\ Len(s_cmds) \in Nat
      /\ IF m_aw = <<>> THEN m_sent = 0 ELSE m_sent \in 0..Head(m_aw)
      /\ IF s_cmds = <<>> THEN s_beats = 0 ELSE s_beats \in 0..Head(s_cmds)
  BY DEF RdInv, RdMaster, RdSlave, Burst
<1>2. /\ s_len = m_aw /\ m_w_cnt = m_sent /\ s_whole = TRUE /\ s_b_cnt = Len(s_cmds)
      /\ m_phony \in BOOLEAN /\ s_phony \in BOOLEAN
      /\ ~m_phony /\ ~s_phony => s_cmds = m_aw /\ s_beats = m_sent
  BY DEF RdInv, RdMaster, RdSlave, RdEnds
<1>3. 0 \in Rd!Lens /\ (\A n \in Rd!Lens : 0..n \subseteq Rd!Lens) /\ RD_MOT \in Nat
  BY RdLensFacts DEF Rd!Lens
<1>4. m_sent \in Rd!Lens /\ s_beats \in Rd!Lens
  <2>1. \A s \in Seq(Rd!Lens) : s # <<>> => Head(s) \in Rd!Lens
    BY HeadTailProperties
  <2> QED BY <1>1, <1>3, <2>1
<1>5. s_b_cnt \in 0..RD_MOT
  BY <1>1, <1>2, <1>3
<1> QED BY <1>1, <1>2, <1>4, <1>5
        DEF Rd!TypeOK, Rd!MasterTracked, Rd!SlaveTracked, Rd!EndsAgree, Rd!BurstsWhole
--------------------------------------------------------------------------------
(* Both halves. *)
Inv == (channel = "wr" => WrInv) /\ (channel = "rd" => RdInv)

LEMMA Inductive == Spec => []Inv
<1>a. Wr!AxiRstcrossWrAssumption /\ Rd!AxiRstcrossRdAssumption
  BY ChannelsAssumption
<1>1. Init => Inv
  BY <1>a, WrInit, RdInit DEF Init, Inv
<1>2. Inv /\ [Next]_vars => Inv'
  <2> SUFFICES ASSUME Inv, [Next]_vars PROVE Inv'
    OBVIOUS
  <2>1. CASE UNCHANGED channel /\ channel = "wr" /\ Wr!Next
    <3>1. WrInv
      BY <2>1 DEF Inv
    <3>2. WrInv'
      BY <1>a, <2>1, <3>1, WrIssue, WrClk DEF Wr!Next
    <3> QED BY <2>1, <3>2 DEF Inv
  <2>2. CASE UNCHANGED channel /\ channel = "rd" /\ Rd!Next
    <3>1. RdInv
      BY <2>2 DEF Inv
    <3>2. RdInv'
      BY <1>a, <2>2, <3>1, RdClk DEF Rd!Next
    <3> QED BY <2>2, <3>2 DEF Inv
  <2>3. CASE UNCHANGED vars
    <3>1. /\ UNCHANGED channel
          /\ UNCHANGED <<m_phony, m_w_cnt, m_b_cnt, m_cnt, s_phony, s_len, s_w_cnt, s_b_cnt,
                         m_aw, m_w, m_sent, m_out, s_cmds, s_early, s_beats, s_owed, s_whole>>
      BY <2>3 DEF vars, Wr!vars, Wr!mTrack, Wr!sTrack, Wr!master, Wr!slave
    <3>2. WrInv => WrInv'
      BY <3>1 DEF WrInv, WrMaster, WrSlave, WrEnds, Wr!Lens
    <3>3. RdInv => RdInv'
      BY <3>1 DEF RdInv, RdMaster, RdSlave, RdEnds, Burst, Rd!Lens
    <3> QED BY <3>1, <3>2, <3>3 DEF Inv
  <2> QED BY <2>1, <2>2, <2>3 DEF Next
<1> QED BY <1>1, <1>2, PTL DEF Spec

(* The counters, FIFOs and flags of both sides are what that side has on   *)
(* its way, in their ranges, and both sides agree whenever neither is fed  *)
(* phony traffic: for any sequence of resets on either side.               *)
THEOREM Tracking == Spec => []EndsTracked
<1>1. Inv => EndsTracked
  BY ChannelsAssumption, WrSafe, RdSafe DEF Inv, EndsTracked, TypeOK, MasterTracked, SlaveTracked, EndsAgree
<1> QED BY <1>1, Inductive, PTL

(* No reset of one side cuts or stretches a burst of the other.            *)
THEOREM WholeBursts == Spec => []BurstsWhole
<1>1. Inv => BurstsWhole
  BY ChannelsAssumption, WrSafe, RdSafe DEF Inv, BurstsWhole
<1> QED BY <1>1, Inductive, PTL

(* The master gets no response it does not await, phony or not.            *)
THEOREM ResponsesAwaited == Spec => []NoSpuriousResponse
<1>1. Inv => NoSpuriousResponse
  BY ChannelsAssumption, WrSafe DEF Inv, NoSpuriousResponse
<1> QED BY <1>1, Inductive, PTL
================================================================================
