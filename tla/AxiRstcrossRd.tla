----------------------------- MODULE AxiRstcrossRd -----------------------------
(***************************************************************************)
(* dlsc_axi_rstcross_rd (axi/rtl): the counterpart of AxiRstcrossWr for    *)
(* the read channels AR and R.  Here the lengths are needed on the         *)
(* master's side, to finish a burst of which the slave, reset in its       *)
(* middle, gave only some beats; on the slave's side the beats a reset     *)
(* master no longer takes are drained.                                     *)
(***************************************************************************)
EXTENDS Integers, Sequences

CONSTANTS
    MAX_OUTSTANDING,
    LEN_BITS        (* width of a burst length *)

Lens == 0..2^LEN_BITS-1

AxiRstcrossRdAssumption ==
    MAX_OUTSTANDING \in Nat \ {0} /\ LEN_BITS \in Nat

VARIABLES
    m_rst, s_rst,                       \* the resets at the last edge
    m_phony, m_len, m_r_cnt,            \* master tracking; m_len: the FIFO
    s_phony, s_r_cnt,                   \* slave tracking
    m_cmds, m_beats, m_whole,           \* the master
    s_cmds, s_beats                     \* the slave

(* The master's state: the bursts it awaits, how many beats of the first   *)
(* it has, and whether every beat was one it awaited, with the right last. *)
(* The slave's: the bursts it has to answer and the beats given.           *)
vars == <<m_rst, s_rst, m_phony, m_len, m_r_cnt, s_phony, s_r_cnt, m_cmds, m_beats, m_whole, s_cmds, s_beats>>

Inputs ==
    [m_rst : BOOLEAN, m_ar_valid : BOOLEAN, m_ar_len : Lens, m_r_ready : BOOLEAN,
     s_rst : BOOLEAN, s_ar_ready : BOOLEAN, s_r_valid : BOOLEAN]

m_empty == m_len = <<>>
m_full  == Len(m_len) = MAX_OUTSTANDING
s_r_cnt_zero == s_r_cnt = 0
s_r_last == s_cmds # <<>> /\ s_beats = Head(s_cmds)
--------------------------------------------------------------------------------
(* The handshakes of a cycle, at the master's and at the slave's side.     *)

MAr(i) == i.m_ar_valid /\ ~m_phony /\ ~s_phony /\ i.s_ar_ready /\ ~m_full

MR(i)  == i.m_r_ready /\ (IF m_phony THEN ~m_empty ELSE ~s_phony /\ i.s_r_valid)

SAr(i) == i.s_ar_ready /\ ~s_phony /\ ~m_phony /\ i.m_ar_valid /\ ~m_full

(* Mutant of SR: a reset master's data is not drained. *)
SRNoDrain(i) == i.s_r_valid /\ ~s_phony /\ ~m_phony /\ i.m_r_ready

SR(i)  == i.s_r_valid /\ (IF s_phony THEN ~s_r_cnt_zero ELSE ~m_phony /\ i.m_r_ready)

MRLast == IF m_phony THEN ~m_empty /\ m_r_cnt = Head(m_len) ELSE s_r_last
--------------------------------------------------------------------------------
Count(n, inc, dec) == n + (IF inc THEN 1 ELSE 0) - (IF dec THEN 1 ELSE 0)

MasterTracking(i) ==
    LET last == MR(i) /\ MRLast
        rest == IF last /\ ~m_empty THEN Tail(m_len) ELSE m_len
    IN  /\ m_phony' = (i.s_rst \/ (m_phony /\ ~m_empty))
        /\ m_len' = IF i.m_rst THEN <<>>
                    ELSE IF MAr(i) THEN Append(rest, i.m_ar_len) ELSE rest
        /\ m_r_cnt' = IF i.m_rst \/ last THEN 0
                      ELSE IF MR(i) THEN (m_r_cnt + 1) % 2^LEN_BITS ELSE m_r_cnt

SlaveTracking(i) ==
    /\ s_phony' = (i.m_rst \/ (s_phony /\ ~s_r_cnt_zero))
    /\ s_r_cnt' = IF i.s_rst THEN 0 ELSE Count(s_r_cnt, SAr(i), SR(i) /\ s_r_last)

MasterNext(i) ==
    LET last == MR(i) /\ MRLast
        rest == IF last /\ m_cmds # <<>> THEN Tail(m_cmds) ELSE m_cmds
    IN  IF i.m_rst
        THEN m_cmds' = <<>> /\ m_beats' = 0 /\ UNCHANGED m_whole
        ELSE /\ m_cmds' = IF MAr(i) THEN Append(rest, i.m_ar_len) ELSE rest
             /\ m_beats' = IF last THEN 0 ELSE Count(m_beats, MR(i), FALSE)
             /\ m_whole' = (m_whole /\ (MR(i) =>
                  m_cmds # <<>> /\ MRLast = (m_beats = Head(m_cmds))))

SlaveNext(i) ==
    LET last == SR(i) /\ s_r_last
        rest == IF last THEN Tail(s_cmds) ELSE s_cmds
    IN  IF i.s_rst
        THEN s_cmds' = <<>> /\ s_beats' = 0
        ELSE /\ s_cmds' = IF SAr(i) THEN Append(rest, i.m_ar_len) ELSE rest
             /\ s_beats' = IF last THEN 0 ELSE Count(s_beats, SR(i), FALSE)

(* One edge of clk; the slave has data only for commands it got. *)
Clk(i) ==
    /\ i.s_r_valid => s_cmds # <<>>
    /\ m_rst' = i.m_rst /\ s_rst' = i.s_rst
    /\ MasterTracking(i) /\ SlaveTracking(i)
    /\ MasterNext(i) /\ SlaveNext(i)

(* After an edge with both resets. *)
Init ==
    /\ m_rst = TRUE /\ s_rst = TRUE
    /\ m_phony = TRUE /\ m_len = <<>> /\ m_r_cnt = 0
    /\ s_phony = TRUE /\ s_r_cnt = 0
    /\ m_cmds = <<>> /\ m_beats = 0 /\ m_whole = TRUE
    /\ s_cmds = <<>> /\ s_beats = 0

Next == \E i \in Inputs : Clk(i)

Spec == Init /\ [][Next]_vars

(* As in AxiRstcrossWr: again and again what is on offer is also wanted.   *)
(* The master need not ask for more.                                       *)
Willing(i) == ~i.m_ar_valid /\ i.m_r_ready /\ i.s_ar_ready /\ i.s_r_valid = (s_cmds # <<>>)

Meet ==
    /\ UNCHANGED <<m_rst, s_rst>>
    /\ \E i \in Inputs : Willing(i) /\ Clk(i)

FairSpec == Spec /\ WF_vars(Meet)
--------------------------------------------------------------------------------
TypeOK ==
    /\ m_phony \in BOOLEAN /\ s_phony \in BOOLEAN /\ m_whole \in BOOLEAN
    /\ m_len \in Seq(Lens) /\ m_r_cnt \in Lens /\ s_r_cnt \in 0..MAX_OUTSTANDING
    /\ m_cmds \in Seq(Lens) /\ m_beats \in Lens
    /\ s_cmds \in Seq(Lens) /\ s_beats \in Lens

(* Each side's tracking is that side's own view, whatever resets the other *)
(* side goes through; no counter leaves its range.                         *)
MasterTracked == m_len = m_cmds /\ m_r_cnt = m_beats /\ Len(m_len) <= MAX_OUTSTANDING
SlaveTracked  == s_r_cnt = Len(s_cmds) /\ s_r_cnt <= MAX_OUTSTANDING

(* While neither side is fed phony traffic, both know of the same bursts.  *)
EndsAgree == ~m_phony /\ ~s_phony => s_cmds = m_cmds /\ s_beats = m_beats

(* The master gets as many beats as it asked for, each burst closed by     *)
(* last, also when the slave is reset in the middle of it.                 *)
BurstsWhole == m_whole

(* No stall: after a reset of one side the other's bursts end, also when   *)
(* the side that was reset never comes back.                               *)
MasterFinishes == m_phony ~> m_cmds = <<>>
SlaveFinishes  == s_phony ~> s_cmds = <<>>
================================================================================
