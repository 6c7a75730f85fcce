----------------------------- MODULE AxiRstcrossWr -----------------------------
(***************************************************************************)
(* dlsc_axi_rstcross_wr (axi/rtl): between an AXI master and an AXI slave  *)
(* that are reset independently, for the write channels AW, W and B.  When *)
(* one side is reset the other is left with bursts its partner has         *)
(* forgotten; the module finishes them with phony beats and responses.     *)
(*                                                                         *)
(* An action is one edge of clk with the inputs of that cycle, or the      *)
(* master deciding on a new burst between edges.  The handshakes of a      *)
(* cycle are functions of the registers and the inputs (REGISTER = 0, the  *)
(* only variant the code has).  Master and slave are the environment, with *)
(* what AXI lets them do; addresses, data and strobes pass unchanged and   *)
(* are left out, the length of a burst is its number of beats less one.    *)
(***************************************************************************)
EXTENDS Integers, Sequences, FiniteSets

CONSTANTS
    MASTER_RESET,   (* m_rst is supported *)
    SLAVE_RESET,    (* s_rst is supported *)
    MOT,            (* most outstanding transactions *)
    LEN,            (* width of a burst length *)
    ISSUE           (* bound on what the master has on its way at once *)

Lens == 0..2^LEN-1

AxiRstcrossWrAssumption ==
    /\ MASTER_RESET \in BOOLEAN /\ SLAVE_RESET \in BOOLEAN
    /\ MOT \in Nat \ {0} /\ LEN \in Nat /\ ISSUE \in Nat

VARIABLES
    m_rst, s_rst,                               \* the resets at the last edge
    m_phony, m_w_cnt, m_b_cnt, m_cnt,           \* master tracking
    s_phony, s_len, s_w_cnt, s_b_cnt,           \* slave tracking; s_len: the FIFO
    m_aw, m_w, m_sent, m_out,                   \* the master
    s_cmds, s_early, s_beats, s_owed, s_whole   \* the slave

(* The master's state: the lengths of the bursts whose command is yet to   *)
(* be accepted, of those whose data is, how many beats of the first of     *)
(* these were, and how many bursts await their response.                   *)
(* The slave's: the commands it has not got all data for, the bursts it    *)
(* got ahead of their command, the beats of the current one, the responses *)
(* it owes, and whether every burst had the length of its command.         *)
resets == <<m_rst, s_rst>>
mTrack == <<m_phony, m_w_cnt, m_b_cnt, m_cnt>>
sTrack == <<s_phony, s_len, s_w_cnt, s_b_cnt>>
master == <<m_aw, m_w, m_sent, m_out>>
slave  == <<s_cmds, s_early, s_beats, s_owed, s_whole>>
vars == <<resets, mTrack, sTrack, master, slave>>

(* The inputs of a cycle.  A reset that is not supported does not come.    *)
Inputs ==
    {i \in [m_rst : BOOLEAN, m_aw_valid : BOOLEAN, m_w_valid : BOOLEAN, m_b_ready : BOOLEAN,
            s_rst : BOOLEAN, s_aw_ready : BOOLEAN, s_w_ready : BOOLEAN, s_b_valid : BOOLEAN] :
       (i.m_rst => MASTER_RESET) /\ (i.s_rst => SLAVE_RESET)}

(* Each side offers only what it has, the slave a response only once it    *)
(* has command and data.                                                   *)
Offered(i) ==
    /\ i.m_aw_valid => m_aw # <<>>
    /\ i.m_w_valid => m_w # <<>>
    /\ i.s_b_valid => s_owed > 0

m_w_cnt_zero == SLAVE_RESET /\ m_w_cnt = 0
m_b_cnt_zero == SLAVE_RESET /\ m_b_cnt = 0
m_cnt_max    == SLAVE_RESET /\ m_cnt = MOT
s_empty      == MASTER_RESET /\ s_len = <<>>
s_b_cnt_zero == MASTER_RESET /\ s_b_cnt = 0
s_last       == MASTER_RESET /\ s_len # <<>> /\ s_w_cnt = Head(s_len)
m_w_last     == m_w # <<>> /\ m_sent = Head(m_w)
--------------------------------------------------------------------------------
(* The handshakes of a cycle, at the master's and at the slave's side.     *)

MAw(i) == i.m_aw_valid /\ ~m_phony /\ ~s_phony /\ i.s_aw_ready /\ ~m_cnt_max
MW(i)  == i.m_w_valid /\ ~m_w_cnt_zero /\ (m_phony \/ (~s_phony /\ i.s_w_ready))

MB(i)  == i.m_b_ready /\ (IF m_phony THEN ~m_b_cnt_zero ELSE ~s_phony /\ i.s_b_valid)

SAw(i) == i.s_aw_ready /\ ~s_phony /\ ~m_phony /\ i.m_aw_valid /\ ~m_cnt_max

(* Mutant of SW: no phony beats. *)
SWNoPhony(i) == i.s_w_ready /\ ~s_phony /\ ~m_phony /\ i.m_w_valid /\ ~m_w_cnt_zero

SW(i)  == i.s_w_ready /\ (IF s_phony THEN ~s_empty
                          ELSE ~m_phony /\ i.m_w_valid /\ ~m_w_cnt_zero)
SB(i)  == i.s_b_valid /\ (IF s_phony THEN ~s_b_cnt_zero ELSE ~m_phony /\ i.m_b_ready)

(* Mutant of SWLast: phony bursts are one beat long. *)
SWLastShort == IF s_phony THEN TRUE ELSE m_w_last

SWLast == IF s_phony THEN s_last ELSE m_w_last
--------------------------------------------------------------------------------
Count(n, inc, dec) == n + (IF inc THEN 1 ELSE 0) - (IF dec THEN 1 ELSE 0)

MasterPhony(i) == SLAVE_RESET /\ (i.s_rst \/ (m_phony /\ ~(m_w_cnt_zero /\ m_b_cnt_zero)))

MasterTracking(i) ==
    LET last == MW(i) /\ m_w_last
        run  == SLAVE_RESET /\ ~i.m_rst
    IN  /\ m_phony' = MasterPhony(i)
        /\ m_w_cnt' = IF run THEN Count(m_w_cnt, MAw(i), last) ELSE 0
        /\ m_b_cnt' = IF run THEN Count(m_b_cnt, last, MB(i)) ELSE 0
        /\ m_cnt' = IF run THEN Count(m_cnt, MAw(i), MB(i)) ELSE 0

(* Mutant of SlavePhony: it ends when the data is done. *)
SlavePhonyEarly(i) == MASTER_RESET /\ (i.m_rst \/ (s_phony /\ ~s_empty))

SlavePhony(i) == MASTER_RESET /\ (i.m_rst \/ (s_phony /\ ~(s_empty /\ s_b_cnt_zero)))

(* The FIFO of lengths has its flags current (FAST_FLAGS) and DEPTH MOT.   *)
(* A command whose data came earlier or comes in the same cycle needs no   *)
(* entry, and its last beat takes none; only the same cycle is recognised. *)
LengthFifo(i) ==
    LET pop  == SW(i) /\ SWLast
        push == SAw(i) /\ ~(pop /\ s_empty)
        rest == IF pop /\ ~s_empty THEN Tail(s_len) ELSE s_len
    IN  IF push THEN Append(rest, Head(m_aw)) ELSE rest

(* Mutant of SlaveTracking: a master's reset clears the beat count. *)
SlaveTrackingRst(i) ==
    LET last == SW(i) /\ SWLast
        run  == MASTER_RESET /\ ~i.s_rst
    IN  /\ s_phony' = SlavePhony(i)
        /\ s_len' = IF run THEN LengthFifo(i) ELSE <<>>
        /\ s_w_cnt' = IF ~run \/ i.m_rst \/ last THEN 0
                      ELSE IF SW(i) THEN (s_w_cnt + 1) % 2^LEN ELSE s_w_cnt
        /\ s_b_cnt' = IF run THEN Count(s_b_cnt, last, SB(i)) ELSE 0

SlaveTracking(i) ==
    LET last == SW(i) /\ SWLast
        run  == MASTER_RESET /\ ~i.s_rst
    IN  /\ s_phony' = SlavePhony(i)
        /\ s_len' = IF run THEN LengthFifo(i) ELSE <<>>
        /\ s_w_cnt' = IF ~run \/ last THEN 0
                      ELSE IF SW(i) THEN (s_w_cnt + 1) % 2^LEN ELSE s_w_cnt
        /\ s_b_cnt' = IF run THEN Count(s_b_cnt, last, SB(i)) ELSE 0

(* The master: a reset makes it forget everything. *)
MasterNext(i) ==
    LET last == MW(i) /\ m_w_last
    IN  IF i.m_rst
        THEN m_aw' = <<>> /\ m_w' = <<>> /\ m_sent' = 0 /\ m_out' = 0
        ELSE /\ m_aw' = IF MAw(i) THEN Tail(m_aw) ELSE m_aw
             /\ m_w' = IF last THEN Tail(m_w) ELSE m_w
             /\ m_sent' = IF last THEN 0 ELSE Count(m_sent, MW(i), FALSE)
             /\ m_out' = Count(m_out, FALSE, MB(i))

(* The slave. *)
SlaveNext(i) ==
    LET cmds == IF SAw(i) THEN Append(s_cmds, Head(m_aw)) ELSE s_cmds
        data == Count(s_early, SW(i) /\ SWLast, FALSE)
        both == cmds # <<>> /\ data > 0     \* a burst is complete
    IN  IF i.s_rst
        THEN /\ s_cmds' = <<>> /\ s_early' = 0 /\ s_beats' = 0 /\ s_owed' = 0
             /\ UNCHANGED s_whole
        ELSE /\ s_cmds' = IF both THEN Tail(cmds) ELSE cmds
             /\ s_early' = Count(data, FALSE, both)
             /\ s_beats' = IF SW(i) THEN IF SWLast THEN 0 ELSE s_beats + 1 ELSE s_beats
             /\ s_owed' = Count(s_owed, both, SB(i))
             /\ s_whole' = (s_whole /\ (SW(i) /\ s_early = 0 /\ cmds # <<>> =>
                                          SWLast = (s_beats = Head(cmds))))

(* One edge of clk.  An overflow of the FIFO of lengths shows as one entry *)
(* too many; what the hardware does after that is not followed.            *)
Clk(i) ==
    /\ Offered(i)
    /\ m_rst' = i.m_rst /\ s_rst' = i.s_rst
    /\ MasterTracking(i) /\ SlaveTracking(i)
    /\ Len(s_len') <= MOT + 1
    /\ MasterNext(i) /\ SlaveNext(i)

(* The master decides on a burst: command and data, in whatever order they *)
(* will be accepted.                                                       *)
Issue(len) ==
    /\ m_out < ISSUE
    /\ m_aw' = Append(m_aw, len) /\ m_w' = Append(m_w, len)
    /\ m_out' = m_out + 1
    /\ UNCHANGED <<resets, mTrack, sTrack, m_sent, slave>>

(* After an edge with both resets. *)
Init ==
    /\ m_rst = MASTER_RESET /\ s_rst = SLAVE_RESET
    /\ m_phony = SLAVE_RESET /\ m_w_cnt = 0 /\ m_b_cnt = 0 /\ m_cnt = 0
    /\ s_phony = MASTER_RESET /\ s_len = <<>> /\ s_w_cnt = 0 /\ s_b_cnt = 0
    /\ m_aw = <<>> /\ m_w = <<>> /\ m_sent = 0 /\ m_out = 0
    /\ s_cmds = <<>> /\ s_early = 0 /\ s_beats = 0 /\ s_owed = 0 /\ s_whole = TRUE

Next == (\E len \in Lens : Issue(len)) \/ \E i \in Inputs : Clk(i)

Spec == Init /\ [][Next]_vars

(* The sides meet: a valid is held until the ready comes, so again and     *)
(* again there are cycles in which all that is on offer is also wanted.    *)
(* The slave need not take data ahead of its command.  Nobody is made to   *)
(* enter or leave reset: such cycles are counted on only while the resets  *)
(* stay as they are, and either side may be held in reset for good.        *)
Willing(i) ==
    /\ i.m_aw_valid = (m_aw # <<>>) /\ i.m_w_valid = (m_w # <<>>)
    /\ i.s_b_valid = (s_owed > 0)
    /\ i.m_b_ready /\ i.s_aw_ready
    /\ i.s_w_ready = (s_cmds # <<>>)

Meet ==
    /\ UNCHANGED resets
    /\ \E i \in Inputs : Willing(i) /\ Clk(i)

FairSpec == Spec /\ WF_vars(Meet)
--------------------------------------------------------------------------------
TypeOK ==
    /\ m_phony \in BOOLEAN /\ s_phony \in BOOLEAN
    /\ m_w_cnt \in 0..MOT /\ m_b_cnt \in 0..MOT /\ m_cnt \in 0..MOT
    /\ s_len \in Seq(Lens) /\ s_w_cnt \in Lens /\ s_b_cnt \in 0..MOT
    /\ m_aw \in Seq(Lens) /\ m_w \in Seq(Lens) /\ m_sent \in Lens /\ m_out \in 0..ISSUE
    /\ s_cmds \in Seq(Lens) /\ s_early \in 0..ISSUE
    /\ s_beats \in Lens /\ s_owed \in 0..ISSUE /\ s_whole \in BOOLEAN

(* The master's bursts whose command was accepted, and those whose data    *)
(* was.                                                                    *)
Accepted == m_out - Len(m_aw)
DataDone == m_out - Len(m_w)

(* The counters are the master's own view: they never over- or underflow   *)
(* (the simulation checks of the module) and no burst escapes them,        *)
(* whatever the slave's resets do in between.                              *)
MasterTracked ==
    SLAVE_RESET =>
        /\ m_w_cnt = Accepted - DataDone
        /\ m_b_cnt = DataDone
        /\ m_cnt = Accepted
        /\ m_cnt <= MOT /\ m_w_cnt >= 0 /\ m_b_cnt >= 0

(* The FIFO of lengths does not overflow, which dlsc_fifo reports as an    *)
(* error (mem/rtl/dlsc_fifo.v, simulation checks).                         *)
LengthsFit == Len(s_len) <= MOT

(* The lengths, beats and responses are the slave's own view, whatever the *)
(* master's resets do in between.                                          *)
SlaveTracked ==
    MASTER_RESET =>
        /\ s_len = s_cmds /\ s_w_cnt = s_beats /\ s_b_cnt = s_owed
        /\ LengthsFit /\ s_early = 0

(* While neither side is fed phony traffic, both know of the same bursts.  *)
EndsAgree ==
    ~m_phony /\ ~s_phony =>
        /\ s_owed = DataDone
        /\ s_beats = m_sent
        /\ m_w = s_cmds \o m_aw

(* Every burst the slave gets has as many beats as its command asked for,  *)
(* also when the master is reset in the middle of it.                      *)
BurstsWhole == s_whole

(* The master is answered once for each burst, after its last beat. *)
NoSpuriousResponse == Accepted >= 0 /\ DataDone >= 0

(* What the module is for: no stall.  Once the slave was reset every burst *)
(* the master has on its way ends, once the master was reset every burst   *)
(* the slave has: also when the side that was reset never comes back ...   *)
MasterFinishes == m_phony ~> Accepted = 0
SlaveFinishes  == s_phony ~> s_cmds = <<>> /\ s_owed = 0

(* ... and new commands are accepted again once the slave stays up, though *)
(* the master was reset.                                                   *)
CommandsNotStalled == <>[]~m_phony => []<>(m_out < ISSUE)
================================================================================
