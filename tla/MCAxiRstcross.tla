------------------------------ MODULE MCAxiRstcross ------------------------------
(***************************************************************************)
(* dlsc_axi_rstcross (axi/rtl): the read and the write channels side by    *)
(* side.  They share nothing but clk and the two resets, of which neither  *)
(* half assumes anything; so a behaviour of the whole is one of each, and  *)
(* each is checked by itself: channel says which.  Registers the read      *)
(* channels do not have stay None; those they have go by the name of their *)
(* counterparts.                                                           *)
(***************************************************************************)
EXTENDS Naturals, Sequences

CONSTANTS
    MOT, LEN, ISSUE,    \* write channels
    RD_MOT, RD_LEN,     \* read channels
    None

VARIABLES
    channel,
    m_rst, s_rst,
    m_phony, m_w_cnt, m_b_cnt, m_cnt,
    s_phony, s_len, s_w_cnt, s_b_cnt,
    m_aw, m_w, m_sent, m_out,
    s_cmds, s_early, s_beats, s_owed, s_whole

Wr == INSTANCE AxiRstcrossWr WITH MASTER_RESET <- TRUE, SLAVE_RESET <- TRUE
Rd == INSTANCE AxiRstcrossRd WITH
    MAX_OUTSTANDING <- RD_MOT, LEN_BITS <- RD_LEN,
    m_len <- s_len, m_r_cnt <- m_w_cnt, s_r_cnt <- s_b_cnt,
    m_cmds <- m_aw, m_beats <- m_sent, m_whole <- s_whole

ASSUME ChannelsAssumption == Wr!AxiRstcrossWrAssumption /\ Rd!AxiRstcrossRdAssumption

vars == <<channel, Wr!vars>>
--------------------------------------------------------------------------------
rdLacks == <<m_b_cnt, m_cnt, s_w_cnt, m_w, m_out, s_early, s_owed>>
RdLacks == /\ m_b_cnt = None /\ m_cnt = None /\ s_w_cnt = None
           /\ m_w = None /\ m_out = None /\ s_early = None /\ s_owed = None

Init ==
    \/ channel = "wr" /\ Wr!Init
    \/ channel = "rd" /\ Rd!Init /\ RdLacks

Next ==
    /\ UNCHANGED channel
    /\ \/ channel = "wr" /\ Wr!Next
       \/ channel = "rd" /\ Rd!Next /\ UNCHANGED rdLacks

(* The fairness of the two halves: the sides meet. *)
Meet ==
    /\ UNCHANGED channel
    /\ \/ channel = "wr" /\ Wr!Meet
       \/ channel = "rd" /\ Rd!Meet /\ UNCHANGED rdLacks

Spec == Init /\ [][Next]_vars /\ WF_vars(Meet)
--------------------------------------------------------------------------------
TypeOK == (channel = "wr" => Wr!TypeOK) /\ (channel = "rd" => Rd!TypeOK)

(* The tracking of each side is that side's own view of its bursts, and no *)
(* counter leaves its range (the simulation checks of both halves),        *)
(* whatever resets the other side goes through.                            *)
MasterTracked == (channel = "wr" => Wr!MasterTracked) /\ (channel = "rd" => Rd!MasterTracked)
SlaveTracked == (channel = "wr" => Wr!SlaveTracked) /\ (channel = "rd" => Rd!SlaveTracked)

(* While neither side is fed phony traffic, both know of the same bursts.  *)
EndsAgree == (channel = "wr" => Wr!EndsAgree) /\ (channel = "rd" => Rd!EndsAgree)

(* All of it together: what the two sides know of each other's bursts.     *)
EndsTracked == TypeOK /\ MasterTracked /\ SlaveTracked /\ EndsAgree

(* Every burst has as many beats as its command asked for, at the slave    *)
(* for writes and at the master for reads, also when the other side is     *)
(* reset in the middle of it.                                              *)
BurstsWhole == (channel = "wr" => Wr!BurstsWhole) /\ (channel = "rd" => Rd!BurstsWhole)

(* A write is answered at most once, after its last beat. *)
NoSpuriousResponse == channel = "wr" => Wr!NoSpuriousResponse

(* What the module is for: no stall.  Once the slave was reset every burst *)
(* the master has on its way ends, and conversely: also when the side that *)
(* was reset never comes back ...                                          *)
MasterFinishes ==
    m_phony ~> /\ channel = "wr" => Wr!Accepted = 0
               /\ channel = "rd" => m_aw = <<>>
SlaveFinishes == s_phony ~> s_cmds = <<>> /\ (channel = "wr" => s_owed = 0)
BurstsEnd == MasterFinishes /\ SlaveFinishes

(* ... and new writes are accepted again once the slave stays up, though   *)
(* the master was reset.                                                   *)
WritesNotStalled == <>[]~m_phony => []<>(channel = "wr" => m_out < ISSUE)
================================================================================
