------------------------------- MODULE MCFifoAsync -------------------------------
(***************************************************************************)
(* FifoAsync with any of a set of parameters, one behaviour for each.      *)
(* Units is any set of parameters the code allows: what is proved of this  *)
(* module holds for all of them.  MCUnits is what TLC runs: two words deep *)
(* with words told apart; the same in the variants for WR_CYCLES and       *)
(* RD_CYCLES above one, whose flags are pessimistic; and four deep, with   *)
(* pointers of three bits and thresholds away from the ends, for tokens.   *)
(***************************************************************************)
EXTENDS Naturals, Sequences

CONSTANTS
    Data, Token, None,
    Units   (* the parameters, and the words that are pushed *)

VARIABLES
    unit,
    rst, mem, wr_addr, wr_r, wr_addr_gray, wr_wire, wr_rd_src, wr_rd_addr_gray, wr_rd_addr,
    wr_full, wr_almost_full, wr_free,
    rd_addr, rd_addr_gray, rd_wire, rd_wr_src, rd_wr_addr_gray, rd_wr_addr,
    rd_empty, rd_almost_empty, rd_count

Fifo(u) == INSTANCE FifoAsync WITH
    ADDR <- u.addr, ALMOST_FULL <- u.almost_full, ALMOST_EMPTY <- u.almost_empty,
    WR_SLOW <- u.wr_slow, RD_SLOW <- u.rd_slow, Data <- u.data

R == INSTANCE ResetDomains WITH Domains <- {"wr", "rd"}

UnitsAssumption == \A u \in Units : Fifo(u)!FifoAsyncAssumption

ASSUME UnitsAllowed == UnitsAssumption

MCUnits == {
    [addr |-> 1, almost_full |-> 1, almost_empty |-> 1, wr_slow |-> FALSE, rd_slow |-> FALSE,
     data |-> Data],
    [addr |-> 1, almost_full |-> 1, almost_empty |-> 1, wr_slow |-> TRUE, rd_slow |-> TRUE,
     data |-> Data],
    [addr |-> 2, almost_full |-> 2, almost_empty |-> 1, wr_slow |-> FALSE, rd_slow |-> FALSE,
     data |-> {Token}]}

regs == <<rst, mem, wr_addr, wr_r, wr_addr_gray, wr_wire, wr_rd_src, wr_rd_addr_gray,
          wr_rd_addr, wr_full, wr_almost_full, wr_free,
          rd_addr, rd_addr_gray, rd_wire, rd_wr_src, rd_wr_addr_gray, rd_wr_addr,
          rd_empty, rd_almost_empty, rd_count>>
vars == <<unit, regs>>
--------------------------------------------------------------------------------
Init == \E u \in Units : unit = u /\ Fifo(u)!Init

Next == UNCHANGED unit /\ \E u \in Units : unit = u /\ Fifo(u)!Next

(* The fairness of FifoAsync for whichever unit runs. *)
WrTick == UNCHANGED unit /\ \E u \in Units : unit = u /\ Fifo(u)!WrTick
RdTick == UNCHANGED unit /\ \E u \in Units : unit = u /\ Fifo(u)!RdTick
RdTake == UNCHANGED unit /\ \E u \in Units : unit = u /\ Fifo(u)!RdTake

Spec == Init /\ [][Next]_vars /\ WF_vars(WrTick) /\ WF_vars(RdTick) /\ SF_vars(RdTake)
--------------------------------------------------------------------------------
(* Each of these says of the unit that runs what the property of the same  *)
(* name says in FifoAsync.                                                 *)
TypeOK == \A u \in Units : unit = u => Fifo(u)!TypeOK

(* A word is in memory before the read side can see it. *)
HeadReady == \A u \in Units : unit = u => Fifo(u)!HeadReady

(* A pointer sampled in flight is the old or the new one, not a mixture.   *)
CleanCrossing == \A u \in Units : unit = u => Fifo(u)!CleanCrossing

(* Flags and counts err on the safe side, and no pointer leaves its range: *)
(* the writer never sees more room than there is, nor the reader a word    *)
(* that is not in memory yet.                                              *)
FlagsAreSafe ==
    /\ TypeOK /\ HeadReady
    /\ \A u \in Units : unit = u => Fifo(u)!FreeIsSafe /\ Fifo(u)!CountIsSafe

(* No word is lost, repeated, reordered or overwritten. *)
ChannelStep ==
    \A u \in Units : unit = u => [Fifo(u)!Chan!Next]_(Fifo(u)!Chan!vars)
ChannelInit == \A u \in Units : unit = u => Fifo(u)!Chan!Init
ImplementsChannel == ChannelInit /\ [][ChannelStep]_vars

(* The last push before the traffic stops is seen by the reader. *)
WordsAreSeen ==
    (R!AllRunning /\ wr_addr # rd_addr) ~> (~rd_empty \/ ~R!AllRunning)

(* The last pop before the traffic stops is seen by the writer. *)
SpaceIsSeen == <>[]R!AllRunning => []<>~wr_full

(* Neither side is stuck on a stale pointer when the traffic of the other  *)
(* stops.                                                                  *)
NothingStuck == WordsAreSeen /\ SpaceIsSeen
================================================================================
