------------------------------ MODULE MCAxiRouter ------------------------------
(***************************************************************************)
(* AxiRouter with any of a set of parameters, one behaviour for each.      *)
(* Units is any set of parameters the code allows: what is proved of this  *)
(* module holds for all of them.  MCUnits is what TLC runs: readers with   *)
(* two masters and two slaves on two lanes or on one, with two masters, or *)
(* with two buffered slaves, and writers with two masters or two slaves,   *)
(* with bursts of one beat where the number of states calls for it.        *)
(***************************************************************************)
EXTENDS Naturals, Sequences

CONSTANTS
    None,
    Units   (* the parameters, and whether liveness is checked *)

VARIABLES
    unit,
    flow,   \* flips in each cycle in which everybody does his part
    valid, addr, pri, arb_out, cmd, out_valid,
    r_source, r_sink, r_lane, r_pri, w_source, w_sink, w_lane, w_pri,
    rst, r_offer, w_offer, due, owes, w_due, w_owes

Router(u) == INSTANCE AxiRouter WITH
    INPUTS <- u.inputs, OUTPUTS <- u.outputs, LANES <- u.lanes, MOT <- u.mot,
    BUFFER <- u.buffer, WRITE <- u.write, Openings <- u.openings

UnitsAssumption == \A u \in Units : Router(u)!AxiRouterAssumption

ASSUME UnitsAllowed == UnitsAssumption

MCUnits == {
    [inputs |-> 2, outputs |-> 2, lanes |-> 2, mot |-> 2, buffer |-> FALSE, write |-> FALSE,
     openings |-> {"last"}, live |-> FALSE],
    [inputs |-> 2, outputs |-> 2, lanes |-> 1, mot |-> 2, buffer |-> FALSE, write |-> FALSE,
     openings |-> {"last"}, live |-> TRUE],
    [inputs |-> 2, outputs |-> 1, lanes |-> 1, mot |-> 3, buffer |-> FALSE, write |-> FALSE,
     openings |-> {"beat", "last"}, live |-> TRUE],
    [inputs |-> 1, outputs |-> 2, lanes |-> 1, mot |-> 2, buffer |-> TRUE, write |-> FALSE,
     openings |-> {"beat", "last"}, live |-> TRUE],
    [inputs |-> 2, outputs |-> 1, lanes |-> 1, mot |-> 2, buffer |-> FALSE, write |-> TRUE,
     openings |-> {"beat", "last"}, live |-> FALSE],
    [inputs |-> 1, outputs |-> 2, lanes |-> 1, mot |-> 2, buffer |-> FALSE, write |-> TRUE,
     openings |-> {"last"}, live |-> TRUE]}

regs == <<valid, addr, pri, arb_out, cmd, out_valid,
          r_source, r_sink, r_lane, r_pri, w_source, w_sink, w_lane, w_pri,
          rst, r_offer, w_offer, due, owes, w_due, w_owes>>
vars == <<unit, flow, regs>>
--------------------------------------------------------------------------------
Init == flow = FALSE /\ \E u \in Units : unit = u /\ Router(u)!Init

Next ==
    /\ UNCHANGED unit
    /\ \E u \in Units :
          /\ unit = u
          /\ \/ Router(u)!Next /\ UNCHANGED flow
             \/ u.live /\ Router(u)!Flow /\ flow' = ~flow

(* Where liveness is checked, cycles in which everybody does his part come *)
(* again and again.  Such a cycle is possible in every state, so this is   *)
(* the weak fairness of Router!Flow, said in a way that TLC is quick with. *)
Fairness == unit.live => []<><<flow' # flow>>_flow

Spec == Init /\ [][Next]_vars /\ Fairness
--------------------------------------------------------------------------------
(* Buffers, queues and grants of both channels agree, and no queue of      *)
(* commands overflows.                                                     *)
IInv == \A u \in Units : unit = u => Router(u)!IInv

(* Every beat goes from the port that owes it to the port that is due it,  *)
(* in the order of the commands on both sides.                             *)
Routed == \A u \in Units : unit = u => Router(u)!Routed

(* What the outputs owe comes to an end, burst after burst: neither the    *)
(* queues of the two sides and the lane between them nor the two channels  *)
(* of a writer (an answer needs the data) wait for each other for ever.    *)
Owes(k) == unit.live /\ k \in DOMAIN owes /\ owes[k] # <<>>
BurstsEnd == \A k \in {0, 1} : Owes(k) ~> (~Owes(k) \/ r_source[k].grant_mask)

(* Commands keep moving: no full queue stops them for good. *)
Moving == cmd # None \/ \A j \in DOMAIN valid : ~valid[j]
CommandsMove == []<>(unit.live => Moving)

(* Commands and the bursts they stand for both make progress.              *)
NothingWaitsForever == BurstsEnd /\ CommandsMove

(* What a comment of dlsc_axi_router_channel_source says of a request: a   *)
(* beat is there for the cycle after the grant.                            *)
GrantHasData == \A u \in Units : unit = u => Router(u)!GrantHasData
================================================================================
