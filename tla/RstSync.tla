-------------------------------- MODULE RstSync --------------------------------
(***************************************************************************)
(* dlsc_rstsync (sync/rtl): one asynchronous reset input distributed to    *)
(* several clock domains.  rst_in first runs through two flops of every    *)
(* domain; the OR of their outputs (rst_all) asynchronously sets, in every *)
(* domain, a second pair of flops and a fanout shift register whose last   *)
(* bit is the domain's reset.                                              *)
(*                                                                         *)
(* A clock edge is one action.  Asynchronous set is part of the action     *)
(* that raises its cause: RstInRise sets every flop in the same step.      *)
(***************************************************************************)
EXTENDS Naturals, TLAPS

CONSTANTS
    Domains,  (* the clocks, parameter DOMAINS *)
    DEPTH     (* length of the fanout shift register *)

ASSUME RstSyncAssumption ==
    /\ Domains # {}
    /\ DEPTH \in Nat \ {0, 1}   \* rst_sr[DEPTH-2:0] needs two bits

VARIABLES
    rst_in,  (* the asynchronous input *)
    dom,     (* flops that carry rst_in through each domain *)
    sync,    (* synchroniser flops of each rstsync_slice *)
    rst_sr,  (* fanout shift register of each rstsync_slice *)
    seen     (* history: the clock has ticked since rst_in last rose *)

vars == <<rst_in, dom, sync, rst_sr, seen>>

Bit == {0, 1}
Flops == [src : Bit, dst : Bit]
Set1 == [src |-> 1, dst |-> 1]

(* Mutant of Clocked: the second flop is not fed by the first. *)
ClockedStuck(f) == [src |-> 0, dst |-> f.dst]

(* dlsc_syncflop_slice with its input tied to 0, clocked once. *)
Clocked(f) == [src |-> 0, dst |-> f.src]

SingleDomain == \E d \in Domains : Domains = {d}

(* rst_all; a single domain has no aggregate and uses rst_in itself. *)
RstAll == IF SingleDomain
          THEN rst_in = 1
          ELSE \E d \in Domains : dom[d].dst = 1

RstOut(d) == rst_sr[d][DEPTH - 1]

FlopsSet == [d \in Domains |-> Set1]
ChainsSet == [d \in Domains |-> [i \in 0..DEPTH-1 |-> 1]]
NoneSeen == [d \in Domains |-> FALSE]

(* Power-up with the reset active. *)
Init ==
    /\ rst_in = 1
    /\ dom = FlopsSet
    /\ sync = FlopsSet
    /\ rst_sr = ChainsSet
    /\ seen = NoneSeen

(* The reset input goes high (also from low to high again before every     *)
(* domain has been released): all the chains are set asynchronously.       *)
RstInRise ==
    /\ rst_in = 0
    /\ rst_in' = 1
    /\ dom' = FlopsSet
    /\ sync' = FlopsSet
    /\ rst_sr' = ChainsSet
    /\ seen' = NoneSeen

RstInFall ==
    /\ rst_in = 1
    /\ rst_in' = 0
    /\ UNCHANGED <<dom, sync, rst_sr, seen>>

(* The flops through which rst_in enters domain d. *)
DomFlops(d) ==
    dom' = IF rst_in = 1 THEN dom ELSE [dom EXCEPT ![d] = Clocked(@)]

(* Mutant of Slice: it waits for its own domain only. *)
SliceOwnDomain(d) ==
    IF dom[d].dst = 1
    THEN UNCHANGED <<sync, rst_sr>>
    ELSE /\ sync' = [sync EXCEPT ![d] = Clocked(@)]
         /\ rst_sr' = [rst_sr EXCEPT ![d] =
                [i \in 0..DEPTH-1 |-> IF i = 0 THEN sync[d].dst ELSE @[i - 1]]]
(* The slice of domain d: held set while rst_all is high. *)
Slice(d) ==
    IF RstAll
    THEN UNCHANGED <<sync, rst_sr>>
    ELSE /\ sync' = [sync EXCEPT ![d] = Clocked(@)]
         /\ rst_sr' = [rst_sr EXCEPT ![d] =
                [i \in 0..DEPTH-1 |-> IF i = 0 THEN sync[d].dst ELSE @[i - 1]]]

ClkEdge(d) ==
    /\ DomFlops(d)
    /\ Slice(d)
    /\ seen' = [seen EXCEPT ![d] = TRUE]
    /\ UNCHANGED rst_in

Next == RstInRise \/ RstInFall \/ \E d \in Domains : ClkEdge(d)

Spec == Init /\ [][Next]_vars

(* The clocks run for ever; nothing is assumed of rst_in. *)
Fairness == \A d \in Domains : WF_vars(ClkEdge(d))

FairSpec == Spec /\ Fairness
--------------------------------------------------------------------------------
TypeOK ==
    /\ rst_in \in Bit
    /\ dom \in [Domains -> Flops]
    /\ sync \in [Domains -> Flops]
    /\ rst_sr \in [Domains -> [0..DEPTH-1 -> Bit]]
    /\ seen \in [Domains -> BOOLEAN]

(* The inductive invariant behind KeepsPromise: a zero entered the flops   *)
(* of a domain on an edge of its clock, the chains of the slices move only *)
(* while rst_all is low, and they are emptied from the input end.          *)
DomSeen ==
    \A d \in Domains :
        /\ dom[d].src <= dom[d].dst
        /\ dom[d].src = 0 => seen[d]
SliceSeen ==
    \A d \in Domains : sync[d].src = 0 => seen[d] /\ ~RstAll
InOrder ==
    \A d \in Domains :
        /\ sync[d].src <= sync[d].dst
        /\ sync[d].dst <= rst_sr[d][0]
        /\ \A i \in 0..DEPTH-2 : rst_sr[d][i] <= rst_sr[d][i + 1]
        /\ \A i \in 0..DEPTH-1 : rst_sr[d][i] = 0 => sync[d].src = 0
IInv == TypeOK /\ DomSeen /\ SliceSeen /\ InOrder /\ (rst_in = 1 => dom = FlopsSet)

(* The reset as the domains see it: the view of ResetDomains. *)
RstView == [d \in Domains |->
    IF RstOut(d) = 0 THEN "run" ELSE IF seen[d] THEN "held" ELSE "pending"]

Promise == INSTANCE ResetDomains WITH rst <- RstView

(* dlsc_rstsync keeps the promise of its header: no domain leaves reset    *)
(* before the clock of every domain has ticked in reset.                   *)
KeepsPromise == Promise!Spec

(* A domain in reset is released once the input stays low: the counts of   *)
(* the chains end (dlsc_rstsync_slice: "Once reset is removed, chain       *)
(* clocks in the non-reset value").                                        *)
EventuallyReleased ==
    <>[](rst_in = 0) => <>[](\A d \in Domains : RstOut(d) = 0)
--------------------------------------------------------------------------------
(***************************************************************************)
(* For any number of domains and any fanout depth, dlsc_rstsync keeps the  *)
(* promise of ResetDomains.                                                *)
(***************************************************************************)

(* The invariant of the chains holds initially and is kept by every step.  *)
LEMMA InitIInv == Init => IInv
  BY RstSyncAssumption
  DEF Init, IInv, TypeOK, DomSeen, SliceSeen, InOrder, FlopsSet, ChainsSet, NoneSeen,
      Set1, Bit, Flops

(* rst_all is only lowered by clock edges that every domain has counted.   *)
LEMMA ReleasedSeen ==
  ASSUME IInv, ~RstAll, NEW d \in Domains, sync[d].src = 0
  PROVE  \A e \in Domains : seen[e]
<1>1. CASE SingleDomain
  BY <1>1 DEF SingleDomain, IInv, SliceSeen
<1>2. CASE ~SingleDomain
  BY <1>2 DEF RstAll, IInv, DomSeen, TypeOK, Flops, Bit
<1> QED BY <1>1, <1>2

LEMMA EdgeTypeOK ==
  ASSUME TypeOK, NEW d \in Domains, ClkEdge(d)
  PROVE  TypeOK'
<1>1. dom' \in [Domains -> Flops]
  BY DEF ClkEdge, DomFlops, Clocked, TypeOK, Flops, Bit
<1>2. sync' \in [Domains -> Flops]
  BY DEF ClkEdge, Slice, Clocked, TypeOK, Flops, Bit
<1>3. rst_sr' \in [Domains -> [0..DEPTH-1 -> Bit]]
  <2>1. CASE RstAll
    BY <2>1 DEF ClkEdge, Slice, TypeOK
  <2>2. CASE ~RstAll
    <3> DEFINE new == [i \in 0..DEPTH-1 |-> IF i = 0 THEN sync[d].dst ELSE rst_sr[d][i - 1]]
    <3>1. new \in [0..DEPTH-1 -> Bit]
      BY RstSyncAssumption DEF TypeOK, Flops
    <3>2. rst_sr' = [rst_sr EXCEPT ![d] = new]
      BY <2>2 DEF ClkEdge, Slice
    <3> QED BY <3>1, <3>2 DEF TypeOK
  <2> QED BY <2>1, <2>2
<1> QED BY <1>1, <1>2, <1>3 DEF ClkEdge, TypeOK

(* One clock edge, with rst_all low and with rst_all high. *)
LEMMA EdgeIInv ==
  ASSUME IInv, NEW d \in Domains, ClkEdge(d)
  PROVE  IInv'
<1>1. TypeOK'
  BY EdgeTypeOK DEF IInv
<1>2. DomSeen'
  BY <1>1 DEF IInv, DomSeen, ClkEdge, DomFlops, Clocked, TypeOK, Flops, Bit
<1>3. ~RstAll => ~RstAll'
  BY DEF IInv, DomSeen, TypeOK, RstAll, ClkEdge, DomFlops, Clocked, Flops, Bit, FlopsSet, Set1, SingleDomain
<1>4. SliceSeen' /\ InOrder'
  <2>1. CASE RstAll
    BY <2>1, <1>3 DEF IInv, TypeOK, SliceSeen, InOrder, ClkEdge, Slice
  <2>2. CASE ~RstAll
    <3>1. SliceSeen'
      BY <2>2, <1>3 DEF IInv, TypeOK, SliceSeen, ClkEdge, Slice, Clocked, Flops, Bit
    <3>2. ASSUME NEW e \in Domains
          PROVE  /\ sync'[e].src <= sync'[e].dst
                 /\ sync'[e].dst <= rst_sr'[e][0]
                 /\ \A i \in 0..DEPTH-2 : rst_sr'[e][i] <= rst_sr'[e][i + 1]
                 /\ \A i \in 0..DEPTH-1 : rst_sr'[e][i] = 0 => sync'[e].src = 0
      <4>1. CASE e # d
        BY <4>1, <2>2, <3>2 DEF IInv, TypeOK, InOrder, ClkEdge, Slice
      <4>2. CASE e = d
        <5>1. /\ sync'[d] = [src |-> 0, dst |-> sync[d].src]
              /\ rst_sr'[d] = [i \in 0..DEPTH-1 |->
                                IF i = 0 THEN sync[d].dst ELSE rst_sr[d][i - 1]]
          BY <2>2 DEF IInv, TypeOK, ClkEdge, Slice, Clocked
        <5>2. sync[d].src \in Bit /\ sync[d].dst \in Bit /\ \A i \in 0..DEPTH-1 : rst_sr[d][i] \in Bit
          BY DEF IInv, TypeOK, Flops
        <5>3. /\ sync[d].src <= sync[d].dst
              /\ sync[d].dst <= rst_sr[d][0]
              /\ \A i \in 0..DEPTH-2 : rst_sr[d][i] <= rst_sr[d][i + 1]
          BY DEF IInv, InOrder
        <5>4. \A i \in 0..DEPTH-2 : rst_sr'[d][i] <= rst_sr'[d][i + 1]
          <6> TAKE i \in 0..DEPTH-2
          <6>1. CASE i = 0
            BY <6>1, <5>1, <5>3, RstSyncAssumption
          <6>2. CASE i # 0
            <7>1. i - 1 \in 0..DEPTH-2 /\ i \in 0..DEPTH-1 /\ i + 1 \in 0..DEPTH-1 /\ i + 1 # 0
              BY <6>2, RstSyncAssumption
            <7>2. rst_sr'[d][i] = rst_sr[d][i - 1] /\ rst_sr'[d][i + 1] = rst_sr[d][i]
              BY <7>1, <6>2, <5>1
            <7>3. rst_sr[d][i - 1] <= rst_sr[d][(i - 1) + 1]
              BY <7>1, <5>3
            <7> QED BY <7>1, <7>2, <7>3
          <6> QED BY <6>1, <6>2
        <5> QED BY <4>2, <5>1, <5>2, <5>3, <5>4, RstSyncAssumption DEF Bit
      <4> QED BY <4>1, <4>2
    <3> QED BY <3>1, <3>2 DEF InOrder
  <2> QED BY <2>1, <2>2
<1>5. (rst_in = 1 => dom = FlopsSet)'
  BY DEF IInv, ClkEdge, DomFlops, FlopsSet
<1> QED BY <1>1, <1>2, <1>4, <1>5 DEF IInv

LEMMA NextIInv == IInv /\ [Next]_vars => IInv'
<1> SUFFICES ASSUME IInv, [Next]_vars PROVE IInv'
  OBVIOUS
<1>1. CASE RstInRise
  BY <1>1, RstSyncAssumption
  DEF IInv, TypeOK, DomSeen, SliceSeen, InOrder, RstInRise, FlopsSet, ChainsSet, NoneSeen,
      Set1, Bit, Flops
<1>2. CASE RstInFall
  BY <1>2 DEF IInv, TypeOK, DomSeen, SliceSeen, InOrder, RstInFall, RstAll, SingleDomain, Bit
<1>3. ASSUME NEW d \in Domains, ClkEdge(d) PROVE IInv'
  BY <1>3, EdgeIInv
<1>4. CASE UNCHANGED vars
  BY <1>4 DEF vars, IInv, TypeOK, DomSeen, SliceSeen, InOrder, RstAll, SingleDomain
<1> QED BY <1>1, <1>2, <1>3, <1>4 DEF Next

(* The chains of flops are in order in every reachable state. *)
THEOREM Invariance == Spec => []IInv
  BY InitIInv, NextIInv, PTL DEF Spec

(* A clock edge is, for the domains, an edge of ResetDomains: a domain in  *)
(* reset stays there or is released after every clock has ticked.          *)
LEMMA EdgeKeepsPromise ==
  ASSUME IInv, IInv', NEW d \in Domains, ClkEdge(d)
  PROVE  Promise!Edge(d)
<1> DEFINE st(e) == IF RstOut(e) = 0 THEN "run" ELSE IF seen[e] THEN "held" ELSE "pending"
<1>0. DEPTH - 1 \in 0..DEPTH-1 /\ DEPTH - 2 \in 0..DEPTH-2 /\ (DEPTH - 2) + 1 = DEPTH - 1
  BY RstSyncAssumption
<1>1. \A e \in Domains : RstView[e] = st(e)
  BY DEF RstView
<1>2. RstView' = [RstView EXCEPT ![d] = st(d)']
  <2>1. \A e \in Domains : e # d => st(e)' = st(e)
    BY DEF ClkEdge, Slice, RstOut, IInv, TypeOK
  <2> QED BY <2>1, <1>1 DEF RstView
<1>3. seen'[d]
  BY DEF ClkEdge, IInv, TypeOK
<1>4. CASE RstOut(d) = 0
  <2>1. sync[d].src = 0 /\ ~RstAll
    BY <1>4, <1>0 DEF RstOut, IInv, InOrder, SliceSeen
  <2>2. rst_sr'[d][DEPTH - 1] = rst_sr[d][DEPTH - 2]
    BY <2>1, <1>0, RstSyncAssumption DEF ClkEdge, Slice, IInv, TypeOK
  <2>3. rst_sr[d][DEPTH - 2] <= rst_sr[d][DEPTH - 1] /\ rst_sr[d][DEPTH - 2] \in Bit
    BY <1>0, RstSyncAssumption DEF IInv, InOrder, TypeOK
  <2>4. RstOut(d)' = 0
    BY <2>2, <2>3, <1>4 DEF RstOut, Bit
  <2> QED BY <1>1, <1>2, <1>4, <2>4 DEF Promise!Edge, Promise!Stay
<1>5. CASE RstOut(d) # 0 /\ RstOut(d)' # 0
  BY <1>1, <1>2, <1>3, <1>5 DEF Promise!Edge, Promise!Stay
<1>6. CASE RstOut(d) # 0 /\ RstOut(d)' = 0
  <2>1. ~RstAll
    BY <1>6 DEF RstOut, ClkEdge, Slice
  <2>2. rst_sr'[d][DEPTH - 1] = rst_sr[d][DEPTH - 2]
    BY <2>1, <1>0, RstSyncAssumption DEF ClkEdge, Slice, IInv, TypeOK
  <2>3. sync[d].src = 0
    <3>1. rst_sr[d][DEPTH - 2] = 0
      BY <2>2, <1>6 DEF RstOut
    <3>2. DEPTH - 2 \in 0..DEPTH-1
      BY RstSyncAssumption
    <3> QED BY <3>1, <3>2 DEF IInv, InOrder
  <2>4. \A e \in Domains : seen[e]
    BY <2>1, <2>3, ReleasedSeen
  <2>5. RstView[d] = "held" /\ \A e \in Domains : RstView[e] # "pending"
    BY <1>1, <1>6, <2>4
  <2> QED BY <1>2, <1>6, <2>5 DEF Promise!Edge, Promise!Release
<1> QED BY <1>4, <1>5, <1>6

(* dlsc_rstsync implements the promise of its header comment. *)
THEOREM ImplementsPromise == Spec => KeepsPromise
<1>1. Init => Promise!Init
  BY RstSyncAssumption DEF Init, Promise!Init, RstView, RstOut, ChainsSet, NoneSeen
<1>2. IInv /\ IInv' /\ [Next]_vars => [Promise!Next]_RstView
  <2> SUFFICES ASSUME IInv, IInv', [Next]_vars PROVE [Promise!Next]_RstView
    OBVIOUS
  <2>1. CASE RstInRise
    BY <2>1, RstSyncAssumption
    DEF RstInRise, RstView, RstOut, ChainsSet, NoneSeen, Promise!Next, Promise!Assert
  <2>2. CASE RstInFall
    BY <2>2 DEF RstInFall, RstView, RstOut
  <2>3. ASSUME NEW d \in Domains, ClkEdge(d) PROVE Promise!Next
    BY <2>3, EdgeKeepsPromise DEF Promise!Next
  <2>4. CASE UNCHANGED vars
    BY <2>4 DEF vars, RstView, RstOut
  <2> QED BY <2>1, <2>2, <2>3, <2>4 DEF Next
<1> QED BY <1>1, <1>2, Invariance, PTL DEF Spec, KeepsPromise, Promise!Spec
================================================================================
