-------------------------------- MODULE Channel --------------------------------
(***************************************************************************)
(* The abstract specification of a crossing or FIFO: a bounded queue that  *)
(* neither loses, repeats, reorders nor invents items while it is up, and  *)
(* that a reset empties.                                                   *)
(***************************************************************************)
EXTENDS Naturals, Sequences

CONSTANTS
    Item,
    Capacity

VARIABLES
    q,   (* the items accepted from the producer and not yet taken *)
    up   (* no reset is active on either side *)

vars == <<q, up>>

Init == q = <<>> /\ up = FALSE

Put(x) ==
    /\ up
    /\ Len(q) < Capacity
    /\ q' = Append(q, x)
    /\ UNCHANGED up

Take ==
    /\ up
    /\ q # <<>>
    /\ q' = Tail(q)
    /\ UNCHANGED up

(* A synchronous FIFO may give one item and take another at the same edge. *)
Exchange(x) ==
    /\ up
    /\ q # <<>>
    /\ q' = Append(Tail(q), x)
    /\ UNCHANGED up

(* What crosses when the producer does or does not give x and the consumer *)
(* does or does not take, at one edge.                                     *)
Edge(give, x, take) ==
    /\ give /\ take => Exchange(x)
    /\ give /\ ~take => Put(x)
    /\ ~give /\ take => Take
    /\ ~give /\ ~take => UNCHANGED q

Down == q' = <<>> /\ up' = FALSE

(* Leaving reset delivers nothing. *)
Up == q = <<>> /\ q' = <<>> /\ up' = TRUE

Next == (\E x \in Item : Put(x) \/ Exchange(x)) \/ Take \/ Down \/ Up

Spec == Init /\ [][Next]_vars
================================================================================
