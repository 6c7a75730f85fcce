----------------------------- MODULE ResetDomains -----------------------------
(***************************************************************************)
(* What dlsc_rstsync promises to the clock domains it serves ("All domains *)
(* are guaranteed to be in reset before any domain is released from        *)
(* reset", sync/rtl/dlsc_rstsync.v).  The crossings of this project are    *)
(* checked under this promise; RstSync is shown to keep it.                *)
(*                                                                         *)
(* The registers of the crossings use synchronous resets, so being "in     *)
(* reset" takes a clock edge: a domain whose reset is asserted is          *)
(* "pending" until its clock has ticked once, "held" after that, and "run" *)
(* when its reset is low.                                                  *)
(***************************************************************************)
CONSTANT Domains

VARIABLE rst

ResetState == {"pending", "held", "run"}

Running(d) == rst[d] = "run"

AllRunning == \A d \in Domains : Running(d)

(* Power-up: the asynchronous reset is active and no clock has ticked. *)
Init == rst = [d \in Domains |-> "pending"]

(* The asynchronous input goes high: every domain enters reset at once. *)
Assert == rst' = [d \in Domains |-> "pending"]

(* A clock edge that leaves the domain as it is (running or in reset). *)
Stay(d) ==
    rst' = [rst EXCEPT ![d] = IF @ = "run" THEN "run" ELSE "held"]

(* A clock edge after which the domain's reset is low: its own registers   *)
(* have been reset, and so have those of every other domain.               *)
Release(d) ==
    /\ rst[d] = "held"
    /\ \A e \in Domains : rst[e] # "pending"
    /\ rst' = [rst EXCEPT ![d] = "run"]

(* One edge of the clock of domain d. *)
Edge(d) == Stay(d) \/ Release(d)

Next == Assert \/ \E d \in Domains : Edge(d)

Spec == Init /\ [][Next]_rst

TypeOK == rst \in [Domains -> ResetState]
===============================================================================
