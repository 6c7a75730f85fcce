---------------------------- MODULE AxiRouterCommand ----------------------------
(***************************************************************************)
(* dlsc_axi_router_command (axi/rtl): commands of several masters, one     *)
(* buffer each, are taken by a rotating arbiter, decoded, and put into the *)
(* buffer of the slave they address; the channels are told of each.  The   *)
(* choice of the arbiter is registered, so in the cycle after a command    *)
(* left its buffer the same, now empty, buffer can be the chosen one.      *)
(* FAST_COMMAND is 0, as both routers set it.                              *)
(*                                                                         *)
(* Of an address only the slave it decodes to is kept.                     *)
(***************************************************************************)
EXTENDS Naturals

CONSTANTS INPUTS, OUTPUTS, None

Inputs == 0..INPUTS-1
Outputs == 0..OUTPUTS-1
Command == [input : Inputs, output : Outputs]

AxiRouterCommandAssumption ==
    /\ INPUTS \in Nat \ {0} /\ OUTPUTS \in Nat \ {0}
    /\ None \notin Inputs \cup Outputs /\ None \notin Command

VARIABLES
    valid, addr,    \* the input buffers
    pri,            \* the input the arbiter looks at first
    arb_out,        \* its choice at the last edge, or None
    cmd,            \* cmd_push with cmd_input and cmd_output, or None
    out_valid       \* the output buffers

vars == <<valid, addr, pri, arb_out, cmd, out_valid>>

(* dlsc_arbiter: the first request from pri on, going round. *)
Distance(j) == (j + INPUTS - pri) % INPUTS
Winner(requests) ==
    IF requests = {} THEN None
    ELSE CHOOSE j \in requests : \A k \in requests : Distance(j) <= Distance(k)

(* The cycle: in_addr[j] is what input j offers, or None; out_ready the    *)
(* slaves that are; full the channels without room for (input, output).    *)
Accepted(in_addr) == {j \in Inputs : ~valid[j] /\ in_addr[j] # None}
InBufValid(in_addr) == {j \in Inputs : valid[j] \/ in_addr[j] # None}

(* Mutant of OutBufReady: FAST_COMMAND. *)
OutBufReadyFast(k, out_ready) == ~out_valid[k] \/ k \in out_ready

OutBufReady(k, out_ready) == ~out_valid[k]

(* What cmd_push_pre and the registers beside it come to. *)
Forwarded(out_ready, full_input, full_output) ==
    IF /\ arb_out # None
       /\ OutBufReady(addr[arb_out], out_ready)
       /\ arb_out \notin full_input /\ addr[arb_out] \notin full_output
    THEN [input |-> arb_out, output |-> addr[arb_out]]
    ELSE None

Clk(in_addr, out_ready, full_input, full_output) ==
    LET fwd == Forwarded(out_ready, full_input, full_output) IN
    /\ valid' = [j \in Inputs |->
         j \in Accepted(in_addr) \/ (valid[j] /\ (fwd # None => fwd.input # j))]
    /\ addr' = [j \in Inputs |-> IF j \in Accepted(in_addr) THEN in_addr[j] ELSE addr[j]]
    /\ arb_out' = Winner(InBufValid(in_addr))
    /\ pri' = IF InBufValid(in_addr) = {} THEN pri ELSE (pri + 1) % INPUTS
    /\ cmd' = fwd
    /\ out_valid' = [k \in Outputs |->
         (fwd # None /\ fwd.output = k) \/ (out_valid[k] /\ k \notin out_ready)]

(* The addresses have no reset.  Nobody offers a command in reset. *)
Reset ==
    /\ valid' = [j \in Inputs |-> FALSE]
    /\ UNCHANGED addr
    /\ pri' = 0 /\ arb_out' = None /\ cmd' = None
    /\ out_valid' = [k \in Outputs |-> FALSE]

Init ==
    /\ valid = [j \in Inputs |-> FALSE]
    /\ addr \in [Inputs -> Outputs]
    /\ pri = 0 /\ arb_out = None /\ cmd = None
    /\ out_valid = [k \in Outputs |-> FALSE]
--------------------------------------------------------------------------------
(* The choice of the arbiter may be a buffer that has just been emptied;   *)
(* then the command that left it still blocks its way.                     *)
IInv ==
    /\ valid \in [Inputs -> BOOLEAN] /\ addr \in [Inputs -> Outputs]
    /\ pri \in Inputs /\ arb_out \in Inputs \cup {None}
    /\ cmd \in Command \cup {None} /\ out_valid \in [Outputs -> BOOLEAN]
    /\ cmd # None => out_valid[cmd.output]
    /\ arb_out # None /\ ~valid[arb_out] => out_valid[addr[arb_out]]
================================================================================
