-------------------------------- MODULE AxiRouter --------------------------------
(***************************************************************************)
(* dlsc_axi_router_rd and dlsc_axi_router_wr (axi/rtl), the two directions *)
(* of dlsc_axi_router.  One command path from the inputs to the outputs    *)
(* tells a channel for the answers (R or B), and when writing another for  *)
(* the data (W), which input and output each burst connects.               *)
(*                                                                         *)
(* The masters offer commands and data at will.  A slave answers the       *)
(* commands it took in order, a write when it also has the data; a beat on *)
(* offer stays until it is taken.                                          *)
(***************************************************************************)
EXTENDS Naturals, Sequences

CONSTANTS
    INPUTS, OUTPUTS, LANES, MOT, BUFFER, None,
    WRITE,      (* the router is dlsc_axi_router_wr *)
    Openings    (* a bound: the beats a burst of data may begin with *)

VARIABLES
    valid, addr, pri, arb_out, cmd, out_valid,      \* AxiRouterCommand
    r_source, r_sink, r_lane, r_pri,                \* channel R or B
    w_source, w_sink, w_lane, w_pri,                \* channel W
    rst,
    r_offer, w_offer,   \* the beat of each slave or master, or None
    due,                \* the outputs each input waits for, in order
    owes,               \* the inputs each output has yet to answer, in order
    w_due, w_owes       \* the same of the data

command == <<valid, addr, pri, arb_out, cmd, out_valid>>
answers == <<r_source, r_sink, r_lane, r_pri, r_offer, due, owes>>
writes == <<w_source, w_sink, w_lane, w_pri, w_offer, w_due, w_owes>>
vars == <<command, answers, writes, rst>>

Cmd == INSTANCE AxiRouterCommand
R == INSTANCE AxiRouterChannel WITH
    SOURCES <- OUTPUTS, SINKS <- INPUTS, LANES <- IF WRITE THEN 1 ELSE LANES,
    source <- r_source, sink <- r_sink, lane <- r_lane, pri <- r_pri
W == INSTANCE AxiRouterChannel WITH
    SOURCES <- INPUTS, SINKS <- OUTPUTS,
    source <- w_source, sink <- w_sink, lane <- w_lane, pri <- w_pri

Inputs == Cmd!Inputs
Outputs == Cmd!Outputs

AxiRouterAssumption ==
    /\ Cmd!AxiRouterCommandAssumption /\ WRITE \in BOOLEAN /\ Openings \subseteq R!Beat
    /\ R!AxiRouterChannelAssumption /\ W!AxiRouterChannelAssumption

full_input ==
    {j \in Inputs : R!cmd_full_sink(j) \/ (WRITE /\ W!cmd_full_source(j))}
full_output ==
    {k \in Outputs : R!cmd_full_source(k) \/ (WRITE /\ W!cmd_full_sink(k))}
--------------------------------------------------------------------------------
(* The beat valid on each port.  Bursts have one beat or two, and a source *)
(* may pause between the two.                                              *)
Valid(offer) == [p \in DOMAIN offer |-> IF offer[p] = "pause" THEN None ELSE offer[p]]

(* Who waits for whom.  A command counts for its input when it is accepted *)
(* and for its output when it is forwarded; a burst ends with its last     *)
(* beat on a lane.                                                         *)
Advance(seq, done, new, x) ==
    LET rest == IF done THEN Tail(seq) ELSE seq IN IF new THEN Append(rest, x) ELSE rest

CountAnswers(in_addr, r_ready, fwd) ==
    /\ due' = [j \in Inputs |->
         Advance(due[j], R!SinkBeat(j, Valid(r_offer), r_ready) = "last",
                 j \in Cmd!Accepted(in_addr), in_addr[j])]
    /\ owes' = [k \in Outputs |->
         Advance(owes[k], R!SourceBeat(k, Valid(r_offer), r_ready) = "last",
                 fwd # None /\ fwd.output = k, fwd.input)]
CountData(in_addr, w_ready, fwd) ==
    /\ w_due' = [j \in Inputs |->
         Advance(w_due[j], W!SourceBeat(j, Valid(w_offer), w_ready) = "last",
                 j \in Cmd!Accepted(in_addr), in_addr[j])]
    /\ w_owes' = [k \in Outputs |->
         Advance(w_owes[k], W!SinkBeat(k, Valid(w_offer), w_ready) = "last",
                 fwd # None /\ fwd.output = k, fwd.input)]

(* The answers slave k may begin. *)
Answerable(k) ==
    LET taken == Len(owes[k]) - (IF out_valid[k] THEN 1 ELSE 0)
        given == R!Times("last", r_source[k].buf)
        complete == Len(owes[k]) - Len(w_owes[k]) - W!Times("last", w_sink[k].buf)
    IN  given < taken /\ (WRITE => given < complete)

Offers == {"beat", "last", "pause", None}

(* What the ports may offer next: a beat that is not taken stays, a burst  *)
(* that was begun is finished, and from begin[p] another may begin.        *)
NextOffers(offer, taken, begin) ==
    LET next == [p \in DOMAIN offer |->
            IF offer[p] \in {"beat", "last"} /\ p \notin taken THEN {offer[p]}
            ELSE IF offer[p] \in {"beat", "pause"} THEN {"pause", "last"}
            ELSE {None} \cup begin[p]]
    IN  {o \in [DOMAIN offer -> Offers] : \A p \in DOMAIN offer : o[p] \in next[p]}

NextAnswers(r_ready) ==
    NextOffers(r_offer, R!TakenSources(Valid(r_offer), r_ready),
        [k \in Outputs |-> IF ~Answerable(k)' THEN {} ELSE IF WRITE THEN {"last"} ELSE Openings])
NextData(w_ready) ==
    NextOffers(w_offer, W!TakenSources(Valid(w_offer), w_ready), [j \in Inputs |-> Openings])
--------------------------------------------------------------------------------
(* cmd_push with its numbers, as the answers and the data see it. *)
Answering == IF cmd = None THEN None ELSE [source |-> cmd.output, sink |-> cmd.input]
Writing == IF cmd = None THEN None ELSE [source |-> cmd.input, sink |-> cmd.output]

AnswerClk(r_ready, in_addr, fwd) ==
    /\ R!Clk(Answering, Valid(r_offer), r_ready)
    /\ CountAnswers(in_addr, r_ready, fwd)
WriteClk(w_ready, in_addr, fwd) ==
    IF WRITE
    THEN /\ W!Clk(Writing, Valid(w_offer), w_ready)
         /\ CountData(in_addr, w_ready, fwd)
         /\ w_offer' \in NextData(w_ready)
    ELSE w_ready = {} /\ UNCHANGED writes

Clk(in_addr, aw_ready, r_ready, w_ready) ==
    LET fwd == Cmd!Forwarded(aw_ready, full_input, full_output) IN
    /\ Cmd!Clk(in_addr, aw_ready, full_input, full_output)
    /\ AnswerClk(r_ready, in_addr, fwd)
    /\ WriteClk(w_ready, in_addr, fwd)
    /\ r_offer' \in NextAnswers(r_ready)

(* Everything connected to the router is in reset with it. *)
Nothing(ports) == [p \in ports |-> None]
NoBursts(ports) == [p \in ports |-> <<>>]

Reset ==
    /\ Cmd!Reset /\ R!Reset
    /\ r_offer' = Nothing(Outputs)
    /\ due' = NoBursts(Inputs) /\ owes' = NoBursts(Outputs)
    /\ IF WRITE
       THEN /\ W!Reset
            /\ w_offer' = Nothing(Inputs)
            /\ w_due' = NoBursts(Inputs) /\ w_owes' = NoBursts(Outputs)
       ELSE UNCHANGED writes

Init ==
    /\ Cmd!Init /\ R!Init
    /\ r_offer = Nothing(Outputs)
    /\ due = NoBursts(Inputs) /\ owes = NoBursts(Outputs)
    /\ IF WRITE
       THEN /\ W!Init
            /\ w_offer = Nothing(Inputs)
            /\ w_due = NoBursts(Inputs) /\ w_owes = NoBursts(Outputs)
       ELSE /\ w_source = None /\ w_sink = None /\ w_lane = None /\ w_pri = None
            /\ w_offer = None /\ w_due = None /\ w_owes = None

(* Inputs of the cycle that nothing looks at are not varied: a command     *)
(* before a full buffer, and a ready where nothing may be valid.           *)
Commands == {a \in [Inputs -> Outputs \cup {None}] : \A j \in Inputs : valid[j] => a[j] = None}
Open(sinks) == {k \in DOMAIN sinks : sinks[k].lane # None \/ sinks[k].buf # <<>>}
WriteReady == IF WRITE THEN SUBSET Open(w_sink) ELSE {{}}

Edge ==
    \E in_addr \in Commands, aw_ready \in SUBSET {k \in Outputs : out_valid[k]},
       r_ready \in SUBSET Open(r_sink), w_ready \in WriteReady :
        Clk(in_addr, aw_ready, r_ready, w_ready)

Next == Edge \/ Reset

(* A cycle in which every slave and master does its part: what is valid is *)
(* taken, and what can be offered is.                                      *)
Flow ==
    /\ \E in_addr \in Commands :
         Clk(in_addr, {k \in Outputs : out_valid[k]}, Open(r_sink),
             IF WRITE THEN Open(w_sink) ELSE {})
    /\ \A k \in Outputs : Answerable(k)' => Valid(r_offer')[k] # None
    /\ WRITE => \A j \in Inputs : Valid(w_offer')[j] # None

(* The clock runs, and such a cycle comes again and again. *)
Spec == Init /\ [][Next]_vars /\ WF_vars(Flow)
--------------------------------------------------------------------------------
(* What is checked in every state, in the words of the channels. *)
IInv ==
    /\ Cmd!IInv
    /\ R!QueuesAgree /\ R!GrantsAgree
    /\ WRITE => W!QueuesAgree /\ W!GrantsAgree

(* A beat passes from a slave to the input that slave has to answer first, *)
(* which expects its answer from that slave.                               *)
Routed ==
    /\ \A r_ready \in SUBSET Inputs, k \in Outputs :
         R!SourceBeat(k, Valid(r_offer), r_ready) # None =>
           LET j == r_lane[r_source[k].lane].sink IN
             /\ R!SinkBeat(j, Valid(r_offer), r_ready) = R!SourceBeat(k, Valid(r_offer), r_ready)
             /\ owes[k] # <<>> /\ Head(owes[k]) = j
             /\ due[j] # <<>> /\ Head(due[j]) = k
    /\ WRITE => \A w_ready \in SUBSET Outputs, j \in Inputs :
         W!SourceBeat(j, Valid(w_offer), w_ready) # None =>
           LET k == w_lane[w_source[j].lane].sink IN
             /\ W!SinkBeat(k, Valid(w_offer), w_ready) = W!SourceBeat(j, Valid(w_offer), w_ready)
             /\ w_owes[k] # <<>> /\ Head(w_owes[k]) = j
             /\ w_due[j] # <<>> /\ Head(w_due[j]) = k

(* What a comment of dlsc_axi_router_channel_source says of a request: a   *)
(* beat is there for the cycle after the grant.                            *)
GrantHasData ==
    \A k \in Outputs : r_source[k].grant_mask => R!InBeat(k, Valid(r_offer)) # None
================================================================================
