------------------------------- MODULE WishboneTlm -------------------------------
(***************************************************************************)
(* dlsc_wishbone_tlm_master_template and dlsc_wishbone_tlm_slave_template  *)
(* (wishbone/sim), wired to each other.  Not pipelined, a word is held     *)
(* until it is acknowledged, and the slave reads ahead in a burst;         *)
(* pipelined, the slave gathers words that follow each other into one      *)
(* request, be they of one transaction or of several.                      *)
(***************************************************************************)
EXTENDS TlmBench, SequencesExt

CONSTANTS pipelined, registered, max_length, max_outstanding

WishboneTlmAssumption ==
    /\ pipelined \in BOOLEAN /\ registered \in BOOLEAN
    /\ max_length \in Nat \ {0} /\ max_outstanding \in Nat \ {0}

vars == <<bench, finished, status, memory, master, bus, slave>>

MasterReset == [cmd_queue |-> <<>>, ts_queue |-> <<>>, data |-> <<>>, error |-> FALSE]
SlaveReset ==
    [resp_queue |-> <<>>, data_queue |-> <<>>, cmd_ack |-> FALSE, cmd_first |-> TRUE,
     outstanding |-> 0, pipe |-> <<>>, error |-> FALSE]
BusReset ==
    [cyc |-> FALSE, stb |-> None, stall |-> FALSE, ack |-> FALSE, err |-> FALSE, dat |-> None]

Init == BenchInit /\ master = MasterReset /\ slave = SlaveReset /\ bus = BusReset
--------------------------------------------------------------------------------
(* target_callback *)
Issue(t) ==
    /\ t \notin issued
    /\ issued' = issued \cup {t}
    /\ master' = [master EXCEPT !.cmd_queue = @ \o Beats(t), !.ts_queue = Append(@, t)]
    /\ UNCHANGED <<rst, resets, finished, status, memory, bus, slave>>

(* cmd_method of the master *)
Moves == bus.stb = None \/ (IF pipelined THEN ~bus.stall ELSE bus.ack)
CanDrive == Moves /\ master.cmd_queue # <<>>
Stb(drives) ==
    IF drives THEN Head(master.cmd_queue) ELSE IF Moves THEN None ELSE bus.stb

(* resp_method of the master *)
Responded == bus.cyc /\ bus.ack /\ (pipelined \/ bus.stb # None)
First == Head(master.ts_queue)
Read == Append(master.data, bus.dat)
Whole == Len(Read) = LengthOf[First]
Outcome == IF bus.err THEN "GENERIC_ERROR" ELSE status[First]
Expected == Responded /\ master.ts_queue # <<>>

Complete ==
    IF ~Expected THEN UNCHANGED <<finished, status>>
    ELSE /\ finished' = IF Whole THEN finished \cup {First} ELSE finished
         /\ status' = [status EXCEPT ![First] =
                         IF Whole THEN WithData(First, Read, Outcome) ELSE Outcome]

MasterClk(drives) ==
    /\ Complete
    /\ master' = [cmd_queue |-> IF drives THEN Tail(master.cmd_queue) ELSE master.cmd_queue,
                  ts_queue |-> IF Expected /\ Whole THEN Tail(master.ts_queue) ELSE master.ts_queue,
                  data |-> IF ~Expected THEN master.data ELSE IF Whole THEN <<>> ELSE Read,
                  error |-> master.error \/ (Responded /\ ~Expected)]
--------------------------------------------------------------------------------
(* cmd_method of the slave.  Not pipelined: a read asks for its word if it *)
(* is the first of a burst, and for the next word unless it is the last.   *)
Strobe == bus.cyc /\ bus.stb # None
LastWord(b) == b[2] = LengthOf[b[1]]
NewWord == Strobe /\ ~slave.cmd_ack
Ahead(b) == registered /\ ~LastWord(b)

WordAsks ==
    LET b == bus.stb
    IN  IF ~NewWord THEN <<>>
        ELSE IF ~IsRead[b[1]] THEN <<<<b>>>>
        ELSE (IF slave.cmd_first THEN <<<<b>>>> ELSE <<>>)
             \o (IF Ahead(b) THEN <<<<<<b[1], b[2] + 1>>>>>> ELSE <<>>)

WordFirst ==
    IF NewWord /\ IsRead[bus.stb[1]] THEN ~Ahead(bus.stb) ELSE slave.cmd_first

(* Pipelined: a word that does not follow those gathered, and the lack of  *)
(* a word, submit them; so does their number.                              *)
Taken == Strobe /\ ~bus.stall /\ ~slave.cmd_ack

Follows(pipe, b) ==
    /\ IsRead[b[1]] = IsRead[pipe[1][1]]
    /\ Address(b) = Address(pipe[1]) + Len(pipe)

Gathered ==
    LET parts == IF slave.pipe = <<>> THEN <<<<bus.stb>>>>
                 ELSE IF Follows(slave.pipe, bus.stb) THEN <<Append(slave.pipe, bus.stb)>>
                 ELSE <<slave.pipe, <<bus.stb>>>>
    IN  IF Taken THEN parts ELSE <<slave.pipe, <<>>>>
Full == Len(Gathered[Len(Gathered)]) >= max_length
PipeAsks == SelectSeq(IF Full THEN Gathered ELSE Front(Gathered), LAMBDA q : q # <<>>)
Pipe == IF ~pipelined \/ Full THEN <<>> ELSE Gathered[Len(Gathered)]

Asks == IF pipelined THEN PipeAsks ELSE WordAsks

(* The words of a request are those that follow the address of the first.  *)
Submitted(p) ==
    Request(p, SelectSeq(p, LAMBDA b : \E i \in DOMAIN p :
                                p[i] = b /\ Address(b) = Address(p[1]) + i - 1))

Acked == IF pipelined THEN Strobe /\ ~bus.stall ELSE Strobe /\ bus.ack
SlaveCmd ==
    [slave EXCEPT !.resp_queue = @ \o Asks,
                  !.cmd_first = IF pipelined THEN @ ELSE WordFirst,
                  !.pipe = Pipe,
                  !.cmd_ack = (@ \/ (Strobe /\ (pipelined => ~bus.stall))) /\ ~Acked,
                  !.outstanding = IF (pipelined /\ Taken) \/ (~pipelined /\ NewWord) THEN @ + 1 ELSE @]

(* resp_method of the slave: the words of the first request when it is     *)
(* done, one after the other.  (For a write, zeros: only their number      *)
(* matters to the master.)                                                 *)
Responds == pipelined \/ bus.stb # None
Fetches(s, answers) ==
    Responds /\ s.data_queue = <<>> /\ s.resp_queue # <<>> /\ NbDone(answers, Head(s.resp_queue))
SlaveFetch(s, answers) ==
    IF Fetches(s, answers)
    THEN [s EXCEPT !.resp_queue = Tail(@), !.data_queue = Head(s.resp_queue)]
    ELSE s
CanAck(s) == Responds /\ s.data_queue # <<>>

Response(s, acks, err) ==
    IF ~Responds THEN [ack |-> bus.ack, err |-> bus.err, dat |-> bus.dat]
    ELSE IF s.data_queue = <<>> THEN [ack |-> FALSE, err |-> FALSE, dat |-> None]
    ELSE [ack |-> acks, err |-> err, dat |-> IF acks THEN Head(s.data_queue) ELSE bus.dat]

SlaveClk(s, acks) ==
    slave' = [s EXCEPT !.data_queue = IF acks THEN Tail(@) ELSE @,
                       !.outstanding = IF acks THEN @ - 1 ELSE @,
                       !.error = \/ @
                                 \/ ~bus.cyc /\ (slave.cmd_ack \/ slave.data_queue # <<>>
                                                               \/ SlaveCmd.resp_queue # <<>>)]

(* Mutant of Stalls: one command more is taken than allowed. *)
StallsLate(s, luck) == pipelined /\ (s.outstanding > max_outstanding \/ ~luck)

(* stall_method, after resp_method *)
Stalls(s, luck) == pipelined /\ (s.outstanding >= max_outstanding \/ ~luck)
--------------------------------------------------------------------------------
Clk(lucky) ==
    /\ UNCHANGED bench
    /\ IF rst
       THEN InReset(Elems(master.ts_queue), MasterReset, BusReset, SlaveReset)
       ELSE /\ Ask({Submitted(p) : p \in Elems(Asks)})
            /\ LET cmd == SlaveCmd
                   s == SlaveFetch(cmd, answer')
                   err == IF Fetches(cmd, answer')
                          THEN BStatus(answer', Head(cmd.resp_queue)) # "OK" ELSE bus.err
               IN  \E drives \in {c /\ CanDrive : c \in Chance(lucky, CanDrive)},
                      acks \in {c /\ CanAck(s) : c \in Chance(lucky, CanAck(s))} :
                     /\ MasterClk(drives)
                     /\ SlaveClk(s, acks)
                     /\ \E luck \in Chance(lucky, pipelined /\ Stb(drives) # None) :
                          bus' = [cyc |-> master'.ts_queue # <<>>, stb |-> Stb(drives),
                                  stall |-> Stalls(slave', luck)] @@ Response(s, acks, err)

Next ==
    \/ \E t \in Txn : Issue(t)
    \/ Clk(FALSE)
    \/ \E r \in pending : Answer(r)
    \/ AssertReset \/ ReleaseReset

(* The clock runs, and every so often all the random numbers are low. *)
Fairness ==
    /\ SF_vars(Clk(TRUE))
    /\ WF_vars(\E r \in pending : Answer(r))
    /\ WF_vars(ReleaseReset)

Spec == Init /\ [][Next]_vars /\ Fairness
--------------------------------------------------------------------------------
BeatsOfAll(q) == FlattenSeq([k \in DOMAIN q |-> Beats(q[k])])
InSlave ==
    (IF bus.ack THEN <<bus.dat>> ELSE <<>>) \o slave.data_queue \o FlattenSeq(slave.resp_queue)
        \o slave.pipe
ToCome == (IF bus.stb = None THEN <<>> ELSE <<bus.stb>>) \o master.cmd_queue

(* Every word is in its place: those answered, those the slave has and     *)
(* those not sent yet are the words of the transactions that wait, in      *)
(* their order.  Not pipelined, what the slave has is also still to come,  *)
(* and it is at most a word and the one read ahead.                        *)
InOrder ==
    /\ BeatsOfAll(master.ts_queue) =
         IF pipelined THEN master.data \o InSlave \o ToCome ELSE master.data \o ToCome
    /\ IF pipelined
       THEN /\ slave.outstanding = Len(slave.data_queue \o FlattenSeq(slave.resp_queue)
                                                           \o slave.pipe)
            /\ slave.outstanding <= max_outstanding
       ELSE IsPrefix(InSlave, ToCome) /\ Len(InSlave) <= 2

Waiting(i) == SelectSeq(master.ts_queue, LAMBDA t : IdOf[t] = i)
NoError == ~master.error /\ ~slave.error
================================================================================
