------------------------------- MODULE AxiTlmWrite -------------------------------
(***************************************************************************)
(* The write half of dlsc_axi4lb_tlm_master_template and of                *)
(* dlsc_axi4lb_tlm_slave_template (axi/sim), wired to each other.  Data    *)
(* and their address cross at their own pace: the slave takes the data of  *)
(* one transaction and then waits for an address.                          *)
(***************************************************************************)
EXTENDS TlmBench, SequencesExt

vars == <<bench, finished, status, memory, master, bus, slave>>

MasterReset ==
    [aw_queue |-> <<>>, w_queue |-> <<>>, w_data |-> <<>>, b_queue |-> NoQueues, error |-> FALSE]
SlaveReset ==
    [aw_queue |-> <<>>, w_data |-> <<>>, w_wait_aw |-> FALSE, bts_queue |-> NoQueues,
     b_queue |-> NoQueues, error |-> FALSE]
BusReset ==
    [aw |-> None, aw_ready |-> FALSE, w |-> None, w_ready |-> FALSE, b |-> None, b_ready |-> FALSE]

Init == BenchInit /\ master = MasterReset /\ slave = SlaveReset /\ bus = BusReset
--------------------------------------------------------------------------------
(* target_callback *)
Issue(t) ==
    /\ t \notin issued /\ ~IsRead[t]
    /\ issued' = issued \cup {t}
    /\ master' = [master EXCEPT !.aw_queue = Append(@, t)]
    /\ UNCHANGED <<rst, resets, finished, status, memory, bus, slave>>

(* aw_method of the master *)
AwFree == bus.aw = None \/ bus.aw_ready
AwCan == AwFree /\ master.aw_queue # <<>>
AwNext(sends) ==
    IF sends /\ AwCan THEN Head(master.aw_queue) ELSE IF AwFree THEN None ELSE bus.aw
MasterAw(sends) ==
    IF ~(sends /\ AwCan) THEN master
    ELSE [master EXCEPT !.aw_queue = Tail(@), !.w_queue = Append(@, Head(master.aw_queue))]

(* w_method of the master: the data of the next transaction whose address  *)
(* has been sent, or is being sent now.                                    *)
WFree == bus.w = None \/ bus.w_ready
MasterLoads(m) ==
    IF ~WFree \/ m.w_data # <<>> \/ m.w_queue = <<>> THEN m
    ELSE LET t == Head(m.w_queue)
         IN  [m EXCEPT !.w_queue = Tail(@), !.w_data = Beats(t),
                       !.b_queue[IdOf[t]] = Append(@, t)]
WCan(m) == WFree /\ m.w_data # <<>>
WNext(m, sends) ==
    IF sends /\ WCan(m) THEN [beat |-> Head(m.w_data), last |-> Len(m.w_data) = 1]
    ELSE IF WFree THEN None ELSE bus.w
MasterW(m, sends) == IF sends /\ WCan(m) THEN [m EXCEPT !.w_data = Tail(@)] ELSE m

(* b_method of the master: the first transaction of the ID is completed. *)
BTaken == bus.b # None /\ bus.b_ready
Decoded(resp) ==
    CASE resp = "DECERR" -> "ADDRESS_ERROR" [] resp = "SLVERR" -> "COMMAND_ERROR"
      [] OTHER -> "GENERIC_ERROR"

MasterB(m) ==
    LET t == Head(m.b_queue[bus.b.id])
    IN  IF ~BTaken
        THEN master' = m /\ UNCHANGED <<finished, status>>
        ELSE IF m.b_queue[bus.b.id] = <<>>
        THEN master' = [m EXCEPT !.error = TRUE] /\ UNCHANGED <<finished, status>>
        ELSE /\ master' = [m EXCEPT !.b_queue[bus.b.id] = Tail(@)]
             /\ finished' = finished \cup {t}
             /\ status' = [status EXCEPT ![t] =
                             IF bus.b.resp = "OKAY" THEN @ ELSE Decoded(bus.b.resp)]
--------------------------------------------------------------------------------
(* aw_method of the slave *)
SlaveAw ==
    IF bus.aw # None /\ bus.aw_ready THEN [slave EXCEPT !.aw_queue = Append(@, bus.aw)]
    ELSE slave

(* w_method of the slave: takes a beat, *)
SlaveTakes(s) ==
    IF bus.w # None /\ bus.w_ready
    THEN [s EXCEPT !.w_data = Append(@, bus.w.beat), !.w_wait_aw = @ \/ bus.w.last]
    ELSE s

(* and, when it has all of a transaction and an address, issues the write. *)
Issues(s) == s.w_wait_aw /\ s.aw_queue # <<>>
SlaveIssues(s) ==
    IF ~Issues(s) THEN s
    ELSE LET t == Head(s.aw_queue)
         IN  [s EXCEPT !.aw_queue = Tail(@), !.w_data = <<>>, !.w_wait_aw = FALSE,
                       !.bts_queue[IdOf[t]] = Append(@, t),
                       !.error = @ \/ Len(s.w_data) # LengthOf[t]]
Writes(s) == IF Issues(s) THEN {Request(Beats(Head(s.aw_queue)), s.w_data)} ELSE {}

WReady(s, luck) == luck /\ ~s.w_wait_aw

(* Of each ID the first write, when it is done, is ready to be answered. *)
Resp(outcome) ==
    CASE outcome = "OK" -> "OKAY" [] outcome = "ADDRESS_ERROR" -> "DECERR"
      [] outcome = "GENERIC_ERROR" -> "SLVERR" [] OTHER -> "CORRUPT"

SlaveDone(s, answers) ==
    LET moves == {i \in Id : s.bts_queue[i] # <<>> /\ NbDone(answers, Beats(Head(s.bts_queue[i])))}
        resp(i) == Resp(BStatus(answers, Beats(Head(s.bts_queue[i]))))
    IN  [s EXCEPT !.bts_queue = [i \in Id |-> IF i \in moves THEN Tail(@[i]) ELSE @[i]],
                  !.b_queue = [i \in Id |-> IF i \in moves THEN Append(@[i], resp(i)) ELSE @[i]]]

(* b_method of the slave: an answer of a random ID; what it may do. *)
BFree == bus.b = None \/ bus.b_ready
SlaveB(s, lucky) ==
    LET ids == {i \in Id : s.b_queue[i] # <<>>}
        stays == [slave |-> s, b |-> IF BFree THEN None ELSE bus.b]
        sends(i) == [slave |-> [s EXCEPT !.b_queue[i] = Tail(@)],
                     b |-> [id |-> i, resp |-> Head(s.b_queue[i])]]
    IN  IF ~BFree \/ ids = {} THEN {stays}
        ELSE {sends(i) : i \in ids} \cup (IF lucky THEN {} ELSE {stays})
--------------------------------------------------------------------------------
Lines(m) == {m.aw_queue, m.w_queue} \cup {m.b_queue[i] : i \in Id}

(* clk_method of both. *)
Clk(lucky) ==
    /\ UNCHANGED bench
    /\ IF rst
       THEN InReset(UNION {Elems(q) : q \in Lines(master)}, MasterReset, BusReset, SlaveReset)
       ELSE LET taken == SlaveTakes(SlaveAw)
                s == SlaveIssues(taken)
            IN  /\ Ask(Writes(taken))
                /\ \E sends \in Chance(lucky, AwCan), next \in SlaveB(SlaveDone(s, answer'), lucky) :
                     LET m == MasterLoads(MasterAw(sends))
                     IN  \E data \in Chance(lucky, WCan(m)) :
                           /\ MasterB(MasterW(m, data))
                           /\ slave' = next.slave
                           /\ \E aw_ready \in Chance(lucky, AwNext(sends) # None),
                                 w_ready \in Chance(lucky, WNext(m, data) # None),
                                 b_ready \in Chance(lucky, next.b # None) :
                                bus' = [aw |-> AwNext(sends), aw_ready |-> aw_ready,
                                        w |-> WNext(m, data), w_ready |-> WReady(s, w_ready),
                                        b |-> next.b, b_ready |-> b_ready]

Next ==
    \/ \E t \in Txn : Issue(t)
    \/ Clk(FALSE)
    \/ \E r \in pending : Answer(r)
    \/ AssertReset \/ ReleaseReset

(* The clock runs, and every so often all the random numbers are low. *)
Fairness ==
    /\ SF_vars(Clk(TRUE))
    /\ WF_vars(\E r \in pending : Answer(r))
    /\ WF_vars(ReleaseReset)

Spec == Init /\ [][Next]_vars /\ Fairness
--------------------------------------------------------------------------------
BeatsOfAll(q) == FlattenSeq([k \in DOMAIN q |-> Beats(q[k])])
OnBus(x) == IF x = None THEN <<>> ELSE <<x>>

(* The data on their way are those of the addresses sent and not used yet, *)
(* in the same order: this is what lets the slave pair them.               *)
DataFollowAddresses ==
    BeatsOfAll(slave.aw_queue \o OnBus(bus.aw)) =
        slave.w_data \o (IF bus.w = None THEN <<>> ELSE <<bus.w.beat>>)
        \o master.w_data \o BeatsOfAll(master.w_queue)

(* While data wait for their address the slave takes no others. *)
OneWriteAtATime ==
    slave.w_wait_aw =>
        ~bus.w_ready /\ slave.w_data # <<>>
        /\ slave.w_data[Len(slave.w_data)] = <<slave.w_data[1][1], LengthOf[slave.w_data[1][1]]>>

(* The slave answers, for each ID, what it has been asked first. *)
AnswersInOrder ==
    \A i \in Id :
        LET n == Len(slave.b_queue[i]) + (IF bus.b # None /\ bus.b.id = i THEN 1 ELSE 0)
        IN  /\ n + Len(slave.bts_queue[i]) <= Len(master.b_queue[i])
            /\ slave.bts_queue[i] = SubSeq(master.b_queue[i], n + 1, n + Len(slave.bts_queue[i]))

InOrder == DataFollowAddresses /\ OneWriteAtATime /\ AnswersInOrder

Waiting(i) ==
    master.b_queue[i] \o SelectSeq(master.w_queue \o master.aw_queue, LAMBDA t : IdOf[t] = i)
NoError == ~master.error /\ ~slave.error
================================================================================
