------------------------------- MODULE AxiTlmRead -------------------------------
(***************************************************************************)
(* The read half of dlsc_axi4lb_tlm_master_template and of                 *)
(* dlsc_axi4lb_tlm_slave_template (axi/sim), wired to each other.  The     *)
(* slave may interleave the beats of different IDs.                        *)
(***************************************************************************)
EXTENDS TlmBench, SequencesExt

vars == <<bench, finished, status, memory, master, bus, slave>>

MasterReset == [ar_queue |-> <<>>, r_queue |-> NoQueues, r_data |-> NoQueues, error |-> FALSE]
SlaveReset == [ar_queue |-> NoQueues, r_queue |-> NoQueues]
BusReset == [ar |-> None, ar_ready |-> FALSE, r |-> None, r_ready |-> FALSE]

Init == BenchInit /\ master = MasterReset /\ slave = SlaveReset /\ bus = BusReset
--------------------------------------------------------------------------------
(* target_callback *)
Issue(t) ==
    /\ t \notin issued /\ IsRead[t]
    /\ issued' = issued \cup {t}
    /\ master' = [master EXCEPT !.ar_queue = Append(@, t)]
    /\ UNCHANGED <<rst, resets, finished, status, memory, bus, slave>>

(* ar_method of the master *)
ArFree == bus.ar = None \/ bus.ar_ready
ArCan == ArFree /\ master.ar_queue # <<>>
ArNext(sends) ==
    IF sends /\ ArCan THEN Head(master.ar_queue) ELSE IF ArFree THEN None ELSE bus.ar
MasterAr(sends) ==
    IF ~(sends /\ ArCan) THEN master
    ELSE LET t == Head(master.ar_queue)
         IN  [master EXCEPT !.ar_queue = Tail(@), !.r_queue[IdOf[t]] = Append(@, t)]

(* r_method of the master: beats are collected until the last. *)
RTaken == bus.r # None /\ bus.r_ready
Decoded(resp) == IF resp = "DECERR" THEN "ADDRESS_ERROR" ELSE "COMMAND_ERROR"

MasterR(m) ==
    LET i == bus.r.id
        t == Head(m.r_queue[i])
        data == Append(m.r_data[i], bus.r.beat)
        outcome == IF bus.r.resp = "OKAY" THEN status[t] ELSE Decoded(bus.r.resp)
        whole == Len(data) = LengthOf[t]
    IN  IF ~RTaken
        THEN master' = m /\ UNCHANGED <<finished, status>>
        ELSE IF m.r_queue[i] = <<>>
        THEN master' = [m EXCEPT !.error = TRUE] /\ UNCHANGED <<finished, status>>
        ELSE IF ~bus.r.last /\ ~whole
        THEN /\ master' = [m EXCEPT !.r_data[i] = data]
             /\ status' = [status EXCEPT ![t] = outcome]
             /\ UNCHANGED finished
        ELSE /\ master' = [m EXCEPT !.r_data[i] = <<>>, !.r_queue[i] = Tail(@),
                                    !.error = @ \/ ~bus.r.last \/ ~whole]
             /\ status' = [status EXCEPT ![t] = WithData(t, data, outcome)]
             /\ finished' = finished \cup {t}
--------------------------------------------------------------------------------
(* ar_method of the slave: a request for each address accepted; of each ID *)
(* the first, when it is answered, is ready to be sent back.               *)
ArTaken == bus.ar # None /\ bus.ar_ready
Resp(outcome) ==
    CASE outcome = "OK" -> "OKAY" [] outcome = "ADDRESS_ERROR" -> "DECERR" [] OTHER -> "SLVERR"

(* Mutant of SlaveAnswered: an answer may be sent before earlier ones of   *)
(* its ID.                                                                 *)
SlaveAnsweredFirst(s, answers) ==
    LET done(i) == SelectSeq(s.ar_queue[i], LAMBDA t : NbDone(answers, Beats(t)))
        entry(t) == [beats |-> Beats(t), resp |-> Resp(BStatus(answers, Beats(t)))]
    IN  [s EXCEPT !.ar_queue = [i \in Id |->
                        IF done(i) = <<>> THEN @[i] ELSE Remove(@[i], Head(done(i)))],
                  !.r_queue = [i \in Id |->
                        IF done(i) = <<>> THEN @[i] ELSE Append(@[i], entry(Head(done(i))))]]

SlaveAr ==
    IF ArTaken THEN [slave EXCEPT !.ar_queue[IdOf[bus.ar]] = Append(@, bus.ar)] ELSE slave

SlaveAnswered(s, answers) ==
    LET moves == {i \in Id : s.ar_queue[i] # <<>> /\ NbDone(answers, Beats(Head(s.ar_queue[i])))}
        entry(i) == LET beats == Beats(Head(s.ar_queue[i]))
                    IN  [beats |-> beats, resp |-> Resp(BStatus(answers, beats))]
    IN  [s EXCEPT !.ar_queue = [i \in Id |-> IF i \in moves THEN Tail(@[i]) ELSE @[i]],
                  !.r_queue = [i \in Id |-> IF i \in moves THEN Append(@[i], entry(i)) ELSE @[i]]]

(* r_method of the slave: a beat of a random ID; what it may do. *)
RFree == bus.r = None \/ bus.r_ready
SlaveR(s, lucky) ==
    LET ids == {i \in Id : s.r_queue[i] # <<>>}
        first(i) == Head(s.r_queue[i])
        last(i) == Len(first(i).beats) = 1
        rest(i) == IF last(i) THEN Tail(s.r_queue[i])
                   ELSE [s.r_queue[i] EXCEPT ![1].beats = Tail(@)]
        stays == [slave |-> s, r |-> IF RFree THEN None ELSE bus.r]
        sends(i) == [slave |-> [s EXCEPT !.r_queue[i] = rest(i)],
                     r |-> [id |-> i, beat |-> Head(first(i).beats), resp |-> first(i).resp,
                            last |-> last(i)]]
    IN  IF ~RFree \/ ids = {} THEN {stays}
        ELSE {sends(i) : i \in ids} \cup (IF lucky THEN {} ELSE {stays})
--------------------------------------------------------------------------------
Lines(m) == {m.ar_queue} \cup {m.r_queue[i] : i \in Id}

(* clk_method of both. *)
Clk(lucky) ==
    /\ UNCHANGED bench
    /\ IF rst
       THEN InReset(UNION {Elems(q) : q \in Lines(master)}, MasterReset, BusReset, SlaveReset)
       ELSE /\ Ask(IF ArTaken THEN {Request(Beats(bus.ar), Beats(bus.ar))} ELSE {})
            /\ \E sends \in Chance(lucky, ArCan),
                  next \in SlaveR(SlaveAnswered(SlaveAr, answer'), lucky) :
                 /\ MasterR(MasterAr(sends))
                 /\ slave' = next.slave
                 /\ \E ar_ready \in Chance(lucky, ArNext(sends) # None),
                       r_ready \in Chance(lucky, next.r # None) :
                      bus' = [ar |-> ArNext(sends), ar_ready |-> ar_ready,
                              r |-> next.r, r_ready |-> r_ready]

Next ==
    \/ \E t \in Txn : Issue(t)
    \/ Clk(FALSE)
    \/ \E r \in pending : Answer(r)
    \/ AssertReset \/ ReleaseReset

(* The clock runs, and every so often all the random numbers are low. *)
Fairness ==
    /\ SF_vars(Clk(TRUE))
    /\ WF_vars(\E r \in pending : Answer(r))
    /\ WF_vars(ReleaseReset)

Spec == Init /\ [][Next]_vars /\ Fairness
--------------------------------------------------------------------------------
(* What is on its way for ID i, in the order in which it will arrive. *)
BeatsComing(i) ==
    (IF bus.r # None /\ bus.r.id = i THEN <<bus.r.beat>> ELSE <<>>)
    \o FlattenSeq([k \in DOMAIN slave.r_queue[i] |-> slave.r_queue[i][k].beats])
ToCome(i) ==
    slave.ar_queue[i] \o (IF bus.ar # None /\ IdOf[bus.ar] = i THEN <<bus.ar>> ELSE <<>>)
BeatsOfAll(q) == FlattenSeq([k \in DOMAIN q |-> Beats(q[k])])

(* For each ID, the beats collected, those on their way and those still to *)
(* be read are the beats of the transactions that wait, in their order.    *)
InOrder ==
    \A i \in Id :
        BeatsOfAll(master.r_queue[i]) =
            master.r_data[i] \o BeatsComing(i) \o BeatsOfAll(ToCome(i))

Waiting(i) == master.r_queue[i] \o SelectSeq(master.ar_queue, LAMBDA t : IdOf[t] = i)
NoError == ~master.error
================================================================================
