--------------------------------- MODULE ApbTlm ---------------------------------
(***************************************************************************)
(* dlsc_apb_tlm_master_template and dlsc_apb_tlm_slave_template (axi/sim), *)
(* wired to each other.  A transaction is transferred word by word, and    *)
(* each word is a request of its own to the memory.                        *)
(***************************************************************************)
EXTENDS TlmBench, TLC

vars == <<bench, finished, status, memory, master, bus, slave>>

(* bt_queue holds the transactions with the words not driven yet and those *)
(* read so far; error: an assertion fails or dlsc_error is called.         *)
MasterReset == [bt_queue |-> <<>>, error |-> FALSE]
SlaveReset == [ts |-> None, error |-> FALSE]
BusReset == [sel |-> FALSE, enable |-> FALSE, beat |-> None,
             ready |-> FALSE, slverr |-> FALSE, rdata |-> None]

Init == BenchInit /\ master = MasterReset /\ slave = SlaveReset /\ bus = BusReset
--------------------------------------------------------------------------------
(* target_callback *)
Issue(t) ==
    /\ t \notin issued
    /\ issued' = issued \cup {t}
    /\ master' = [master EXCEPT !.bt_queue = Append(@, [ts |-> t, addr |-> Beats(t), data |-> <<>>])]
    /\ UNCHANGED <<rst, resets, finished, status, memory, bus, slave>>

(* The response to a word, and whether it is the last. *)
Ends == bus.sel /\ bus.enable /\ bus.ready
First == Head(master.bt_queue)
Read == Append(First.data, bus.rdata)
Whole == IF IsRead[First.ts] THEN Len(Read) = LengthOf[First.ts] ELSE First.addr = <<>>
Outcome == IF bus.slverr THEN "GENERIC_ERROR" ELSE status[First.ts]

Complete ==
    IF ~Ends THEN UNCHANGED <<finished, status>>
    ELSE /\ finished' = IF Whole THEN finished \cup {First.ts} ELSE finished
         /\ status' = [status EXCEPT ![First.ts] =
                         IF Whole THEN WithData(First.ts, Read, Outcome) ELSE Outcome]

Left ==
    IF ~Ends THEN master.bt_queue
    ELSE IF Whole THEN Tail(master.bt_queue)
    ELSE [master.bt_queue EXCEPT ![1].data = IF IsRead[First.ts] THEN Read ELSE @]

(* A word may be driven in the cycle in which the one before ends. *)
CanDrive == (~bus.sel \/ Ends) /\ Left # <<>>

(* clk_method of the master *)
MasterClk(drives) ==
    /\ Complete
    /\ master' = [bt_queue |-> IF drives THEN [Left EXCEPT ![1].addr = Tail(@)] ELSE Left,
                  error |-> master.error \/ (bus.sel /\ master.bt_queue = <<>>)
                                         \/ (drives /\ Head(Left).addr = <<>>)]
--------------------------------------------------------------------------------
(* clk_method of the slave: the setup phase starts a request, which is     *)
(* answered during the access phase, or right away.                        *)
Setup == bus.sel /\ ~bus.enable
Starts == Setup /\ slave.ts = None
Ts == IF Starts THEN bus.beat ELSE slave.ts
Answerable(answers) == bus.sel /\ Ts # None /\ NbDone(answers, <<Ts>>)

SlaveClk(answers) ==
    slave' = [ts |-> IF answers \/ ~bus.sel THEN None ELSE Ts,
              error |-> \/ slave.error
                        \/ Setup /\ slave.ts # None
                        \/ bus.sel /\ bus.enable /\ ~bus.ready /\ slave.ts = None
                        \/ ~bus.sel /\ slave.ts # None]

(* What a read that fails leaves in a variable never written. *)
Junk == "junk"

(* The response, taken away in the next cycle.  When the slave is reset it *)
(* stays in apb_slverr.                                                    *)
Response(answers) ==
    IF answers
    THEN LET outcome == BStatus(answer', <<Ts>>)
         IN  [ready |-> TRUE, slverr |-> outcome # "OK",
              rdata |-> IF ~IsRead[Ts[1]] THEN None ELSE IF outcome = "OK" THEN Ts ELSE Junk]
    ELSE IF bus.ready THEN [ready |-> FALSE, slverr |-> FALSE, rdata |-> None]
    ELSE [ready |-> FALSE, slverr |-> bus.slverr, rdata |-> bus.rdata]

Clk(lucky) ==
    /\ UNCHANGED bench
    /\ IF rst
       THEN InReset({master.bt_queue[i].ts : i \in DOMAIN master.bt_queue},
                    MasterReset, [BusReset EXCEPT !.slverr = bus.slverr], SlaveReset)
       ELSE /\ Ask(IF Starts THEN {Request(<<bus.beat>>, <<bus.beat>>)} ELSE {})
            /\ \E drives \in {c /\ CanDrive : c \in Chance(lucky, CanDrive)},
                  answers \in {c /\ Answerable(answer') : c \in Chance(lucky, Answerable(answer'))} :
                 /\ MasterClk(drives)
                 /\ SlaveClk(answers)
                 /\ bus' = [sel |-> drives \/ (bus.sel /\ ~Ends),
                            enable |-> bus.sel /\ ~Ends,
                            beat |-> IF drives THEN Head(Head(Left).addr) ELSE bus.beat]
                            @@ Response(answers)

Next ==
    \/ \E t \in Txn : Issue(t)
    \/ Clk(FALSE)
    \/ \E r \in pending : Answer(r)
    \/ AssertReset \/ ReleaseReset

(* The clock runs, and every so often all the random numbers are low. *)
Fairness ==
    /\ SF_vars(Clk(TRUE))
    /\ WF_vars(\E r \in pending : Answer(r))
    /\ WF_vars(ReleaseReset)

Spec == Init /\ [][Next]_vars /\ Fairness
--------------------------------------------------------------------------------
(* The master and the slave agree on the phase: the slave has the word of  *)
(* the access phase until it answers.                                      *)
InOrder ==
    /\ bus.enable /\ bus.sel => (slave.ts = bus.beat) # bus.ready
    /\ slave.ts # None => bus.enable /\ bus.sel
    /\ \A i \in DOMAIN master.bt_queue :
         LET bt == master.bt_queue[i]
         IN  i > 1 => bt.addr = Beats(bt.ts) /\ bt.data = <<>>
    /\ bus.sel => bus.beat[1] = First.ts /\ bus.beat[2] = LengthOf[First.ts] - Len(First.addr)

Waiting(i) ==
    SelectSeq([k \in DOMAIN master.bt_queue |-> master.bt_queue[k].ts], LAMBDA t : IdOf[t] = i)
NoError == ~master.error /\ ~slave.error
================================================================================
