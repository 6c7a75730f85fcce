--------------------------------- MODULE CsrTlm ---------------------------------
(***************************************************************************)
(* dlsc_csr_tlm_master_template and dlsc_csr_tlm_slave_template (csr/sim), *)
(* wired to each other.  A command and a response are valid for one cycle; *)
(* the next command waits for the response.  The bus has no strobes.       *)
(***************************************************************************)
EXTENDS TlmBench

vars == <<bench, finished, status, memory, master, bus, slave>>

MasterReset == [bt_queue |-> <<>>, active |-> FALSE, error |-> FALSE]
SlaveReset == [ts |-> None, error |-> FALSE]
BusReset == [cmd |-> None, rsp |-> None]

Init == BenchInit /\ master = MasterReset /\ slave = SlaveReset /\ bus = BusReset
--------------------------------------------------------------------------------
(* target_callback *)
Issue(t) ==
    /\ t \notin issued
    /\ issued' = issued \cup {t}
    /\ master' = [master EXCEPT !.bt_queue = Append(@, [ts |-> t, addr |-> Beats(t), data |-> <<>>])]
    /\ UNCHANGED <<rst, resets, finished, status, memory, bus, slave>>

(* The response to a word, and whether it is the last of the transaction.  *)
Ends == bus.rsp # None /\ master.active
First == Head(master.bt_queue)
Read == Append(First.data, bus.rsp.data)
Whole == IF IsRead[First.ts] THEN Len(Read) = LengthOf[First.ts] ELSE First.addr = <<>>
Outcome == IF bus.rsp.error THEN "GENERIC_ERROR" ELSE status[First.ts]

Complete ==
    IF ~Ends THEN UNCHANGED <<finished, status>>
    ELSE /\ finished' = IF Whole THEN finished \cup {First.ts} ELSE finished
         /\ status' = [status EXCEPT ![First.ts] =
                         IF Whole THEN WithData(First.ts, Read, Outcome) ELSE Outcome]

Left ==
    IF ~Ends THEN master.bt_queue
    ELSE IF Whole THEN Tail(master.bt_queue)
    ELSE [master.bt_queue EXCEPT ![1].data = IF IsRead[First.ts] THEN Read ELSE @]

CanDrive == (~master.active \/ Ends) /\ Left # <<>>

(* clk_method of the master *)
MasterClk(drives) ==
    /\ Complete
    /\ master' = [bt_queue |-> IF drives THEN [Left EXCEPT ![1].addr = Tail(@)] ELSE Left,
                  active |-> drives \/ (master.active /\ ~Ends),
                  error |-> master.error \/ (bus.rsp # None /\ ~master.active)]
--------------------------------------------------------------------------------
(* clk_method of the slave: a command while a request is open is dropped.  *)
Starts == bus.cmd # None /\ slave.ts = None
Ts == IF Starts THEN bus.cmd ELSE slave.ts
Answerable(answers) == Ts # None /\ NbDone(answers, <<Ts>>)

SlaveClk(answers) ==
    slave' = [ts |-> IF answers THEN None ELSE Ts,
              error |-> slave.error \/ (bus.cmd # None /\ slave.ts # None)]

(* What a read that fails leaves in a variable never written. *)
Junk == "junk"
Response ==
    LET outcome == BStatus(answer', <<Ts>>)
    IN  [error |-> outcome # "OK", data |-> IF outcome = "OK" THEN Ts ELSE Junk]

Clk(lucky) ==
    /\ UNCHANGED bench
    /\ IF rst
       THEN InReset({master.bt_queue[i].ts : i \in DOMAIN master.bt_queue},
                    MasterReset, BusReset, SlaveReset)
       ELSE /\ Ask(IF Starts THEN {Request(<<bus.cmd>>, <<bus.cmd>>)} ELSE {})
            /\ \E drives \in {c /\ CanDrive : c \in Chance(lucky, CanDrive)},
                  answers \in {c /\ Answerable(answer') : c \in Chance(lucky, Answerable(answer'))} :
                 /\ MasterClk(drives)
                 /\ SlaveClk(answers)
                 /\ bus' = [cmd |-> IF drives THEN Head(Head(Left).addr) ELSE None,
                            rsp |-> IF answers THEN Response ELSE None]

Next ==
    \/ \E t \in Txn : Issue(t)
    \/ Clk(FALSE)
    \/ \E r \in pending : Answer(r)
    \/ AssertReset \/ ReleaseReset

(* The clock runs, and every so often all the random numbers are low. *)
Fairness ==
    /\ SF_vars(Clk(TRUE))
    /\ WF_vars(\E r \in pending : Answer(r))
    /\ WF_vars(ReleaseReset)

Spec == Init /\ [][Next]_vars /\ Fairness
--------------------------------------------------------------------------------
(* One word at a time, and it is on its way as a command, in the slave, or *)
(* coming back.                                                            *)
InOrder ==
    /\ master.active =
         (\/ bus.cmd # None /\ slave.ts = None /\ bus.rsp = None
          \/ bus.cmd = None /\ (slave.ts # None) # (bus.rsp # None))
    /\ bus.cmd # None \/ slave.ts # None =>
         LET b == IF bus.cmd # None THEN bus.cmd ELSE slave.ts
         IN  b[1] = First.ts /\ b[2] = LengthOf[First.ts] - Len(First.addr)

Waiting(i) ==
    SelectSeq([k \in DOMAIN master.bt_queue |-> master.bt_queue[k].ts], LAMBDA t : IdOf[t] = i)
NoError == ~master.error /\ ~slave.error
================================================================================
