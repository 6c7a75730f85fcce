-------------------------------- MODULE TlmTarget --------------------------------
(***************************************************************************)
(* dlsc_tlm_target_nb (tlm/sim), between any initiator that follows the    *)
(* base protocol and any device behind it.  The device is given a request  *)
(* by a callback, at the time of the call or, unless the target annotates  *)
(* (tann), when the request's delay is over; it completes requests during  *)
(* the callback or later, in any order, at a time that may lie ahead.      *)
(*                                                                         *)
(* The target is the master of the bench; its bus is the time and the      *)
(* response for which the initiator owes END_RESP.  There is no reset.     *)
(***************************************************************************)
EXTENDS TlmBench

CONSTANTS
    Invalid,        (* transactions validate_payload rejects *)
    Delays,         (* of requests, and of completions *)
    MaxNow          (* bound: no time passes after this *)

TlmTargetAssumption == Invalid \subseteq Txn /\ Delays \subseteq Nat /\ MaxNow \in Nat

vars == <<bench, finished, status, memory, master, bus, slave>>

Init ==
    /\ BenchInit
    /\ \E tann \in BOOLEAN :
         master = [tann |-> tann, outstanding |-> {}, complete_queue |-> <<>>,
                   complete_outstanding |-> FALSE, complete_event |-> FALSE, ready_queue |-> {},
                   ready_time |-> [t \in Txn |-> 0], complete_time |-> [t \in Txn |-> 0],
                   error |-> FALSE]
    /\ slave = [open |-> {}]
    /\ bus = [now |-> 0, end_resp |-> None, arrives |-> [t \in Txn |-> 0]]
--------------------------------------------------------------------------------
Later(a, b) == IF a < b THEN b ELSE a
now == bus.now

(* transaction_state::complete, complete_delay and complete_delta at time: *)
(* completed_notify queues the response.                                   *)
Completed(m, t, time) ==
    [m EXCEPT !.complete_time[t] = time, !.complete_queue = Append(@, t),
              !.complete_event = TRUE, !.error = @ \/ t \notin m.outstanding]

Times(m, t) == {now + d : d \in Delays} \cup {m.ready_time[t] + d : d \in Delays}

(* complete *)
Tidied(m, t) ==
    [m EXCEPT !.complete_queue = Tail(@), !.outstanding = @ \ {t},
              !.error = @ \/ m.complete_queue = <<>> \/ Head(m.complete_queue) # t]

(* The device may complete a request when the callback gives it. *)
Callback(m, t) == {[m |-> m, open |-> slave.open \cup {t}]}
    \cup {[m |-> Completed(m, t, time), open |-> slave.open] : time \in Times(m, t)}

(* The initiator gets the response; its delay is such that it counts not   *)
(* before complete_time, nor before time.                                  *)
Arrives(m, t, time) ==
    /\ finished' = finished \cup {t}
    /\ bus' = [bus EXCEPT !.arrives[t] = Later(m.complete_time[t], time)]

(* nb_transport_fw with BEGIN_REQ and a delay. *)
Accepted(t, delay) ==
    LET m == [master EXCEPT !.outstanding = @ \cup {t}, !.ready_time[t] = now + delay]
    IN  IF t \in Invalid THEN {[m |-> Completed(m, t, m.ready_time[t]), open |-> slave.open]}
        ELSE IF m.tann \/ delay = 0 THEN Callback(m, t)
        ELSE {[m |-> [m EXCEPT !.ready_queue = @ \cup {t}], open |-> slave.open]}

AnswersNow(m, t) ==
    ~m.complete_outstanding /\ m.complete_queue # <<>> /\ Head(m.complete_queue) = t

BeginReq(t, delay) ==
    /\ t \notin issued /\ issued' = issued \cup {t}
    /\ status' = [status EXCEPT ![t] = IF t \in Invalid THEN "ADDRESS_ERROR" ELSE @]
    /\ \E next \in Accepted(t, delay) :
         /\ slave' = [open |-> next.open]
         /\ IF AnswersNow(next.m, t)
            THEN master' = Tidied(next.m, t) /\ Arrives(next.m, t, now + delay)
            ELSE master' = next.m /\ UNCHANGED <<finished, bus>>
    /\ UNCHANGED <<rst, resets, memory>>

(* ready_method, one request at a time. *)
Due == {t \in master.ready_queue : master.ready_time[t] <= now}
ReadyMethod(t) ==
    /\ t \in Due
    /\ \E next \in Callback([master EXCEPT !.ready_queue = @ \ {t}], t) :
         master' = next.m /\ slave' = [open |-> next.open]
    /\ UNCHANGED <<bench, finished, status, memory, bus>>

(* The device completes a request. *)
Complete(t) ==
    /\ t \in slave.open /\ slave' = [open |-> slave.open \ {t}]
    /\ \E time \in Times(master, t) : master' = Completed(master, t, time)
    /\ UNCHANGED <<bench, finished, status, memory, bus>>

(* complete_method, one response at a time; the initiator may issue a      *)
(* request from within nb_transport_bw.  It ends the response, or defers.  *)
CompleteMethod ==
    /\ master.complete_event
    /\ LET t == Head(master.complete_queue)
       IN  IF master.complete_outstanding \/ master.complete_queue = <<>>
           THEN master' = [master EXCEPT !.complete_event = FALSE] /\ UNCHANGED <<finished, bus>>
           ELSE \/ master' = Tidied(master, t) /\ Arrives(master, t, now)
                \/ /\ master' = [master EXCEPT !.complete_outstanding = TRUE]
                   /\ finished' = finished \cup {t}
                   /\ bus' = [bus EXCEPT !.end_resp = t,
                                         !.arrives[t] = Later(master.complete_time[t], now)]
    /\ UNCHANGED <<bench, status, memory, slave>>

(* Mutant of Resumed: the responses behind the one that ends are forgotten. *)
ResumedNot(m) == m

(* nb_transport_fw with END_RESP. *)
Resumed(m) == [m EXCEPT !.complete_event = TRUE]
EndResp ==
    /\ bus.end_resp # None
    /\ master' = Resumed(Tidied([master EXCEPT !.complete_outstanding = FALSE,
                                               !.error = @ \/ ~master.complete_outstanding],
                                bus.end_resp))
    /\ bus' = [bus EXCEPT !.end_resp = None]
    /\ UNCHANGED <<bench, finished, status, memory, slave>>

Tick ==
    /\ now < MaxNow /\ Due = {} /\ ~master.complete_event
    /\ bus' = [bus EXCEPT !.now = @ + 1]
    /\ UNCHANGED <<bench, finished, status, memory, master, slave>>

Next ==
    \/ \E t \in Txn : (\E delay \in Delays : now + delay <= MaxNow /\ BeginReq(t, delay))
                      \/ ReadyMethod(t) \/ Complete(t)
    \/ CompleteMethod \/ EndResp \/ Tick

(* The methods run, the device completes what it was given, the initiator  *)
(* ends every response, and time passes.                                   *)
Fairness ==
    /\ \A t \in Txn : WF_vars(ReadyMethod(t)) /\ WF_vars(Complete(t))
    /\ WF_vars(CompleteMethod) /\ WF_vars(EndResp) /\ WF_vars(Tick)

Spec == Init /\ [][Next]_vars /\ Fairness
--------------------------------------------------------------------------------
(* A transaction that is not finished is in one place, a response that     *)
(* waits is the one for which END_RESP is owed or is about to be given,    *)
(* and none counts before its time.                                        *)
InOrder ==
    LET queued == Elems(master.complete_queue)
    IN  /\ master.outstanding = master.ready_queue \cup slave.open \cup queued
        /\ Cardinality(master.outstanding) =
             Cardinality(master.ready_queue) + Cardinality(slave.open)
                 + Len(master.complete_queue)
        /\ master.complete_outstanding = (bus.end_resp # None)
        /\ master.complete_outstanding => bus.end_resp = Head(master.complete_queue)
        /\ queued \cap finished \subseteq {bus.end_resp}
        /\ master.complete_queue # <<>> => master.complete_outstanding \/ master.complete_event
        /\ \A t \in finished : bus.arrives[t] >= master.complete_time[t]

NoError == ~master.error
================================================================================
