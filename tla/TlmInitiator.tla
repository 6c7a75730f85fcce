------------------------------ MODULE TlmInitiator ------------------------------
(***************************************************************************)
(* dlsc_tlm_initiator_nb (tlm/sim): issues transactions through the        *)
(* non-blocking calls of the TLM base protocol and tells the caller when   *)
(* each is complete.  A request is passed on at once unless an earlier one *)
(* still waits for END_REQ; a response may lie in the future by the delay  *)
(* it carries, and is then kept in complete_queue until its time.          *)
(*                                                                         *)
(* The kernel of SystemC runs one process at a time until it waits, and    *)
(* lets time pass only when none can run.  What nb_transport_fw returns is *)
(* a parameter of the actions: a composition binds it to a component, Next *)
(* to any target that follows the base protocol.                           *)
(***************************************************************************)
EXTENDS Integers, Sequences

CONSTANTS
    Txn             (* transactions, each used once *)

VARIABLES
    now,
    launch_queue,           (* requests not accepted yet *)
    launch_outstanding,     (* the first of them has been sent and waits *)
    launch_event,           (* launch_method is to run *)
    outstanding,            (* transactions not finished *)
    complete_queue,         (* answered, their done_time not reached *)
    done_local,             (* done_flag_local: answered *)
    done,                   (* done_flag: answered and done_time reached *)
    done_time,
    aborted                 (* an assertion of nb_transport_bw failed *)

state == <<launch_queue, launch_outstanding, launch_event, outstanding, complete_queue,
           done_local, done, done_time, aborted>>

StateInit ==
    /\ launch_queue = <<>> /\ launch_outstanding = FALSE /\ launch_event = FALSE
    /\ outstanding = {} /\ complete_queue = {}
    /\ done_local = {} /\ done = {}
    /\ done_time = [t \in Txn |-> 0]
    /\ aborted = FALSE
--------------------------------------------------------------------------------
(* What a call of nb_transport_fw with BEGIN_REQ returns: the status, the  *)
(* phase and the delay, the last two passed by reference.                  *)
Sync == {"accepted", "updated", "completed"}
Phase == {"BEGIN_REQ", "END_REQ", "BEGIN_RESP"}

Blocked(r) == r.sync = "accepted" \/ r.phase = "BEGIN_REQ"

(* Mutant of Answered: BEGIN_RESP is an answer, as the comment has it      *)
(* (dlsc_tlm_initiator_nb.h:385).                                          *)
AnsweredByPhase(r) == ~Blocked(r) /\ (r.sync = "completed" \/ r.phase = "BEGIN_RESP")

(* The call finishes the transaction.  BEGIN_RESP does not: launch_update  *)
(* then answers with END_RESP in the same variable (380), and finds that   *)
(* there when it tests for BEGIN_RESP (384).                               *)
Answered(r) == ~Blocked(r) /\ r.sync = "completed"

(* The target answers in the call and expects END_RESP (378). *)
AsksEndResp(r) == r.sync = "updated" /\ r.phase = "BEGIN_RESP"

(* Mutant of CompleteLocal: complete without waiting for the delay. *)
CompleteLocalEarly(answered, delay, open) ==
    /\ done_local' = done_local \cup answered
    /\ done_time' = [t \in Txn |-> IF t \in answered THEN now + delay[t] ELSE done_time[t]]
    /\ done' = done \cup answered
    /\ outstanding' = open \ answered
    /\ UNCHANGED complete_queue

(* complete_local for each answered transaction, with the delay of its     *)
(* answer; open, the transactions outstanding before.  Without a delay the *)
(* transaction is finished here.                                           *)
CompleteLocal(answered, delay, open) ==
    LET final == {t \in answered : delay[t] = 0}
    IN  /\ done_local' = done_local \cup answered
        /\ done_time' = [t \in Txn |-> IF t \in answered THEN now + delay[t] ELSE done_time[t]]
        /\ done' = done \cup final
        /\ outstanding' = open \ final
        /\ complete_queue' = complete_queue \cup (answered \ final)

(* The loop of launch_update over queue: replies has an entry for each     *)
(* call, and ends with the request that blocks or with the last one.       *)
Calls(queue, replies) ==
    /\ Len(replies) \in 1..Len(queue)
    /\ \A i \in 1..(Len(replies) - 1) : ~Blocked(replies[i])
    /\ ~Blocked(replies[Len(replies)]) => Len(replies) = Len(queue)

LaunchUpdate(queue, open, replies) ==
    LET blocked == Blocked(replies[Len(replies)])
        n == IF blocked THEN Len(replies) - 1 ELSE Len(replies)
        answered == {queue[i] : i \in {k \in 1..n : Answered(replies[k])}}
        call(t) == CHOOSE i \in 1..n : queue[i] = t
    IN  /\ launch_queue' = SubSeq(queue, n + 1, Len(queue))
        /\ launch_outstanding' = blocked
        /\ CompleteLocal(answered, [t \in answered |-> replies[call(t)].delay], open)

(* launch, called by nb_read and nb_write. *)
Launch(t, replies) ==
    LET queue == Append(launch_queue, t)
        open == outstanding \cup {t}
    IN  /\ t \notin outstanding \cup done_local
        /\ IF launch_outstanding
           THEN /\ replies = <<>>
                /\ launch_queue' = queue /\ outstanding' = open
                /\ UNCHANGED <<launch_outstanding, complete_queue, done_local, done, done_time>>
           ELSE Calls(queue, replies) /\ LaunchUpdate(queue, open, replies)
        /\ UNCHANGED <<launch_event, aborted>>

(* launch_method, woken by launch_event. *)
LaunchMethod(replies) ==
    /\ launch_event /\ launch_event' = FALSE
    /\ IF launch_outstanding \/ launch_queue = <<>>
       THEN /\ replies = <<>>
            /\ UNCHANGED <<launch_queue, launch_outstanding, outstanding, complete_queue,
                           done_local, done, done_time>>
       ELSE Calls(launch_queue, replies) /\ LaunchUpdate(launch_queue, outstanding, replies)
    /\ UNCHANGED aborted

(* Mutant of TransportBw: launch_method is not woken for what is queued.   *)
TransportBwQuiet(t, phase, delay) ==
    LET released == launch_outstanding /\ phase \in {"END_REQ", "BEGIN_RESP"}
    IN  /\ aborted' = (aborted \/ (released /\ Head(launch_queue) # t))
        /\ launch_queue' = IF released THEN Tail(launch_queue) ELSE launch_queue
        /\ launch_outstanding' = (launch_outstanding /\ ~released)
        /\ launch_event' = launch_event
        /\ IF phase = "BEGIN_RESP"
           THEN CompleteLocal({t}, [x \in {t} |-> delay], outstanding)
           ELSE UNCHANGED <<outstanding, complete_queue, done_local, done, done_time>>

(* nb_transport_bw: END_REQ, or BEGIN_RESP while a request is outstanding, *)
(* takes the first request off the queue, which must be of the same        *)
(* transaction.                                                            *)
TransportBw(t, phase, delay) ==
    LET released == launch_outstanding /\ phase \in {"END_REQ", "BEGIN_RESP"}
    IN  /\ aborted' = (aborted \/ (released /\ Head(launch_queue) # t))
        /\ launch_queue' = IF released THEN Tail(launch_queue) ELSE launch_queue
        /\ launch_outstanding' = (launch_outstanding /\ ~released)
        /\ launch_event' = (launch_event \/ released)
        /\ IF phase = "BEGIN_RESP"
           THEN CompleteLocal({t}, [x \in {t} |-> delay], outstanding)
           ELSE UNCHANGED <<outstanding, complete_queue, done_local, done, done_time>>

Due == {t \in complete_queue : done_time[t] <= now}

(* Mutant of CompleteMethod: one entry is finished, all that are due go.   *)
CompleteMethodOne ==
    /\ Due # {}
    /\ complete_queue' = complete_queue \ Due
    /\ \E t \in Due : done' = done \cup {t} /\ outstanding' = outstanding \ {t}
    /\ UNCHANGED <<launch_queue, launch_outstanding, launch_event, done_local, done_time, aborted>>

(* complete_method, woken when the time of the first entry is reached. *)
CompleteMethod ==
    /\ Due # {}
    /\ complete_queue' = complete_queue \ Due
    /\ done' = done \cup Due
    /\ outstanding' = outstanding \ Due
    /\ UNCHANGED <<launch_queue, launch_outstanding, launch_event, done_local, done_time, aborted>>

(* Nothing of the initiator can run. *)
Idle == ~launch_event /\ Due = {}
================================================================================
