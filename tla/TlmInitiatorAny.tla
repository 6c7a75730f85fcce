---------------------------- MODULE TlmInitiatorAny ----------------------------
(***************************************************************************)
(* dlsc_tlm_initiator_nb with one caller and any target that follows the   *)
(* base protocol: the target may take a request at once or later, with or  *)
(* without END_REQ, and answer at once or later, in any order.  The caller *)
(* issues transactions and, when it likes, waits for all of them or, with  *)
(* wait(delay), for one.  An answer that comes with the call and asks for  *)
(* END_RESP is not heard: that transaction is never finished.              *)
(***************************************************************************)
EXTENDS TlmInitiator, SequenceTheorems, TLAPS

CONSTANTS
    Delays,         (* delays a call may return *)
    Quantum,        (* the global quantum of temporal decoupling; 0: none *)
    Polite,         (* no target answers an earlier transaction while a  *)
                    (* request still waits for END_REQ                    *)
    EndResps,       (* targets may answer in the call and ask for END_RESP *)
    WaitLocal,      (* the caller waits for all with wait(delay) rather   *)
                    (* than wait()                                        *)
    MaxNow,         (* bound: time after which the caller issues no more  *)
    NoTxn

ASSUME TlmInitiatorAnyAssumption ==
    /\ Delays \subseteq Nat /\ Quantum \in Nat /\ MaxNow \in Nat
    /\ Polite \in BOOLEAN /\ EndResps \in BOOLEAN /\ WaitLocal \in BOOLEAN
    /\ NoTxn \notin Txn

VARIABLES
    unheard,        (* answered in the call with BEGIN_RESP and ended     *)
                    (* there, which the initiator does not notice         *)
    waiting,        (* the caller is in a call of wait *)
    all,            (* which is for all transactions, not for one *)
    cur,            (* the transaction it waits for there *)
    local           (* its local time: the time plus its delay *)

caller == <<waiting, all, cur, local>>
vars == <<now, state, unheard, caller>>

TypeOK ==
    /\ now \in Nat
    /\ launch_queue \in Seq(Txn)
    /\ launch_outstanding \in BOOLEAN /\ launch_event \in BOOLEAN /\ aborted \in BOOLEAN
    /\ outstanding \subseteq Txn /\ complete_queue \subseteq Txn
    /\ done_local \subseteq Txn /\ done \subseteq Txn
    /\ done_time \in [Txn -> Nat]
    /\ waiting \in BOOLEAN /\ all \in BOOLEAN /\ cur \in Txn \cup {NoTxn} /\ local \in Nat

Init ==
    /\ now = 0 /\ StateInit /\ unheard = {}
    /\ waiting = FALSE /\ all = FALSE /\ cur = NoTxn /\ local = 0
--------------------------------------------------------------------------------
Queued == {launch_queue[i] : i \in DOMAIN launch_queue}

(* Requests the target has and has not answered. *)
AtTarget == outstanding \ (done_local \cup Queued \cup unheard)

Reply == [sync : Sync, phase : Phase, delay : Delays]

(* What a target may return: it leaves the request open, ends it, or       *)
(* answers it, with or without asking for END_RESP.                        *)
Legal(r) ==
    \/ r.sync = "accepted" /\ r.phase = "BEGIN_REQ" /\ r.delay = 0
    \/ r.sync = "updated" /\ r.phase = "END_REQ" /\ r.delay = 0
    \/ r.sync = "completed" /\ r.phase = "BEGIN_RESP"
    \/ EndResps /\ AsksEndResp(r)

Replies == UNION {[1..n -> {r \in Reply : Legal(r)}] : n \in 0..(Len(launch_queue) + 1)}

(* What the calls for the first requests of queue leave unheard. *)
Unheard(queue, replies) == {queue[i] : i \in {k \in DOMAIN replies : AsksEndResp(replies[k])}}

Issue ==
    /\ ~waiting /\ now <= MaxNow
    /\ \E t \in Txn, replies \in Replies :
          /\ Launch(t, replies)
          /\ unheard' = unheard \cup Unheard(Append(launch_queue, t), replies)
    /\ UNCHANGED <<now, caller>>

Resend ==
    /\ \E replies \in Replies :
          /\ LaunchMethod(replies)
          /\ unheard' = unheard \cup Unheard(launch_queue, replies)
    /\ UNCHANGED <<now, caller>>

(* The target ends the request it was given. *)
EndRequest ==
    /\ launch_outstanding
    /\ TransportBw(Head(launch_queue), "END_REQ", 0)
    /\ UNCHANGED <<now, unheard, caller>>

(* The target answers; a request that still waits is ended by its answer. *)
Answer(t) ==
    /\ \/ t \in AtTarget /\ (Polite => ~launch_outstanding)
       \/ launch_outstanding /\ t = Head(launch_queue)
    /\ \E d \in Delays : TransportBw(t, "BEGIN_RESP", d)
    /\ UNCHANGED <<now, unheard, caller>>

Complete == CompleteMethod /\ UNCHANGED <<now, unheard, caller>>
--------------------------------------------------------------------------------
Later(a, b) == IF a < b THEN b ELSE a

(* The calls of wait by which a caller waits for everything outstanding.   *)
StartWait ==
    /\ ~waiting /\ outstanding # {}
    /\ waiting' = TRUE /\ all' = TRUE /\ local' = Later(local, now)
    /\ UNCHANGED <<cur, now, state, unheard>>

(* The call of wait(delay) of one transaction, of which nb_done(delay)     *)
(* says that it is not finished at the local time.                         *)
StartWaitOne(t) ==
    /\ ~waiting /\ t \in outstanding
    /\ t \notin done_local \/ Later(local, now) < done_time[t]
    /\ waiting' = TRUE /\ cur' = t /\ local' = Later(local, now)
    /\ UNCHANGED <<all, now, state, unheard>>

(* begin(): the map is ordered by address, so any transaction may be first *)
(* but it stays first until it is finished.                                *)
PickNext(t) ==
    /\ waiting /\ cur = NoTxn /\ t \in outstanding
    /\ cur' = t
    /\ UNCHANGED <<waiting, all, local, now, state, unheard>>

(* How far time may run ahead: to the next boundary of the quantum. *)
LocalQuantum == Quantum - (now % Quantum)

(* The call is one of wait(delay). *)
Annotated == WaitLocal \/ ~all

(* transaction_state::wait(): sleeps until done_flag. *)
WaitDone ==
    /\ waiting /\ ~Annotated /\ cur \in done
    /\ cur' = NoTxn
    /\ UNCHANGED <<waiting, all, local, now, state, unheard>>

(* transaction_state::wait(delay): sleeps until done_flag_local, moves the *)
(* local time to done_time, and sleeps only while that is more than the    *)
(* quantum ahead.  The wait for one transaction ends with that.            *)
WaitDoneLocal ==
    /\ waiting /\ Annotated /\ cur \in done_local
    /\ local' = Later(Later(local, now), done_time[cur])
    /\ Quantum # 0 => local' - now <= LocalQuantum
    /\ cur' = NoTxn /\ waiting' = all
    /\ UNCHANGED <<all, now, state, unheard>>

Return ==
    /\ waiting /\ cur = NoTxn /\ outstanding = {}
    /\ waiting' = FALSE /\ all' = FALSE /\ local' = 0
    /\ UNCHANGED <<cur, now, state, unheard>>

(* The caller can run. *)
CallerReady ==
    \/ waiting /\ cur = NoTxn
    \/ Annotated /\ cur \in done_local
       /\ (Quantum = 0 \/ Later(local, done_time[cur]) - now <= LocalQuantum)
    \/ ~Annotated /\ cur \in done

Tick ==
    /\ Idle /\ ~CallerReady
    /\ complete_queue # {} \/ now < MaxNow
    /\ now' = now + 1
    /\ UNCHANGED <<state, unheard, caller>>

(* The caller's wait loop runs without a break until it sleeps: meanwhile  *)
(* no other process does.                                                  *)
Running == waiting /\ cur = NoTxn

Initiating == ~Running /\ (Resend \/ Complete)
Ending == ~Running /\ EndRequest
Answering(t) == ~Running /\ Answer(t)

Next ==
    \/ ~Running /\ Issue
    \/ Initiating \/ Ending \/ (\E t \in Txn : Answering(t))
    \/ StartWait \/ (\E t \in Txn : StartWaitOne(t) \/ PickNext(t))
    \/ WaitDone \/ WaitDoneLocal \/ Return
    \/ Tick

(* The kernel runs what can run, the target answers every request, and a   *)
(* caller that can go on does.  Nothing makes the caller issue or wait.    *)
Fairness ==
    /\ WF_vars(Initiating) /\ WF_vars(Ending)
    /\ \A t \in Txn : WF_vars(Answering(t)) /\ WF_vars(PickNext(t))
    /\ WF_vars(WaitDone) /\ WF_vars(WaitDoneLocal) /\ WF_vars(Return)
    /\ WF_vars(Tick)

Spec == Init /\ [][Next]_vars /\ Fairness
--------------------------------------------------------------------------------
(* Where a transaction is: not finished before it is answered and its time *)
(* has come, in complete_queue in between, in launch_queue only before.    *)
(* One whose answer was not heard is never finished: it stays outstanding, *)
(* with nothing in any queue that could finish it.                         *)
TxnsPlaced ==
    /\ done \subseteq done_local /\ done_local \subseteq done \cup outstanding
    /\ outstanding \cap done = {}
    /\ complete_queue = done_local \ done
    /\ Queued \subseteq outstanding \ done_local
    /\ unheard \subseteq outstanding \ (done_local \cup Queued)
    /\ \A t \in done : done_time[t] <= now

(* A request that is queued is either on its way or launch_method is about *)
(* to send it: none is forgotten when END_REQ and an issue race.           *)
NoRequestStuck ==
    /\ launch_outstanding => launch_queue # <<>>
    /\ launch_queue # <<>> => launch_outstanding \/ launch_event
    /\ \A i, j \in DOMAIN launch_queue : launch_queue[i] = launch_queue[j] => i = j

(* The assertion of nb_transport_bw (dlsc_tlm_initiator_nb.h:327): what    *)
(* ends an outstanding request is of the transaction that was sent.        *)
NoAbort == ~aborted

(* The inductive invariant. *)
IInv == TypeOK /\ TxnsPlaced /\ NoRequestStuck /\ (Polite => NoAbort)

(* A transaction is finished once, exactly when its annotated delay is     *)
(* over, and never becomes unfinished.                                     *)
FinishedOnTime ==
    [][/\ done \subseteq done'
       /\ \A t \in done' \ done : t \in done_local' /\ done_time'[t] = now']_vars

(* Every transaction issued is finished in the end, except one whose       *)
(* answer was not heard.                                                   *)
EventuallyDone == \A t \in Txn : t \in outstanding ~> t \in done \cup unheard

(* A caller that waits for all transactions comes back, and then none is   *)
(* outstanding.                                                            *)
WaitReturns == waiting /\ all ~> ~waiting /\ outstanding = {}

(* The caller of wait comes back, from a wait for one transaction and from *)
(* a wait for all, unless it waits for one whose answer was not heard.     *)
WaitEnds == waiting ~> ~waiting \/ cur \in unheard

(* Both: no transaction and no caller is left waiting, except for an       *)
(* answer that was not heard.                                              *)
CallerServed == EventuallyDone /\ WaitEnds
--------------------------------------------------------------------------------
(***************************************************************************)
(* The invariant of dlsc_tlm_initiator_nb for any set of transactions, any *)
(* delays and any target: no request is forgotten when an issue races with *)
(* END_REQ, no transaction is lost except those whose answer is not heard, *)
(* which are never finished, none is finished twice, and each is finished  *)
(* exactly at its time.  Every action is a change of launch_queue together *)
(* with one use of complete_local or complete_method, so there are lemmas  *)
(* for these (CompleteLocalInv, LaunchUpdateInv, CompleteMethodInv) and    *)
(* the actions follow from them.                                           *)
(***************************************************************************)

(* TxnsPlaced without launch_queue. *)
Placed ==
    /\ done \subseteq done_local /\ done_local \subseteq done \cup outstanding
    /\ outstanding \cap done = {}
    /\ complete_queue = done_local \ done
    /\ \A t \in done : done_time[t] <= now

BookTypes ==
    /\ outstanding \subseteq Txn /\ complete_queue \subseteq Txn
    /\ done_local \subseteq Txn /\ done \subseteq Txn
    /\ done_time \in [Txn -> Nat]

(* Nothing in complete_queue is overdue, which Tick relies on: this is     *)
(* what makes IInv strong enough for FinishedOnTime.                       *)
OnTime == \A t \in complete_queue : done_time[t] >= now

Strong == IInv /\ OnTime

(* What FinishedOnTime says of a step. *)
Finishing ==
    /\ done \subseteq done'
    /\ \A t \in done' \ done : t \in done_local' /\ done_time'[t] = now'

InQueue(q) == {q[i] : i \in DOMAIN q}
Distinct(q) == \A i, j \in DOMAIN q : q[i] = q[j] => i = j

(* Lists of replies are sequences of replies. *)
LEMMA RepliesType ==
  ASSUME TypeOK, NEW replies \in Replies
  PROVE  replies \in Seq(Reply)
<1>1. Len(launch_queue) \in Nat
  BY DEF TypeOK
<1>2. PICK n \in 0..(Len(launch_queue) + 1) : replies \in [1..n -> {r \in Reply : Legal(r)}]
  BY DEF Replies
<1>3. n \in Nat /\ replies \in [1..n -> Reply]
  BY <1>1, <1>2
<1> QED BY <1>3

LEMMA InitStrong ==
  ASSUME Init
  PROVE  Strong
<1>1. TypeOK
  <2>1. launch_queue \in Seq(Txn)
    BY DEF Init, StateInit
  <2>2. done_time \in [Txn -> Nat]
    BY DEF Init, StateInit
  <2> QED BY <2>1, <2>2 DEF Init, StateInit, TypeOK
<1>2. launch_queue = << >> /\ Queued = {}
  BY DEF Init, StateInit, Queued
<1>3. /\ done = {} /\ done_local = {} /\ outstanding = {} /\ complete_queue = {}
      /\ unheard = {}
      /\ launch_outstanding = FALSE /\ aborted = FALSE
  BY DEF Init, StateInit
<1>4. NoRequestStuck
  BY <1>2, <1>3 DEF NoRequestStuck
<1>5. TxnsPlaced /\ NoAbort /\ OnTime
  BY <1>2, <1>3 DEF TxnsPlaced, NoAbort, OnTime
<1> QED BY <1>1, <1>4, <1>5 DEF Strong, IInv

--------------------------------------------------------------------------------
(* Answers keep the sets disjoint and the times right; what is open and    *)
(* not answered stays so.                                                  *)
LEMMA CompleteLocalInv ==
  ASSUME Strong, now' = now,
         NEW open \in SUBSET Txn, outstanding \subseteq open, open \cap done = {},
         NEW answered \in SUBSET (open \ done_local),
         NEW delay, \A t \in answered : delay[t] \in Nat,
         CompleteLocal(answered, delay, open)
  PROVE  /\ Placed' /\ BookTypes' /\ OnTime' /\ Finishing
         /\ outstanding' \ done_local' = (open \ done_local) \ answered
<1> DEFINE final == {t \in answered : delay[t] = 0}
<1>1. /\ done_local' = done_local \cup answered
      /\ done' = done \cup final
      /\ outstanding' = open \ final
      /\ complete_queue' = complete_queue \cup (answered \ final)
      /\ done_time' = [t \in Txn |-> IF t \in answered THEN now + delay[t] ELSE done_time[t]]
  BY DEF CompleteLocal
<1>2. /\ done \subseteq done_local /\ done_local \subseteq done \cup outstanding
      /\ complete_queue = done_local \ done /\ done_local \subseteq Txn
      /\ done_time \in [Txn -> Nat] /\ now \in Nat
      /\ \A t \in done : done_time[t] <= now
      /\ \A t \in complete_queue : done_time[t] >= now
  BY DEF Strong, IInv, TypeOK, TxnsPlaced, OnTime
<1>3. /\ \A t \in answered : done_time'[t] = now + delay[t]
      /\ \A t \in Txn \ answered : done_time'[t] = done_time[t]
      /\ done_time' \in [Txn -> Nat]
  BY <1>1, <1>2
<1>4. /\ done' \subseteq done_local' /\ done_local' \subseteq done' \cup outstanding'
      /\ outstanding' \cap done' = {} /\ complete_queue' = done_local' \ done'
      /\ outstanding' \ done_local' = (open \ done_local) \ answered
      /\ done_local' \subseteq Txn /\ outstanding' \subseteq Txn
  BY <1>1, <1>2
<1>5. \A t \in done' : done_time'[t] <= now' /\ (t \notin done => done_time'[t] = now')
  BY <1>1, <1>2, <1>3
<1>6. \A t \in complete_queue' : done_time'[t] >= now'
  BY <1>1, <1>2, <1>3
<1> QED BY <1>1, <1>3, <1>4, <1>5, <1>6 DEF Placed, BookTypes, OnTime, Finishing

(* launch_update hands out the requests in order and stops at the one that *)
(* blocks: what remains in the queue is not answered, and if something     *)
(* remains the first of it is with the target.  What is answered but not   *)
(* heard is neither in the queue nor completed.                            *)
LEMMA LaunchUpdateInv ==
  ASSUME Strong, now' = now,
         NEW queue \in Seq(Txn), Distinct(queue),
         NEW open \in SUBSET Txn, outstanding \subseteq open, open \cap done = {},
         InQueue(queue) \subseteq open \ done_local,
         unheard \subseteq (open \ done_local) \ InQueue(queue),
         NEW replies \in Seq(Reply), Calls(queue, replies),
         LaunchUpdate(queue, open, replies)
  PROVE  /\ Placed' /\ BookTypes' /\ OnTime' /\ Finishing
         /\ launch_queue' \in Seq(Txn) /\ launch_outstanding' \in BOOLEAN
         /\ Distinct(launch_queue')
         /\ InQueue(launch_queue') \subseteq outstanding' \ done_local'
         /\ launch_outstanding' <=> launch_queue' # << >>
         /\ unheard \cup Unheard(queue, replies)
               \subseteq (outstanding' \ done_local') \ InQueue(launch_queue')
<1> DEFINE blocked == Blocked(replies[Len(replies)])
           n == IF blocked THEN Len(replies) - 1 ELSE Len(replies)
           answered == {queue[i] : i \in {k \in 1..n : Answered(replies[k])}}
           call(t) == CHOOSE i \in 1..n : queue[i] = t
           delay == [t \in answered |-> replies[call(t)].delay]
<1>1. /\ launch_queue' = SubSeq(queue, n + 1, Len(queue))
      /\ launch_outstanding' = blocked
      /\ CompleteLocal(answered, delay, open)
  BY DEF LaunchUpdate
<1>2. /\ Len(queue) \in Nat /\ Len(replies) \in 1..Len(queue)
      /\ n \in 0..Len(queue) /\ n <= Len(replies)
      /\ blocked <=> n < Len(queue)
      /\ \A i \in 1..Len(queue) : queue[i] \in Txn
      /\ \A i \in 1..Len(replies) : replies[i] \in Reply
  <2>1. Len(queue) \in Nat /\ Len(replies) \in 1..Len(queue)
    BY DEF Calls
  <2>2. CASE blocked
    BY <2>1, <2>2
  <2>3. CASE ~blocked
    BY <2>1, <2>3 DEF Calls
  <2> QED BY <2>1, <2>2, <2>3
<1>3. answered \in SUBSET (open \ done_local)
  BY <1>2 DEF InQueue
<1>4. \A t \in answered : delay[t] \in Nat
  <2>1. ASSUME NEW t \in answered PROVE delay[t] \in Nat
    <3>1. \E i \in 1..n : queue[i] = t
      BY <2>1
    <3>2. call(t) \in 1..n
      BY <3>1
    <3>3. call(t) \in 1..Len(replies)
      BY <1>2, <3>2
    <3>4. replies[call(t)] \in Reply
      BY <1>2, <3>3
    <3>5. replies[call(t)].delay \in Nat
      BY <3>4, TlmInitiatorAnyAssumption DEF Reply
    <3> QED BY <2>1, <3>5
  <2> QED BY <2>1
<1> HIDE DEF delay, call
<1>5. /\ Placed' /\ BookTypes' /\ OnTime' /\ Finishing
      /\ outstanding' \ done_local' = (open \ done_local) \ answered
  BY <1>1, <1>3, <1>4, CompleteLocalInv
<1> DEFINE rest == SubSeq(queue, n + 1, Len(queue))
<1>6. /\ rest \in Seq(Txn) /\ Len(rest) = Len(queue) - n
      /\ DOMAIN rest = 1..(Len(queue) - n)
      /\ \A i \in 1..(Len(queue) - n) : rest[i] = queue[i + n]
  <2> HIDE DEF n, blocked, answered
  <2>1. n + 1 \in Int /\ Len(queue) \in Int /\ \A i \in (n + 1)..Len(queue) : queue[i] \in Txn
    BY <1>2
  <2>2. /\ rest \in Seq(Txn)
        /\ Len(rest) = IF n + 1 <= Len(queue) THEN Len(queue) - (n + 1) + 1 ELSE 0
        /\ \A i \in 1..(Len(queue) - (n + 1) + 1) : rest[i] = queue[(n + 1) + i - 1]
    BY <2>1, SubSeqProperties
  <2>3. Len(rest) = Len(queue) - n
    BY <1>2, <2>2
  <2>4. DOMAIN rest = 1..(Len(queue) - n)
    BY <2>2, <2>3
  <2>5. \A i \in 1..(Len(queue) - n) : rest[i] = queue[i + n]
    BY <1>2, <2>2
  <2> QED BY <2>2, <2>3, <2>4, <2>5
<1>7. Distinct(rest)
  <2> HIDE DEF n, blocked, answered, rest
  <2>1. ASSUME NEW i \in DOMAIN rest, NEW j \in DOMAIN rest, rest[i] = rest[j]
        PROVE  i = j
    <3>1. /\ i \in 1..(Len(queue) - n) /\ j \in 1..(Len(queue) - n)
          /\ i + n \in 1..Len(queue) /\ j + n \in 1..Len(queue)
          /\ queue[i + n] = queue[j + n]
      <4>1. /\ i \in 1..(Len(queue) - n) /\ j \in 1..(Len(queue) - n)
            /\ rest[i] = queue[i + n] /\ rest[j] = queue[j + n]
        BY <1>6, <2>1
      <4>2. n \in Nat /\ Len(queue) \in Nat
        BY <1>2
      <4>3. i + n \in 1..Len(queue) /\ j + n \in 1..Len(queue)
        BY <4>1, <4>2
      <4>4. queue[i + n] = queue[j + n]
        BY <2>1, <4>1
      <4> QED BY <4>1, <4>3, <4>4
    <3>2. i + n = j + n
      BY <3>1 DEF Distinct
    <3> QED BY <1>2, <3>1, <3>2
  <2> QED BY <2>1 DEF Distinct
<1>8. InQueue(rest) \subseteq (open \ done_local) \ answered
  <2>1. ASSUME NEW i \in DOMAIN rest
        PROVE  rest[i] \in (open \ done_local) \ answered
    <3> HIDE DEF n, blocked, rest
    <3>1. i + n \in 1..Len(queue) /\ i + n > n /\ rest[i] = queue[i + n]
      BY <1>2, <1>6, <2>1
    <3>2. queue[i + n] \notin answered
      <4>1. ASSUME NEW k \in 1..n, queue[k] = queue[i + n] PROVE FALSE
        <5>1. k \in 1..Len(queue) /\ k < i + n
          BY <1>2, <3>1, <4>1
        <5>2. k = i + n
          BY <3>1, <4>1, <5>1 DEF Distinct
        <5> QED BY <1>2, <3>1, <5>1, <5>2
      <4>2. \A a \in answered : \E k \in 1..n : a = queue[k]
        OBVIOUS
      <4> QED BY <4>1, <4>2
    <3>3. queue[i + n] \in open \ done_local
      BY <3>1 DEF InQueue
    <3> QED BY <3>1, <3>2, <3>3
  <2> QED BY <2>1 DEF InQueue
<1>9. rest # << >> <=> blocked
  <2> HIDE DEF n, blocked, answered, rest
  <2>1. rest = << >> <=> Len(rest) = 0
    BY <1>6
  <2> QED BY <1>2, <1>6, <2>1
<1>10. blocked \in BOOLEAN
  BY DEF Blocked
<1>11. ASSUME NEW k \in DOMAIN replies, AsksEndResp(replies[k])
       PROVE  /\ queue[k] \in open \ done_local
              /\ queue[k] \notin answered /\ queue[k] \notin InQueue(rest)
  <2>1. k \in 1..Len(replies) /\ ~Blocked(replies[k]) /\ ~Answered(replies[k])
    BY <1>11 DEF AsksEndResp, Blocked, Answered
  <2>2. k \in 1..n /\ k \in 1..Len(queue)
    BY <1>2, <2>1
  <2>3. \A i \in 1..Len(queue) : queue[i] = queue[k] => i = k
    BY <2>2 DEF Distinct
  <2>4. queue[k] \in open \ done_local
    BY <2>2 DEF InQueue
  <2>5. queue[k] \notin answered
    <3> HIDE DEF n, blocked
    <3>1. \A i \in 1..n : i \in 1..Len(queue)
      BY <1>2
    <3> QED BY <2>1, <2>3, <3>1
  <2>6. queue[k] \notin InQueue(rest)
    <3> HIDE DEF n, blocked, answered, rest
    <3>1. ASSUME NEW i \in DOMAIN rest, rest[i] = queue[k] PROVE FALSE
      <4>1. i + n \in 1..Len(queue) /\ i + n > n /\ rest[i] = queue[i + n]
        BY <1>2, <1>6, <3>1
      <4> QED BY <1>2, <2>2, <2>3, <3>1, <4>1
    <3> QED BY <3>1 DEF InQueue
  <2> QED BY <2>4, <2>5, <2>6
<1>12. answered \subseteq InQueue(queue) /\ InQueue(rest) \subseteq InQueue(queue)
  <2>1. answered \subseteq InQueue(queue)
    BY <1>2 DEF InQueue
  <2> HIDE DEF n, blocked, answered, rest
  <2>2. \A i \in DOMAIN rest : i + n \in 1..Len(queue) /\ rest[i] = queue[i + n]
    BY <1>2, <1>6
  <2> QED BY <2>1, <2>2 DEF InQueue
<1> HIDE DEF n, blocked, answered, rest
<1>13. unheard \cup Unheard(queue, replies)
         \subseteq ((open \ done_local) \ answered) \ InQueue(rest)
  BY <1>11, <1>12 DEF Unheard
<1> QED BY <1>1, <1>5, <1>6, <1>7, <1>8, <1>9, <1>10, <1>13 DEF rest

LEMMA CompleteMethodInv ==
  ASSUME Strong, now' = now, CompleteMethod
  PROVE  /\ Placed' /\ BookTypes' /\ OnTime' /\ Finishing
         /\ outstanding' \ done_local' = outstanding \ done_local
<1>1. /\ complete_queue' = complete_queue \ Due /\ done' = done \cup Due
      /\ outstanding' = outstanding \ Due
      /\ done_local' = done_local /\ done_time' = done_time
  BY DEF CompleteMethod
<1>2. Due \subseteq complete_queue /\ \A t \in Due : done_time[t] = now
  BY DEF Due, Strong, IInv, TypeOK, OnTime
<1>3. Placed'
  BY <1>1, <1>2 DEF Placed, Strong, IInv, TypeOK, TxnsPlaced
<1>4. BookTypes'
  BY <1>1, <1>2 DEF BookTypes, Strong, IInv, TypeOK
<1>5. OnTime' /\ Finishing
  BY <1>1, <1>2 DEF OnTime, Finishing, Strong, IInv, TypeOK, TxnsPlaced
<1>6. outstanding' \ done_local' = outstanding \ done_local
  BY <1>1, <1>2 DEF Strong, IInv, TxnsPlaced
<1> QED BY <1>3, <1>4, <1>5, <1>6

--------------------------------------------------------------------------------
(* The invariant in the parts the actions change separately.               *)
QueueOK ==
    /\ launch_queue \in Seq(Txn)
    /\ launch_outstanding \in BOOLEAN /\ launch_event \in BOOLEAN
    /\ Distinct(launch_queue)
    /\ InQueue(launch_queue) \subseteq outstanding \ done_local
    /\ launch_outstanding => launch_queue # << >>
    /\ launch_queue # << >> => launch_outstanding \/ launch_event

CallerOK == waiting \in BOOLEAN /\ all \in BOOLEAN /\ cur \in Txn \cup {NoTxn} /\ local \in Nat

UnheardOK == unheard \subseteq (outstanding \ done_local) \ InQueue(launch_queue)

AbortOK == aborted \in BOOLEAN /\ (Polite => ~aborted)

Parts ==
    /\ now \in Nat
    /\ Placed /\ BookTypes /\ OnTime /\ QueueOK /\ UnheardOK /\ CallerOK /\ AbortOK

LEMMA StrongParts == (Strong <=> Parts) /\ (Strong' <=> Parts')
<1>1. Strong <=> Parts
  BY DEF Strong, IInv, TypeOK, TxnsPlaced, NoRequestStuck, NoAbort, Queued, InQueue, Distinct,
         Parts, Placed, BookTypes, QueueOK, UnheardOK, CallerOK, AbortOK
<1>2. Strong' <=> Parts'
  BY DEF Strong, IInv, TypeOK, TxnsPlaced, NoRequestStuck, NoAbort, Queued, InQueue, Distinct,
         Parts, Placed, BookTypes, QueueOK, UnheardOK, CallerOK, AbortOK
<1> QED BY <1>1, <1>2

(* The two ends of launch_queue. *)
LEMMA AppendQueue ==
  ASSUME QueueOK, NEW t \in Txn, t \notin outstanding
  PROVE  LET q == Append(launch_queue, t)
         IN  /\ q \in Seq(Txn) /\ q # << >> /\ Distinct(q)
             /\ InQueue(q) = InQueue(launch_queue) \cup {t}
<1> DEFINE q == Append(launch_queue, t)
           n == Len(launch_queue)
<1>1. /\ q \in Seq(Txn) /\ q # << >> /\ Len(q) = n + 1 /\ n \in Nat
      /\ \A i \in 1..n : q[i] = launch_queue[i]
      /\ q[n + 1] = t
  BY AppendProperties DEF QueueOK
<1>2. DOMAIN q = 1..(n + 1) /\ DOMAIN launch_queue = 1..n
  BY <1>1 DEF QueueOK
<1>3. \A i \in 1..n : launch_queue[i] # t
  BY <1>2 DEF QueueOK, InQueue
<1> HIDE DEF q, n
<1>4. InQueue(q) = InQueue(launch_queue) \cup {t}
  <2>1. DOMAIN q = DOMAIN launch_queue \cup {n + 1}
    BY <1>1, <1>2
  <2> QED BY <1>1, <1>2, <2>1 DEF InQueue
<1>5. Distinct(q)
  <2>1. ASSUME NEW i \in 1..(n + 1), NEW j \in 1..(n + 1), q[i] = q[j]
        PROVE  i = j
    <3>1. CASE i \in 1..n /\ j \in 1..n
      <4>1. launch_queue[i] = launch_queue[j]
        BY <1>1, <2>1, <3>1
      <4> QED BY <1>2, <3>1, <4>1 DEF QueueOK, Distinct
    <3>2. CASE i = n + 1 /\ j \in 1..n
      BY <1>1, <1>3, <2>1, <3>2
    <3>3. CASE i \in 1..n /\ j = n + 1
      BY <1>1, <1>3, <2>1, <3>3
    <3> QED BY <1>1, <3>1, <3>2, <3>3
  <2> QED BY <1>2, <2>1 DEF Distinct
<1> QED BY <1>1, <1>4, <1>5 DEF q

LEMMA TailQueue ==
  ASSUME QueueOK, launch_queue # << >>
  PROVE  LET q == Tail(launch_queue)
         IN  /\ q \in Seq(Txn) /\ Distinct(q)
             /\ InQueue(q) = InQueue(launch_queue) \ {Head(launch_queue)}
             /\ Head(launch_queue) \in InQueue(launch_queue)
<1> DEFINE q == Tail(launch_queue)
           n == Len(launch_queue)
<1>1. /\ q \in Seq(Txn) /\ Len(q) = n - 1 /\ n \in Nat /\ n >= 1
      /\ \A i \in 1..Len(q) : q[i] = launch_queue[i + 1]
      /\ Head(launch_queue) = launch_queue[1]
  BY HeadTailProperties DEF QueueOK
<1>2. DOMAIN q = 1..(n - 1) /\ DOMAIN launch_queue = 1..n
  BY <1>1 DEF QueueOK
<1> HIDE DEF q, n
<1>3. /\ \A i \in 1..(n - 1) : i + 1 \in 1..n /\ q[i] = launch_queue[i + 1]
      /\ \A i \in 1..n : i = 1 \/ (i - 1 \in 1..(n - 1) /\ (i - 1) + 1 = i)
      /\ 1 \in 1..n
  BY <1>1
<1>4. \A i, j \in 1..n : launch_queue[i] = launch_queue[j] => i = j
  BY <1>2 DEF QueueOK, Distinct
<1>5. Distinct(q)
  <2>1. ASSUME NEW i \in 1..(n - 1), NEW j \in 1..(n - 1), q[i] = q[j]
        PROVE  i = j
    <3>1. i + 1 = j + 1
      BY <1>3, <1>4, <2>1
    <3> QED BY <3>1
  <2> QED BY <1>2, <2>1 DEF Distinct
<1>6. ASSUME NEW i \in 1..(n - 1)
      PROVE  q[i] \in InQueue(launch_queue) \ {launch_queue[1]}
  <2>1. i + 1 \in 1..n /\ i + 1 # 1 /\ q[i] = launch_queue[i + 1]
    BY <1>3
  <2>2. launch_queue[i + 1] # launch_queue[1]
    BY <1>3, <1>4, <2>1
  <2> QED BY <1>2, <2>1, <2>2 DEF InQueue
<1>7. ASSUME NEW i \in 1..n, launch_queue[i] # launch_queue[1]
      PROVE  launch_queue[i] \in InQueue(q)
  <2>1. i - 1 \in 1..(n - 1) /\ (i - 1) + 1 = i
    BY <1>3, <1>7
  <2>2. q[i - 1] = launch_queue[i]
    BY <1>3, <2>1
  <2> QED BY <1>2, <2>1, <2>2 DEF InQueue
<1>8. InQueue(q) = InQueue(launch_queue) \ {launch_queue[1]}
  BY <1>2, <1>6, <1>7 DEF InQueue
<1>9. launch_queue[1] \in InQueue(launch_queue)
  BY <1>2, <1>3 DEF InQueue
<1> QED BY <1>1, <1>5, <1>8, <1>9 DEF q

--------------------------------------------------------------------------------
(* The actions of the initiator and the target.                            *)
LEMMA IssueInv ==
  ASSUME Strong, Issue
  PROVE  Strong' /\ Finishing
<1>1. PICK t \in Txn, replies \in Replies :
         /\ Launch(t, replies)
         /\ unheard' = unheard \cup Unheard(Append(launch_queue, t), replies)
  BY DEF Issue
<1>2. now' = now /\ UNCHANGED caller /\ UNCHANGED <<launch_event, aborted>>
  BY <1>1 DEF Issue, Launch
<1>3. Parts
  BY StrongParts
<1> DEFINE queue == Append(launch_queue, t)
           open == outstanding \cup {t}
<1>4. t \notin outstanding /\ t \notin done_local
  BY <1>1 DEF Launch
<1>5. /\ queue \in Seq(Txn) /\ queue # << >> /\ Distinct(queue)
      /\ InQueue(queue) = InQueue(launch_queue) \cup {t}
  BY <1>3, <1>4, AppendQueue DEF Parts
<1>6. InQueue(queue) \subseteq open \ done_local
  BY <1>3, <1>4, <1>5 DEF Parts, QueueOK
<1>7. CallerOK' /\ AbortOK' /\ now' \in Nat /\ launch_event' \in BOOLEAN
  BY <1>2, <1>3 DEF Parts, CallerOK, AbortOK, QueueOK, caller
<1>8. CASE launch_outstanding
  <2>1. /\ launch_queue' = queue /\ outstanding' = open
        /\ UNCHANGED <<launch_outstanding, complete_queue, done_local, done, done_time>>
    BY <1>1, <1>8 DEF Launch
  <2>2. QueueOK'
    BY <1>2, <1>3, <1>5, <1>6, <1>8, <2>1 DEF Parts, QueueOK
  <2>3. Placed' /\ BookTypes' /\ OnTime' /\ Finishing
    BY <1>2, <1>3, <1>4, <2>1 DEF Parts, Placed, BookTypes, OnTime, Finishing
  <2>4. unheard' = unheard
    <3>1. replies = << >>
      BY <1>1, <1>8 DEF Launch
    <3> QED BY <1>1, <3>1 DEF Unheard
  <2>5. UnheardOK'
    <3>1. InQueue(launch_queue') = InQueue(launch_queue) \cup {t}
      BY <1>5, <2>1
    <3> QED BY <1>3, <1>4, <2>1, <2>4, <3>1 DEF Parts, UnheardOK, InQueue
  <2> QED BY <1>7, <2>2, <2>3, <2>5, StrongParts DEF Parts
<1>9. CASE ~launch_outstanding
  <2>1. Calls(queue, replies) /\ LaunchUpdate(queue, open, replies)
    BY <1>1, <1>9 DEF Launch
  <2>2. replies \in Seq(Reply)
    BY RepliesType DEF Strong, IInv
  <2>3. /\ open \in SUBSET Txn /\ outstanding \subseteq open /\ open \cap done = {}
        /\ unheard \subseteq (open \ done_local) \ InQueue(queue)
    BY <1>3, <1>4, <1>5 DEF Parts, Placed, BookTypes, UnheardOK
  <2> HIDE DEF queue, open
  <2>4. /\ Placed' /\ BookTypes' /\ OnTime' /\ Finishing
        /\ launch_queue' \in Seq(Txn) /\ launch_outstanding' \in BOOLEAN
        /\ Distinct(launch_queue')
        /\ InQueue(launch_queue') \subseteq outstanding' \ done_local'
        /\ launch_outstanding' <=> launch_queue' # << >>
        /\ unheard \cup Unheard(queue, replies)
              \subseteq (outstanding' \ done_local') \ InQueue(launch_queue')
    BY <1>2, <1>5, <1>6, <2>1, <2>2, <2>3, LaunchUpdateInv
  <2>5. QueueOK'
    BY <1>7, <2>4 DEF QueueOK, InQueue, Distinct
  <2>6. UnheardOK'
    BY <1>1, <2>4 DEF UnheardOK, InQueue, queue
  <2> QED BY <1>7, <2>4, <2>5, <2>6, StrongParts DEF Parts
<1> QED BY <1>8, <1>9

LEMMA ResendInv ==
  ASSUME Strong, Resend
  PROVE  Strong' /\ Finishing
<1>1. PICK replies \in Replies :
         /\ LaunchMethod(replies)
         /\ unheard' = unheard \cup Unheard(launch_queue, replies)
  BY DEF Resend
<1>2. now' = now /\ UNCHANGED caller /\ aborted' = aborted /\ launch_event' = FALSE
  BY <1>1 DEF Resend, LaunchMethod
<1>3. Parts
  BY StrongParts
<1>4. CallerOK' /\ AbortOK' /\ now' \in Nat
  BY <1>2, <1>3 DEF Parts, CallerOK, AbortOK, caller
<1>5. CASE launch_outstanding \/ launch_queue = << >>
  <2>1. UNCHANGED <<launch_queue, launch_outstanding, outstanding, complete_queue,
                    done_local, done, done_time>>
    BY <1>1, <1>5 DEF LaunchMethod
  <2>2. QueueOK'
    BY <1>2, <1>3, <1>5, <2>1 DEF Parts, QueueOK, InQueue, Distinct
  <2>3. Placed' /\ BookTypes' /\ OnTime' /\ Finishing
    BY <1>2, <1>3, <2>1 DEF Parts, Placed, BookTypes, OnTime, Finishing
  <2>4. unheard' = unheard
    <3>1. replies = << >>
      BY <1>1, <1>5 DEF LaunchMethod
    <3> QED BY <1>1, <3>1 DEF Unheard
  <2>5. UnheardOK'
    BY <1>3, <2>1, <2>4 DEF Parts, UnheardOK, InQueue
  <2> QED BY <1>4, <2>2, <2>3, <2>5, StrongParts DEF Parts
<1>6. CASE ~(launch_outstanding \/ launch_queue = << >>)
  <2>1. Calls(launch_queue, replies) /\ LaunchUpdate(launch_queue, outstanding, replies)
    BY <1>1, <1>6 DEF LaunchMethod
  <2>2. replies \in Seq(Reply)
    BY RepliesType DEF Strong, IInv
  <2>3. /\ launch_queue \in Seq(Txn) /\ Distinct(launch_queue)
        /\ outstanding \in SUBSET Txn /\ outstanding \cap done = {}
        /\ InQueue(launch_queue) \subseteq outstanding \ done_local
        /\ unheard \subseteq (outstanding \ done_local) \ InQueue(launch_queue)
    BY <1>3 DEF Parts, QueueOK, UnheardOK, Placed, BookTypes
  <2>4. /\ Placed' /\ BookTypes' /\ OnTime' /\ Finishing
        /\ launch_queue' \in Seq(Txn) /\ launch_outstanding' \in BOOLEAN
        /\ Distinct(launch_queue')
        /\ InQueue(launch_queue') \subseteq outstanding' \ done_local'
        /\ launch_outstanding' <=> launch_queue' # << >>
        /\ unheard \cup Unheard(launch_queue, replies)
              \subseteq (outstanding' \ done_local') \ InQueue(launch_queue')
    BY <1>2, <2>1, <2>2, <2>3, LaunchUpdateInv
  <2>5. QueueOK'
    BY <1>2, <2>4 DEF QueueOK, InQueue, Distinct
  <2>6. UnheardOK'
    BY <1>1, <2>4 DEF UnheardOK, InQueue
  <2> QED BY <1>4, <2>4, <2>5, <2>6, StrongParts DEF Parts
<1> QED BY <1>5, <1>6

LEMMA EndRequestInv ==
  ASSUME Strong, EndRequest
  PROVE  Strong' /\ Finishing
<1>1. /\ launch_outstanding /\ launch_queue' = Tail(launch_queue)
      /\ launch_outstanding' = FALSE /\ launch_event' = TRUE
      /\ aborted' = aborted
      /\ UNCHANGED <<outstanding, complete_queue, done_local, done, done_time>>
      /\ now' = now /\ unheard' = unheard /\ UNCHANGED caller
  <2>1. aborted \in BOOLEAN
    BY DEF Strong, IInv, TypeOK
  <2> QED BY <2>1 DEF EndRequest, TransportBw
<1>2. Parts
  BY StrongParts
<1>3. launch_queue # << >>
  BY <1>1, <1>2 DEF Parts, QueueOK
<1>4. QueueOK'
  <2>1. /\ Tail(launch_queue) \in Seq(Txn) /\ Distinct(Tail(launch_queue))
        /\ InQueue(Tail(launch_queue)) \subseteq InQueue(launch_queue)
    BY <1>2, <1>3, TailQueue DEF Parts
  <2> QED BY <1>1, <1>2, <2>1 DEF Parts, QueueOK, InQueue, Distinct
<1>5. UnheardOK'
  <2>1. InQueue(Tail(launch_queue)) \subseteq InQueue(launch_queue)
    BY <1>2, <1>3, TailQueue DEF Parts
  <2> QED BY <1>1, <1>2, <2>1 DEF Parts, UnheardOK, InQueue
<1>6. Placed' /\ BookTypes' /\ OnTime' /\ Finishing
  BY <1>1, <1>2 DEF Parts, Placed, BookTypes, OnTime, Finishing
<1>7. CallerOK' /\ AbortOK' /\ now' \in Nat
  BY <1>1, <1>2 DEF Parts, CallerOK, AbortOK, caller
<1> QED BY <1>4, <1>5, <1>6, <1>7, StrongParts DEF Parts

(* An answer while another request waits for END_REQ ends that request;    *)
(* the assertion holds if targets are polite.                              *)
LEMMA AnswerInv ==
  ASSUME Strong, NEW t \in Txn, Answer(t)
  PROVE  Strong' /\ Finishing
<1>1. PICK d \in Delays : TransportBw(t, "BEGIN_RESP", d)
  BY DEF Answer
<1>2. /\ now' = now /\ unheard' = unheard /\ UNCHANGED caller
      /\ \/ t \in AtTarget /\ (Polite => ~launch_outstanding)
         \/ launch_outstanding /\ t = Head(launch_queue)
  BY DEF Answer
<1>3. Parts
  BY StrongParts
<1>4. /\ aborted' = (aborted \/ (launch_outstanding /\ Head(launch_queue) # t))
      /\ launch_queue' = IF launch_outstanding THEN Tail(launch_queue) ELSE launch_queue
      /\ launch_outstanding' = FALSE
      /\ launch_event' = (launch_event \/ launch_outstanding)
      /\ CompleteLocal({t}, [x \in {t} |-> d], outstanding)
  <2>1. launch_outstanding \in BOOLEAN
    BY <1>3 DEF Parts, QueueOK
  <2> QED BY <1>1, <2>1 DEF TransportBw
<1>5. InQueue(launch_queue) = Queued /\ Queued \subseteq outstanding \ done_local
  BY DEF InQueue, Queued, Strong, IInv, TxnsPlaced
<1>6. t \in outstanding \ done_local /\ t \notin unheard
  <2>1. CASE t \in AtTarget
    BY <2>1 DEF AtTarget
  <2>2. CASE launch_outstanding /\ t = Head(launch_queue)
    BY <1>3, <1>5, <2>2, TailQueue DEF Parts, QueueOK, UnheardOK
  <2> QED BY <1>2, <2>1, <2>2
<1>7. /\ Placed' /\ BookTypes' /\ OnTime' /\ Finishing
      /\ outstanding' \ done_local' = (outstanding \ done_local) \ {t}
  <2> DEFINE delay == [x \in {t} |-> d]
  <2>1. \A x \in {t} : delay[x] \in Nat
    BY TlmInitiatorAnyAssumption
  <2>2. outstanding \in SUBSET Txn /\ outstanding \cap done = {}
    BY <1>3 DEF Parts, Placed, BookTypes
  <2>3. CompleteLocal({t}, delay, outstanding)
    BY <1>4
  <2> HIDE DEF delay
  <2> QED BY <1>2, <1>6, <2>1, <2>2, <2>3, CompleteLocalInv
<1>8. QueueOK'
  <2>1. launch_event' \in BOOLEAN
    BY <1>3, <1>4 DEF Parts, QueueOK
  <2>2. CASE launch_outstanding
    <3>1. launch_queue # << >>
      BY <1>3, <2>2 DEF Parts, QueueOK
    <3>2. /\ Tail(launch_queue) \in Seq(Txn) /\ Distinct(Tail(launch_queue))
          /\ InQueue(Tail(launch_queue)) = InQueue(launch_queue) \ {Head(launch_queue)}
      BY <1>3, <3>1, TailQueue DEF Parts
    <3>3. t \notin InQueue(Tail(launch_queue))
      BY <1>2, <1>5, <3>2 DEF AtTarget
    <3>4. InQueue(Tail(launch_queue)) \subseteq outstanding' \ done_local'
      BY <1>5, <1>7, <3>2, <3>3
    <3>5. launch_queue' = Tail(launch_queue) /\ launch_event' = TRUE
      BY <1>4, <2>2
    <3> QED BY <1>4, <3>2, <3>4, <3>5 DEF QueueOK, InQueue, Distinct
  <2>3. CASE ~launch_outstanding
    <3>1. launch_queue' = launch_queue /\ t \notin InQueue(launch_queue)
      BY <1>2, <1>4, <1>5, <2>3 DEF AtTarget
    <3>2. InQueue(launch_queue) \subseteq outstanding' \ done_local'
      BY <1>5, <1>7, <3>1
    <3>3. launch_queue # << >> => launch_event'
      BY <1>3, <1>4, <2>3 DEF Parts, QueueOK
    <3> QED BY <1>3, <1>4, <2>1, <3>1, <3>2, <3>3 DEF Parts, QueueOK, InQueue, Distinct
  <2> QED BY <2>2, <2>3
<1>9. AbortOK'
  <2>1. aborted' \in BOOLEAN
    BY <1>4, Zenon
  <2>2. Polite => ~(launch_outstanding /\ Head(launch_queue) # t)
    BY <1>2
  <2> QED BY <1>3, <1>4, <2>1, <2>2 DEF Parts, AbortOK
<1>10. CallerOK' /\ now' \in Nat
  BY <1>2, <1>3 DEF Parts, CallerOK, caller
<1>11. UnheardOK'
  <2>1. InQueue(launch_queue') \subseteq InQueue(launch_queue)
    <3>1. CASE launch_outstanding
      <4>1. launch_queue # << >> /\ launch_queue' = Tail(launch_queue)
        BY <1>3, <1>4, <3>1 DEF Parts, QueueOK
      <4>2. InQueue(Tail(launch_queue)) \subseteq InQueue(launch_queue)
        BY <1>3, <4>1, TailQueue DEF Parts
      <4> QED BY <4>1, <4>2 DEF InQueue
    <3>2. CASE ~launch_outstanding
      BY <1>4, <3>2 DEF InQueue
    <3> QED BY <3>1, <3>2
  <2> QED BY <1>2, <1>3, <1>6, <1>7, <2>1 DEF Parts, UnheardOK, InQueue
<1> QED BY <1>7, <1>8, <1>9, <1>10, <1>11, StrongParts DEF Parts

LEMMA CompleteInv ==
  ASSUME Strong, Complete
  PROVE  Strong' /\ Finishing
<1>1. /\ CompleteMethod /\ now' = now /\ unheard' = unheard /\ UNCHANGED caller
      /\ UNCHANGED <<launch_queue, launch_outstanding, launch_event, aborted>>
  BY DEF Complete, CompleteMethod
<1>2. Parts
  BY StrongParts
<1>3. /\ Placed' /\ BookTypes' /\ OnTime' /\ Finishing
      /\ outstanding' \ done_local' = outstanding \ done_local
  BY <1>1, CompleteMethodInv
<1>4. QueueOK' /\ UnheardOK'
  BY <1>1, <1>2, <1>3 DEF Parts, QueueOK, UnheardOK, InQueue, Distinct
<1>5. CallerOK' /\ AbortOK' /\ now' \in Nat
  BY <1>1, <1>2 DEF Parts, CallerOK, AbortOK, caller
<1> QED BY <1>3, <1>4, <1>5, StrongParts DEF Parts

--------------------------------------------------------------------------------
(* The caller's steps and time leave the books alone; time passes only     *)
(* when nothing is due.                                                    *)
LEMMA CallerInv ==
  ASSUME Strong, UNCHANGED <<now, state, unheard>>, CallerOK'
  PROVE  Strong' /\ Finishing
<1>1. Parts
  BY StrongParts
<1>2. now' = now /\ QueueOK' /\ UnheardOK' /\ AbortOK'
  BY <1>1 DEF Parts, QueueOK, UnheardOK, AbortOK, InQueue, Distinct, state
<1>3. Placed' /\ BookTypes' /\ OnTime' /\ Finishing
  BY <1>1 DEF Parts, Placed, BookTypes, OnTime, Finishing, state
<1> QED BY <1>1, <1>2, <1>3, StrongParts DEF Parts

LEMMA CallerSteps ==
  ASSUME Strong,
         \/ StartWait \/ (\E t \in Txn : StartWaitOne(t) \/ PickNext(t))
         \/ WaitDone \/ WaitDoneLocal \/ Return
  PROVE  UNCHANGED <<now, state, unheard>> /\ CallerOK'
<1>1. CallerOK /\ now \in Nat /\ done_time \in [Txn -> Nat] /\ done_local \subseteq Txn
  BY DEF Strong, IInv, TypeOK, CallerOK
<1>2. CASE StartWait
  BY <1>1, <1>2 DEF StartWait, Later, CallerOK
<1>3. CASE \E t \in Txn : StartWaitOne(t) \/ PickNext(t)
  BY <1>1, <1>3 DEF StartWaitOne, PickNext, Later, CallerOK
<1>4. CASE WaitDone
  BY <1>1, <1>4 DEF WaitDone, CallerOK
<1>5. CASE WaitDoneLocal
  <2>1. done_time[cur] \in Nat
    BY <1>1, <1>5 DEF WaitDoneLocal
  <2>2. Later(Later(local, now), done_time[cur]) \in Nat
    BY <1>1, <2>1 DEF Later, CallerOK
  <2> QED BY <1>1, <1>5, <2>2 DEF WaitDoneLocal, CallerOK
<1>6. CASE Return
  BY <1>1, <1>6 DEF Return, CallerOK
<1> QED BY <1>2, <1>3, <1>4, <1>5, <1>6

LEMMA TickInv ==
  ASSUME Strong, Tick
  PROVE  Strong' /\ Finishing
<1>1. Due = {} /\ now' = now + 1 /\ UNCHANGED <<state, unheard, caller>>
  BY DEF Tick, Idle
<1>2. Parts
  BY StrongParts
<1>3. /\ complete_queue' = complete_queue /\ done' = done /\ done_local' = done_local
      /\ outstanding' = outstanding /\ done_time' = done_time
  BY <1>1 DEF state
<1>4. OnTime'
  <2>1. \A t \in complete_queue : t \in Txn /\ done_time[t] \in Nat /\ ~(done_time[t] <= now)
    BY <1>1, <1>2 DEF Due, Parts, BookTypes
  <2> QED BY <1>1, <1>2, <1>3, <2>1 DEF Parts, OnTime
<1>5. Placed' /\ BookTypes' /\ Finishing
  <2>1. \A t \in done : done_time[t] \in Nat /\ done_time[t] <= now
    BY <1>2 DEF Parts, Placed, BookTypes
  <2>2. \A t \in done : done_time[t] <= now + 1
    BY <1>2, <2>1 DEF Parts
  <2> QED BY <1>1, <1>2, <1>3, <2>2 DEF Parts, Placed, BookTypes, Finishing
<1>6. QueueOK' /\ UnheardOK' /\ CallerOK' /\ AbortOK' /\ now' \in Nat
  BY <1>1, <1>2 DEF Parts, QueueOK, UnheardOK, CallerOK, AbortOK, InQueue, Distinct, state, caller
<1> QED BY <1>4, <1>5, <1>6, StrongParts DEF Parts

LEMMA StutterInv ==
  ASSUME Strong, UNCHANGED vars
  PROVE  Strong' /\ Finishing
<1>1. UNCHANGED <<now, state, unheard>> /\ CallerOK'
  BY DEF vars, caller, Strong, IInv, TypeOK, CallerOK
<1> QED BY <1>1, CallerInv

LEMMA StepInv ==
  ASSUME Strong, [Next]_vars
  PROVE  Strong' /\ Finishing
<1>1. CASE Issue
  BY <1>1, IssueInv
<1>2. CASE Initiating
  BY <1>2, ResendInv, CompleteInv DEF Initiating
<1>3. CASE Ending
  BY <1>3, EndRequestInv DEF Ending
<1>4. ASSUME NEW t \in Txn, Answering(t)
      PROVE  Strong' /\ Finishing
  BY <1>4, AnswerInv DEF Answering
<1>5. CASE \/ StartWait \/ (\E t \in Txn : StartWaitOne(t) \/ PickNext(t))
           \/ WaitDone \/ WaitDoneLocal \/ Return
  BY <1>5, CallerSteps, CallerInv
<1>6. CASE Tick
  BY <1>6, TickInv
<1>7. CASE UNCHANGED vars
  BY <1>7, StutterInv
<1> QED BY <1>1, <1>2, <1>3, <1>4, <1>5, <1>6, <1>7 DEF Next

--------------------------------------------------------------------------------
LEMMA StrongInvariance == Spec => []Strong
<1>1. Init => Strong
  BY InitStrong
<1>2. Strong /\ [Next]_vars => Strong'
  BY StepInv
<1> QED BY <1>1, <1>2, PTL DEF Spec

(* No request is forgotten and no transaction is lost between the queues,  *)
(* one that is answered in the call with BEGIN_RESP is never finished, and *)
(* polite targets never make an assertion of nb_transport_bw fail.         *)
THEOREM Invariance == Spec => []IInv
<1>1. Strong => IInv
  BY DEF Strong
<1> QED BY <1>1, StrongInvariance, PTL

(* Every transaction is finished once, in the step and at the time its     *)
(* annotated delay is over.                                                *)
THEOREM OnTimeCompletion == Spec => FinishedOnTime
<1>1. Strong /\ [Next]_vars => [Finishing]_vars
  BY StepInv
<1>2. [][Finishing]_vars => FinishedOnTime
  BY PTL DEF FinishedOnTime, Finishing
<1> QED BY <1>1, <1>2, StrongInvariance, PTL DEF Spec
================================================================================
