------------------------------- MODULE MCMemtest -------------------------------
(***************************************************************************)
(* The test bench of the TLM library (tlm/tb/dlsc_tlm_tb.sp): a memory     *)
(* test with an initiator of three sockets, the first connected through    *)
(* the channel and the fabric, the second to the fabric and the third to   *)
(* the memory.  The fabric sends reads of the low addresses to the memory  *)
(* and the rest through the channel; the channel keeps or annotates its    *)
(* delays.  (The bench binds the fourth socket as the third.)              *)
(***************************************************************************)
EXTENDS TlmMemtest

CONSTANTS
    Low,            (* words whose reads the fabric sends to the memory *)
    fw_delays, bw_delays, access_latency, byte_latency, error_rate

VARIABLES
    launch_queue, launch_outstanding, launch_event, outstanding, complete_queue, done, aborted,
    rm_ann, fw_queue, bw_queue, fw_next, bw_next,
    sources,
    mem, next_time

Initiator == INSTANCE TlmInitiator

(* The first map is set by the bench, the second is what a map is when not *)
(* set: it matches anything.                                               *)
maps ==
    <<[in |-> Low, read_okay |-> TRUE, write_okay |-> FALSE],
      [in |-> Loc, read_okay |-> TRUE, write_okay |-> TRUE]>>

Path == INSTANCE TlmPath WITH Block <- size

ASSUME MCMemtestAssumption ==
    /\ TlmMemtestAssumption /\ Path!TlmPathAssumption
    /\ Low \subseteq Loc

initiator == <<launch_queue, launch_outstanding, launch_event, outstanding, complete_queue,
               done_local, done, done_time, aborted>>
path == <<fw_queue, bw_queue, fw_next, bw_next, sources>>
memory == <<mem, next_time>>
setup == <<sockets, rm_ann>>
vars == <<now, setup, memtest, initiator, path, memory>>

Init ==
    /\ now = 0
    /\ MemtestInit /\ Initiator!StateInit
    /\ Path!ChannelInit /\ Path!FabricInit /\ Path!MemInit
--------------------------------------------------------------------------------
(* The memory enters its answer in the payload. *)
Answered(p, outcome) ==
    [p EXCEPT !.status = outcome,
              !.result = IF p.read /\ outcome = "OK" THEN Path!Fetch(p) ELSE @]

Reply(sync, phase, delay) == [sync |-> sync, phase |-> phase, delay |-> delay]

(* How often a request of a socket goes through the channel. *)
Crossings(s, p) ==
    (IF s = 0 THEN 1 ELSE 0) + (IF s \in {0, 1} /\ Path!Route(p) = 2 THEN 1 ELSE 0)

(* The request is answered during the call. *)
CallThrough(s, p) ==
    LET n == Crossings(s, p)
        delay == local - now
    IN  /\ n = 0 \/ ~rm_ann
        /\ \E outcome \in Path!Outcomes(p), fws \in [1..n -> fw_delays], bws \in [1..n -> bw_delays] :
             LET there == delay + Path!Passes(fw_next, fws).delay
                 served == Path!CompletionDelay(p, there)
                 back == served + Path!Passes(bw_next, bws).delay
             IN  /\ Path!BTransport(p, outcome)
                 /\ payload' = Append(payload, Answered(p, outcome))
                 /\ Path!FwThrough(fws, bws)
                 /\ Initiator!Launch(New, <<Reply("completed", "BEGIN_RESP", back)>>)
        /\ UNCHANGED sources

(* The request is kept in the channel. *)
CallAccepted(s, p) ==
    /\ rm_ann /\ Crossings(s, p) > 0
    /\ \E drawn \in fw_delays : Path!FwAccept(fw_queue, New, s, local - now, drawn)
    /\ payload' = Append(payload, p)
    /\ IF s = 1 THEN Path!Remember(New, s, FALSE) ELSE UNCHANGED sources
    /\ Initiator!Launch(New, <<Reply("updated", "END_REQ", local - now)>>)
    /\ UNCHANGED <<bw_queue, bw_next, memory>>

Call(s, p) == CallThrough(s, p) \/ CallAccepted(s, p)

Initialise == InitLaunch /\ Call(0, Initialising) /\ UNCHANGED <<now, setup>>
Test == (\E p \in Requests : Launch(p) /\ Call(NextSocket, p)) /\ UNCHANGED <<now, setup>>
Loop == Looping /\ UNCHANGED <<now, initiator, setup, path, memory>>
Wait == Waiting /\ UNCHANGED <<now, initiator, setup, path, memory>>
--------------------------------------------------------------------------------
(* fw_queue_method: output 0 of the channel is the fabric, output 1 the    *)
(* memory.                                                                 *)
Deliver ==
    /\ ~Running /\ Path!FwDue
    /\ LET t == Path!FwFirst.trans
           id == Path!FwFirst.socket
           p == payload[t]
       IN  \/ /\ id = 1 \/ Path!Route(p) = 1
              /\ \E outcome \in Path!Outcomes(p), drawn \in bw_delays :
                   /\ Path!FwAnswered(t, id, Path!CompletionDelay(p, 0), drawn)
                   /\ Path!BTransport(p, outcome)
                   /\ payload' = [payload EXCEPT ![t] = Answered(p, outcome)]
              /\ IF id = 0 THEN Path!Remember(t, id, TRUE) ELSE UNCHANGED sources
           \/ /\ id = 0 /\ Path!Route(p) = 2
              /\ \E drawn \in fw_delays : Path!FwForwarded(t, 1, drawn)
              /\ Path!Remember(t, id, FALSE)
              /\ UNCHANGED <<payload, memory>>
    /\ UNCHANGED <<now, control, mots, books, initiator, setup>>

(* bw_queue_method: input 0 of the channel is the first socket of the      *)
(* initiator, input 1 the fabric, which finds its way back.                *)
Respond ==
    /\ ~Running /\ Path!BwDue
    /\ LET t == Path!BwFirst.trans
           id == Path!BwFirst.socket
           home == IF id = 0 THEN TRUE ELSE Path!Source(t) = 1
       IN  \/ /\ home
              /\ Path!BwDelivered
              /\ Initiator!TransportBw(t, "BEGIN_RESP", 0)
           \/ /\ ~home
              /\ \E drawn \in bw_delays : Path!BwForwarded(t, 0, drawn)
              /\ UNCHANGED initiator
    /\ IF Path!BwFirst.socket = 1 THEN Path!Forget(Path!BwFirst.trans)
       ELSE UNCHANGED sources
    /\ UNCHANGED <<now, memtest, setup, memory>>

Finish ==
    /\ ~Running /\ Initiator!CompleteMethod
    /\ UNCHANGED <<now, memtest, setup, path, memory>>

(* Time passes when nothing can run. *)
Tick ==
    /\ ~Running /\ ~Woken /\ pc \notin {"idle", "done"}
    /\ Initiator!Idle /\ ~Path!FwDue /\ ~Path!BwDue
    /\ now' = now + 1
    /\ UNCHANGED <<memtest, initiator, setup, path, memory>>

Next == Initialise \/ Test \/ Loop \/ Wait \/ Deliver \/ Respond \/ Finish \/ Tick

(* The kernel runs what can run. *)
Spec == Init /\ [][Next]_vars /\ WF_vars(Next)
--------------------------------------------------------------------------------
Open == UNION {{mots[x][i] : i \in DOMAIN mots[x]} : x \in Socket}
OpenAt(l, read) == {t \in Open : payload[t].read = read /\ l \in Words(payload[t])}

TypeOK ==
    /\ now \in Nat /\ local \in Nat
    /\ waited \in Txn \cup {NoTxn}
    /\ mots \in [Socket -> Seq(Txn)]
    /\ init_done \subseteq Loc
    /\ miscompare \in BOOLEAN /\ aborted \in BOOLEAN

(* The books of pending reads and writes are those of the requests that    *)
(* are open, and no location has a pending write beside anything else.     *)
BooksRight ==
    \A l \in Loc :
        /\ read_pending[l] = Cardinality(OpenAt(l, TRUE))
        /\ write_pending[l] = Cardinality(OpenAt(l, FALSE))
        /\ write_pending[l] = 0 \/ (write_pending[l] = 1 /\ read_pending[l] = 0)

(* A request the initiator waits for is in one queue of the channel, once; *)
(* what it went through on its way there knows the way back.               *)
Entries(t) ==
    Cardinality({i \in DOMAIN fw_queue : fw_queue[i].trans = t})
    + Cardinality({i \in DOMAIN bw_queue : bw_queue[i].trans = t})
OfSocket(t, s) == \E i \in DOMAIN mots[s] : mots[s][i] = t
InFlightOnce ==
    /\ \A t \in Txn : Entries(t) = (IF t \in outstanding \ done_local THEN 1 ELSE 0)
    /\ \A i \in DOMAIN bw_queue :
          LET t == bw_queue[i].trans
          IN  IF bw_queue[i].socket = 0 THEN OfSocket(t, 0)
              ELSE \E s \in Socket : <<t, s>> \in sources /\ OfSocket(t, s)
    /\ \A s \in sources : s[1] \in outstanding \ done_local

(* The test keeps to its limits, and the assertions of the initiator hold. *)
IInv ==
    /\ TypeOK /\ BooksRight /\ InFlightOnce
    /\ \A s \in Socket : Len(mots[s]) <= max_mots
    /\ ~aborted

(* The test finds no wrong word: the books it keeps are right for every    *)
(* order in which requests of several sockets reach the memory and answers *)
(* come back, and for requests that fail.                                  *)
NoMiscompare == ~miscompare

(* The test on this bench is the abstract test of a memory.                *)
Status(t) ==
    IF t \notin Open THEN "none"
    ELSE CASE payload[t].status = "OK" -> "ok"
           [] payload[t].status = "INCOMPLETE" -> "none"
           [] OTHER -> "failed"
Abstract(t) ==
    IF t \notin Open THEN [read |-> TRUE, words |-> {}, strb |-> {}, data |-> Garbage]
    ELSE LET p == payload[t]
         IN  [read |-> p.read, words |-> Words(p), strb |-> p.strb, data |-> p.data]
Returned(t) ==
    [l \in Loc |-> IF Status(t) = "ok" /\ payload[t].read /\ l \in Words(payload[t])
                   THEN payload[t].result[l] ELSE Garbage]

Word == Txn \cup {Garbage, 0}
Asked == [t \in Txn |-> Abstract(t)]
Answers == [t \in Txn |-> Status(t)]
Got == [t \in Txn |-> Returned(t)]

Test_ == INSTANCE RegionTest WITH
    Value <- Word, Blank <- Garbage,
    open <- Open, req <- Asked, answer <- Answers, got <- Got,
    store <- mem, shadow <- mem_array, initd <- init_done

ImplementsRegionTest == Test_!Spec

(* The test ends: no request is lost on the way and the thread never waits *)
(* for one that cannot finish.                                             *)
TestEnds == <>(pc = "done")
================================================================================
