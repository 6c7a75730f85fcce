-------------------------------- MODULE TlmPath --------------------------------
(***************************************************************************)
(* The way between an initiator and its targets, and the memory at its     *)
(* end: dlsc_tlm_channel, dlsc_tlm_fabric and dlsc_tlm_memory (tlm/sim).   *)
(*                                                                         *)
(* The channel adds a random delay to requests and to responses.  With     *)
(* rm_ann it keeps them until the delay is over and never passes a delay   *)
(* on; without, it forwards every call at once and adds the delay to the   *)
(* annotation.  One channel has several pairs of sockets, which share its  *)
(* queues and its delays.  A queue holds its entries in the order they     *)
(* came in and gives them out in the order of their times, like            *)
(* peq_with_get.  The loops of the two queue methods are taken one entry   *)
(* at a time.  No target of the tests holds up a request and their         *)
(* initiator completes every response when it gets it, so that             *)
(* fw_outstanding and bw_outstanding stay false.                           *)
(*                                                                         *)
(* The fabric sends a request to the first output whose map has its        *)
(* address and allows its command, and remembers the input of every        *)
(* request that is not answered during the call.  The maps of the test     *)
(* bench leave every address as it is, so that none is translated.         *)
(*                                                                         *)
(* The memory serves a request during the call and answers with the delay  *)
(* after which the answer counts.  The requests share its bandwidth:       *)
(* next_time is when it has transferred all it was asked for, whatever the *)
(* local times of the initiators are.                                      *)
(*                                                                         *)
(* A request is a record: read, index and length of its region in words,   *)
(* data and strb, the value and the words a write stores (each write has a *)
(* value of its own, and a word is written wholly or not at all).          *)
(***************************************************************************)
EXTENDS Integers, Sequences, SequencesExt

CONSTANTS
    fw_delays, bw_delays,   (* what rand_delay may draw from, for requests  *)
                            (* and for responses                            *)
    maps,           (* for each output, what set_map gave it: the addresses *)
                    (* in, read_okay and write_okay                         *)
    Loc,                    (* words of the memory, from 0 *)
    Block,                  (* words of a block of storage *)
    access_latency,         (* time for a request, *)
    byte_latency,           (* and for each word of it *)
    error_rate              (* requests may be made to fail *)

TlmPathAssumption ==
    /\ fw_delays \subseteq Nat /\ fw_delays # {}
    /\ bw_delays \subseteq Nat /\ bw_delays # {}
    /\ Loc \subseteq Nat /\ Block \in Nat \ {0}
    /\ access_latency \in Nat /\ byte_latency \in Nat
    /\ error_rate \in BOOLEAN

VARIABLES
    now,
    rm_ann,
    fw_queue, bw_queue,
    fw_next, bw_next,           (* fw_next_delay, bw_next_delay *)
    sources,        (* outstanding: pairs of a transaction and its input *)
    mem,            (* value of each word *)
    next_time

channel == <<rm_ann, fw_queue, bw_queue, fw_next, bw_next>>

ChannelInit ==
    /\ rm_ann \in BOOLEAN
    /\ fw_queue = <<>> /\ bw_queue = <<>>
    /\ fw_next = 0 /\ bw_next = 0
--------------------------------------------------------------------------------
(* A delay times 1.01: a little more, unless it is none. *)
Stretched(delay) == IF delay = 0 THEN 0 ELSE delay + 1

(* rand_delay, with drawn the delay between min and max: not before the    *)
(* time drawn last.                                                        *)
RandDelay(next, drawn) ==
    IF next >= drawn + now THEN Stretched(next - now) ELSE drawn

(* The sum of the delays of the passes of a request, and the time kept     *)
(* afterwards.  It goes through the channel twice at most.                 *)
Pass(sum, drawn) ==
    LET d == RandDelay(sum.next, drawn) IN [delay |-> sum.delay + d, next |-> now + d]

Passes(next, drawn) ==
    LET none == [delay |-> 0, next |-> next]
    IN  CASE Len(drawn) = 0 -> none
          [] Len(drawn) = 1 -> Pass(none, drawn[1])
          [] OTHER -> Pass(Pass(none, drawn[1]), drawn[2])

Entry(t, id, delay) == [trans |-> t, socket |-> id, at |-> now + delay]

(* The entry get_next_transaction gives out: the first of those due. *)
DueIn(queue) == {i \in DOMAIN queue : queue[i].at <= now}
First(queue) ==
    CHOOSE i \in DueIn(queue) : \A j \in DueIn(queue) :
        queue[i].at < queue[j].at \/ (queue[i].at = queue[j].at /\ i <= j)

FwDue == DueIn(fw_queue) # {}
BwDue == DueIn(bw_queue) # {}
FwFirst == fw_queue[First(fw_queue)]
BwFirst == bw_queue[First(bw_queue)]
--------------------------------------------------------------------------------
(* nb_transport_fw with BEGIN_REQ and rm_ann, into queue: END_REQ is       *)
(* returned at once.                                                       *)
FwAccept(queue, t, id, delay, drawn) ==
    LET pass == Passes(fw_next, <<drawn>>)
    IN  /\ fw_queue' = Append(queue, Entry(t, id, delay + pass.delay))
        /\ fw_next' = pass.next

(* nb_transport_fw and its return without rm_ann: as many times forward    *)
(* and back as the request goes through the channel.                       *)
FwThrough(fws, bws) ==
    /\ fw_next' = Passes(fw_next, fws).next
    /\ bw_next' = Passes(bw_next, bws).next
    /\ UNCHANGED <<fw_queue, bw_queue>>

(* A response for queue: nb_transport_bw with BEGIN_RESP and rm_ann, or a  *)
(* target that answered a request of fw_queue_method at once.              *)
BwAccept(queue, t, id, delay, drawn) ==
    LET pass == Passes(bw_next, <<drawn>>)
    IN  /\ bw_queue' = Append(queue, Entry(t, id, delay + pass.delay))
        /\ bw_next' = pass.next

(* fw_queue_method: what remains when the first entry is taken, and what   *)
(* becomes of the request.                                                 *)
FwRest == RemoveAt(fw_queue, First(fw_queue))
FwAnswered(t, id, delay, drawn) ==
    /\ FwDue
    /\ fw_queue' = FwRest
    /\ BwAccept(bw_queue, t, id, delay, drawn)
    /\ UNCHANGED <<fw_next>>
FwForwarded(t, id, drawn) ==
    /\ FwDue
    /\ FwAccept(FwRest, t, id, 0, drawn)
    /\ UNCHANGED <<bw_queue, bw_next>>

(* bw_queue_method *)
BwRest == RemoveAt(bw_queue, First(bw_queue))
BwDelivered ==
    /\ BwDue
    /\ bw_queue' = BwRest
    /\ UNCHANGED <<fw_queue, fw_next, bw_next>>
BwForwarded(t, id, drawn) ==
    /\ BwDue
    /\ BwAccept(BwRest, t, id, 0, drawn)
    /\ UNCHANGED <<fw_queue, fw_next>>
--------------------------------------------------------------------------------
(* The fabric. *)

FabricInit == sources = {}

Matches(p) ==
    {o \in DOMAIN maps :
        p.index \in maps[o].in /\ (IF p.read THEN maps[o].read_okay ELSE maps[o].write_okay)}

(* The output of a request, or 0: a decode error. *)
Route(p) ==
    IF Matches(p) = {} THEN 0
    ELSE CHOOSE o \in Matches(p) : \A q \in Matches(p) : o <= q

(* nb_transport_fw, after the call: answered or not. *)
Remember(t, id, answered) ==
    sources' = {s \in sources : s[1] # t} \cup (IF answered THEN {} ELSE {<<t, id>>})

(* Mutant of Source: the responses go back to the input that was first. *)
SourceFirst(t) == CHOOSE id \in {s[2] : s \in sources} : \A s \in sources : id <= s[2]

(* nb_transport_bw: the input a response goes back to. *)
Source(t) == (CHOOSE s \in sources : s[1] = t)[2]
Forget(t) == sources' = {s \in sources : s[1] # t}
--------------------------------------------------------------------------------
(* The memory. *)

(* A block not used before holds the addresses, which no write stores. *)
Pattern == 0

MemInit == mem = [l \in Loc |-> Pattern] /\ next_time = 0
Later(a, b) == IF a < b THEN b ELSE a

Region(p) == {l \in Loc : p.index <= l /\ l < p.index + p.length}

CrossesBlock(p) == p.index \div Block # (p.index + p.length - 1) \div Block

Transfer(p) == access_latency + p.length * byte_latency

(* The bandwidth of the past is lost. *)
NextTime(p) == Later(next_time, now) + Transfer(p)

(* The delay of the answer, for a request that comes with delay: no sooner *)
(* than the initiator's own time allows, nor than the memory can.          *)
CompletionDelay(p, delay) ==
    IF CrossesBlock(p) THEN delay
    ELSE Later(delay + Transfer(p), NextTime(p) - now)

(* What may happen to a request. *)
Outcomes(p) ==
    IF CrossesBlock(p) THEN {"ADDRESS_ERROR"}
    ELSE {"OK"} \cup (IF error_rate THEN {"GENERIC_ERROR"} ELSE {})

(* A write leaves alone the words whose strobes are off. *)
Store(p) == [l \in Loc |-> IF l \in p.strb THEN p.data ELSE mem[l]]

(* What a read returns. *)
Fetch(p) == [l \in Region(p) |-> mem[l]]

(* b_transport *)
BTransport(p, outcome) ==
    /\ outcome \in Outcomes(p)
    /\ next_time' = IF CrossesBlock(p) THEN next_time ELSE NextTime(p)
    /\ mem' = IF outcome = "OK" /\ ~p.read THEN Store(p) ELSE mem
================================================================================
