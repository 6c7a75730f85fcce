-------------------------------- MODULE TlmBench --------------------------------
(***************************************************************************)
(* What the bus adapters of tlm, axi, csr and wishbone have around them in *)
(* their test benches: a TLM initiator that gives transactions to a        *)
(* master, which is a dlsc_tlm_target_nb with a callback; a slave, which   *)
(* passes what arrives on the bus to a memory through dlsc_tlm_initiator_nb; *)
(* the clock and reset the two share.  The registers of the master, those  *)
(* of the slave and the signals between them are a record each; a signal   *)
(* gets its new value after all methods have run.                          *)
(*                                                                         *)
(* The word k of transaction t is the beat <<t, k>>.  It stands for the    *)
(* address of the word and, where data go, for the data that belong there. *)
(***************************************************************************)
EXTENDS Integers, Sequences, FiniteSets

CONSTANTS
    Txn,            (* transactions, each used once *)
    Id,             (* sockets of the initiator; on AXI, the IDs *)
    IdOf, LengthOf, AddrOf, IsRead,     (* of each transaction *)
    Failure,        (* statuses of a request that fails *)
    MaxResets,      (* bound: resets after the first *)
    None

TlmBenchAssumption ==
    /\ IdOf \in [Txn -> Id] /\ LengthOf \in [Txn -> Nat \ {0}]
    /\ AddrOf \in [Txn -> Nat] /\ IsRead \in [Txn -> BOOLEAN]
    /\ Failure \subseteq {"ADDRESS_ERROR", "GENERIC_ERROR"}
    /\ MaxResets \in Nat /\ None \notin Txn

VARIABLES
    rst, resets,
    issued, finished,   (* transactions given to the master, and completed *)
    status,             (* set_response_status; CORRUPT if OK with wrong data *)
    pending,            (* requests the memory has not answered *)
    answer,             (* the memory's answer, for each beat *)
    master, bus, slave

bench == <<rst, resets, issued>>
memory == <<pending, answer>>

Beats(t) == [k \in 1..LengthOf[t] |-> <<t, k>>]
Beat == UNION {{<<t, k>> : k \in 1..LengthOf[t]} : t \in Txn}
Address(b) == AddrOf[b[1]] + b[2] - 1

Elems(q) == {q[i] : i \in DOMAIN q}
NoQueues == [i \in Id |-> <<>>]

BenchInit ==
    /\ rst = TRUE /\ resets = 0
    /\ issued = {} /\ finished = {}
    /\ status = [t \in Txn |-> "OK"]
    /\ pending = {} /\ answer = [b \in Beat |-> "none"]
--------------------------------------------------------------------------------
(* Whether a random number is below its threshold.  It is drawn only where *)
(* it makes a difference: a ready signal is looked at only while there is  *)
(* something to take.                                                      *)
Chance(lucky, matters) == IF lucky \/ ~matters THEN {TRUE} ELSE BOOLEAN

(* nb_read and nb_write of the slave: the words asked for, and what is to  *)
(* be written there.                                                       *)
Request(beats, data) == [beats |-> beats, data |-> data]

(* The memory's answer to requests, among answers. *)
Given(requests, outcome, answers) ==
    [b \in Beat |->
        IF \E r \in requests : b \in Elems(r.beats)
        THEN LET r == CHOOSE x \in requests : b \in Elems(x.beats)
             IN  IF r.beats = r.data THEN outcome ELSE "CORRUPT"
        ELSE answers[b]]

(* New requests, which the memory may answer during the call. *)
Ask(requests) ==
    \/ pending' = pending \cup requests /\ answer' = answer
    \/ /\ requests # {}
       /\ \E outcome \in {"OK"} \cup Failure : answer' = Given(requests, outcome, answer)
       /\ pending' = pending

(* nb_done and b_status of a request, when the answers are answers. *)
NbDone(answers, beats) == answers[beats[1]] # "none"
BStatus(answers, beats) == answers[beats[1]]

Answer(r) ==
    /\ r \in pending
    /\ pending' = pending \ {r}
    /\ \E outcome \in {"OK"} \cup Failure : answer' = Given({r}, outcome, answer)
    /\ UNCHANGED <<rst, resets, issued, finished, status, master, bus, slave>>

(* The status of a transaction that completes with data. *)
WithData(t, data, outcome) ==
    IF IsRead[t] /\ outcome = "OK" /\ data # Beats(t) THEN "CORRUPT" ELSE outcome

(* reset_queue and its like: transactions lost to reset. *)
Lost(lost) ==
    /\ finished' = finished \cup lost
    /\ status' = [t \in Txn |-> IF t \in lost THEN "INCOMPLETE" ELSE status[t]]

(* A clock cycle in reset: the master loses transactions, and the memory   *)
(* keeps what it was asked.                                                *)
InReset(lost, m, b, s) ==
    /\ Lost(lost)
    /\ master' = m /\ bus' = b /\ slave' = s
    /\ UNCHANGED memory

(* The reset of the bench. *)
AssertReset ==
    /\ ~rst /\ resets < MaxResets
    /\ rst' = TRUE /\ resets' = resets + 1
    /\ UNCHANGED <<issued, finished, status, memory, master, bus, slave>>

ReleaseReset ==
    /\ rst /\ rst' = FALSE
    /\ UNCHANGED <<resets, issued, finished, status, memory, master, bus, slave>>
================================================================================
