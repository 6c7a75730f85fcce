------------------------------- MODULE TlmMemtest -------------------------------
(***************************************************************************)
(* dlsc_tlm_memtest (tlm/sim): a thread that writes all of a region, then  *)
(* issues random reads and writes over several sockets, several of them    *)
(* outstanding on each, and checks what it reads against mem_array.  It    *)
(* runs ahead of the simulation by up to the quantum: local is its own     *)
(* time, the time of the simulation plus delay.                            *)
(*                                                                         *)
(* How a request is carried, and the initiator through which it is issued, *)
(* are left to the composition: it binds the sets of answered transactions *)
(* and their times.  Where rand() chooses, the thread may choose anything. *)
(***************************************************************************)
EXTENDS Integers, Sequences, SequencesExt, FiniteSets, FiniteSetsExt

CONSTANTS
    size,               (* words of the region under test *)
    iterations,
    max_length,         (* words of a burst *)
    max_mots,           (* outstanding transactions of a socket *)
    Bindings,           (* numbers of sockets there may be *)
    Boundary,           (* words between the boundaries bursts may not cross *)
    Quantum,            (* the global quantum *)
    NoTxn

Loc == 0..(size - 1)

(* One number for every transaction the test can issue. *)
Txn == 1..(size \div max_length + iterations)

TlmMemtestAssumption ==
    /\ max_length \in Nat \ {0} /\ size \in Nat \ {0} /\ size % max_length = 0
    /\ iterations \in Nat /\ max_mots \in Nat \ {0} /\ Bindings \subseteq Nat \ {0}
    /\ Boundary \in Nat \ {0} /\ Boundary % max_length = 0
    /\ Quantum \in Nat /\ NoTxn \notin Txn

VARIABLES
    now, done_local, done_time,     (* of the simulation and the initiator *)
    sockets,                        (* bound to the initiator; constant *)
    pc,
    index, iteration, scan,         (* i of the two loops, j of the first inner one *)
    local,
    waited,                         (* the transaction the thread waits for *)
    mots,                           (* outstanding, of each socket *)
    payload,                        (* of the transactions issued so far *)
    mem_array, init_done, read_pending, write_pending,
    miscompare                      (* dlsc_error was called for a wrong word *)

memtest == <<pc, index, iteration, scan, local, waited, mots, payload,
             mem_array, init_done, read_pending, write_pending, miscompare>>

control == <<pc, index, iteration, scan, local, waited>>
books == <<mem_array, init_done, read_pending, write_pending, miscompare>>

(* test_thread is at its trigger; init does not write mem_array. *)
Garbage == -1

Socket == 0..(sockets - 1)

MemtestInit ==
    /\ sockets \in Bindings /\ pc = "idle"
    /\ index = 0 /\ iteration = 0 /\ scan = 0 /\ local = 0 /\ waited = NoTxn
    /\ mots = [s \in Socket |-> <<>>] /\ payload = <<>>
    /\ mem_array = [l \in Loc |-> Garbage] /\ init_done = {}
    /\ read_pending = [l \in Loc |-> 0] /\ write_pending = [l \in Loc |-> 0]
    /\ miscompare = FALSE
--------------------------------------------------------------------------------
Words(p) == p.index..(p.index + p.length - 1)
HasStrobes(p) == ~p.read /\ p.strb # Words(p)

(* open_region, close_region *)
Count(pending, p, n) == [l \in Loc |-> IF l \in Words(p) THEN pending[l] + n ELSE pending[l]]

(* launch_read and launch_write: the request is entered in the books and   *)
(* handed to the initiator, which gives it the next number.                *)
New == Len(payload) + 1
Released == <<>>

(* A payload from the pool; the answer is entered when there is one. *)
Payload(read, from, length, data, strb) ==
    [read |-> read, index |-> from, length |-> length, data |-> data, strb |-> strb,
     status |-> "INCOMPLETE", result |-> <<>>]
Read(from, length) == Payload(TRUE, from, length, Garbage, {})
Write(from, length, strb) == Payload(FALSE, from, length, New, strb)

Opened(p) ==
    /\ read_pending' = IF p.read THEN Count(read_pending, p, 1) ELSE read_pending
    /\ write_pending' = IF p.read THEN write_pending ELSE Count(write_pending, p, 1)
    /\ UNCHANGED <<mem_array, init_done, miscompare>>
--------------------------------------------------------------------------------
(* Mutant of Usable: a location with a pending read is written. *)
UsableWhileRead(l, read) == write_pending[l] = 0 /\ (read => l \in init_done)

(* find_region looks at the words from begin on, once around the region.   *)
Usable(l, read) ==
    write_pending[l] = 0 /\ (IF read THEN l \in init_done ELSE read_pending[l] = 0)

Place(begin, k) == (begin + k) % size

(* The run of usable words that ends at the k-th word looked at, counted   *)
(* anew at the start of the region.                                        *)
RunsTo(last, n, read) == \A l \in (last - n + 1)..last : l \in Loc /\ Usable(l, read)

Runs(begin, read) ==
    [k \in Loc |-> Max({n \in 0..(k + 1) : RunsTo(Place(begin, k), n, read)})]

(* The search ends with the first run of max words, or after all words     *)
(* with the run it is in.                                                  *)
Found(begin, max, read) ==
    LET run == Runs(begin, read)
        full == {k \in DOMAIN run : run[k] = max}
        last == IF full = {} THEN size - 1 ELSE Min(full)
    IN  [index |-> Place(begin, last) - run[last] + 1, length |-> run[last]]

(* The part of it before the boundary. *)
Clamped(r) ==
    [r EXCEPT !.length = Min({@, Boundary - (r.index % Boundary)})]

FindRegion(read) ==
    {Clamped(r) : r \in {f \in {Found(b, m, read) : b \in Loc, m \in 1..max_length} :
                            f.length > 0}}

(* launch: what may be issued; a read that finds nothing becomes a write   *)
(* only if nothing can be read from where it looks, but so may a write.    *)
Requests ==
    {Read(r.index, r.length) : r \in FindRegion(TRUE)}
    \cup UNION {{Write(r.index, r.length, strb) :
                    strb \in SUBSET (r.index..(r.index + r.length - 1))} :
                r \in FindRegion(FALSE)}

(* Neither search need find a region. *)
MayFail == \E b \in Loc, m \in 1..max_length : Found(b, m, FALSE).length = 0
--------------------------------------------------------------------------------
(* Mutant of Complete: a write with strobes initialises its whole region. *)
CompleteStrobed(t) ==
    LET p == payload[t]
    IN  /\ read_pending' = IF p.read THEN Count(read_pending, p, -1) ELSE read_pending
        /\ write_pending' = IF p.read THEN write_pending ELSE Count(write_pending, p, -1)
        /\ init_done' = IF p.read THEN init_done ELSE init_done \cup Words(p)
        /\ mem_array' =
             IF p.read \/ p.status # "OK" THEN mem_array
             ELSE [l \in Loc |-> IF l \in p.strb THEN p.data ELSE mem_array[l]]
        /\ miscompare' =
             (miscompare \/ (p.read /\ p.status = "OK"
                                /\ \E l \in Words(p) : p.result[l] # mem_array[l]))

(* complete: the books are brought up to date with a transaction.          *)
Complete(t) ==
    LET p == payload[t]
    IN  /\ read_pending' = IF p.read THEN Count(read_pending, p, -1) ELSE read_pending
        /\ write_pending' = IF p.read THEN write_pending ELSE Count(write_pending, p, -1)
        /\ init_done' =
             IF p.read THEN init_done
             ELSE IF p.status # "OK" THEN init_done \ Words(p)
             ELSE IF HasStrobes(p) THEN init_done
             ELSE init_done \cup Words(p)
        /\ mem_array' =
             IF p.read \/ p.status # "OK" THEN mem_array
             ELSE [l \in Loc |-> IF l \in p.strb THEN p.data ELSE mem_array[l]]
        /\ miscompare' =
             (miscompare \/ (p.read /\ p.status = "OK"
                                /\ \E l \in Words(p) : p.result[l] # mem_array[l]))

Later(a, b) == IF a < b THEN b ELSE a
LocalQuantum == Quantum - (now % Quantum)

(* Mutant of After: the delay of the answer is not annotated.              *)
AfterAnswered(t) == Later(local, now)

(* ts->wait(delay): sleeps until the transaction is answered, advances the *)
(* local time to when that counts, and sleeps while it is more than the    *)
(* quantum ahead.                                                          *)
After(t) == Later(Later(local, now), done_time[t])
Returns(t) == t \in done_local /\ After(t) - now <= LocalQuantum

(* nb_done(delay) *)
NbDone(t) == t \in done_local /\ done_time[t] <= local

(* The oldest transaction of a socket is completed and released. *)
Close(s) ==
    /\ Complete(waited)
    /\ mots' = [mots EXCEPT ![s] = Tail(@)]
    /\ payload' = [payload EXCEPT ![waited] = Released]
--------------------------------------------------------------------------------
(* The steps of test_thread; those that issue a request p leave payload to *)
(* the composition, which knows its answer.                                *)
Trigger ==
    /\ pc = "idle"
    /\ pc' = "init" /\ index' = 0 /\ local' = now
    /\ UNCHANGED <<iteration, scan, waited, mots, payload, books>>

Issued(s, p) == mots' = [mots EXCEPT ![s] = Append(@, New)] /\ Opened(p)

Initialising == Write(index, max_length, index..(index + max_length - 1))

InitLaunch ==
    /\ pc = "init" /\ index < size
    /\ Issued(0, Initialising)
    /\ IF Len(mots'[0]) >= max_mots
       THEN pc' = "init_wait" /\ waited' = Head(mots'[0]) /\ index' = index
       ELSE pc' = pc /\ waited' = waited /\ index' = index + max_length
    /\ UNCHANGED <<iteration, scan, local>>

InitWait ==
    /\ pc = "init_wait" /\ Returns(waited)
    /\ local' = After(waited) /\ waited' = NoTxn
    /\ Close(0)
    /\ pc' = "init" /\ index' = index + max_length
    /\ UNCHANGED <<iteration, scan>>

InitDone ==
    /\ pc = "init" /\ index >= size
    /\ pc' = (IF iterations = 0 THEN "drain" ELSE "scan")
    /\ iteration' = 0 /\ scan' = 0
    /\ UNCHANGED <<index, local, waited, mots, payload, books>>

(* The loop over the sockets that completes what is finished: those from   *)
(* scan on are still to be looked at.                                      *)
FrontDone(s) == mots[s] # <<>> /\ NbDone(Head(mots[s]))
Finished == {s \in Socket : scan <= s /\ FrontDone(s)}

ScanPop ==
    /\ pc = "scan" /\ Finished # {}
    /\ pc' = "scan_wait" /\ scan' = Min(Finished) /\ waited' = Head(mots[scan'])
    /\ UNCHANGED <<index, iteration, local, mots, payload, books>>

ScanWait ==
    /\ pc = "scan_wait" /\ Returns(waited)
    /\ local' = After(waited) /\ waited' = NoTxn
    /\ Close(scan)
    /\ pc' = "scan"
    /\ UNCHANGED <<index, iteration, scan>>

(* The first socket with room, from the one whose turn it is. *)
Room(s) == Len(mots[s]) < max_mots
Turn(j) == (iteration + j) % sockets
NextSocket ==
    Turn(Min({j \in Socket : Room(Turn(j))}))

(* The iteration is over; ten of them end with a wait for the local time. *)
IterationOver ==
    /\ iteration' = iteration + 1 /\ scan' = 0
    /\ pc' \in {"sync", IF iteration + 1 = iterations THEN "drain" ELSE "scan"}

Launch(p) ==
    /\ pc = "scan" /\ Finished = {}
    /\ \E s \in Socket : Room(s)
    /\ p \in Requests
    /\ Issued(NextSocket, p)
    /\ IterationOver
    /\ UNCHANGED <<index, local, waited>>

LaunchFails ==
    /\ pc = "scan" /\ Finished = {}
    /\ \E s \in Socket : Room(s)
    /\ MayFail
    /\ IterationOver
    /\ UNCHANGED <<index, local, waited, mots, payload, books>>

(* No room: wait for the oldest transaction of any socket and try again. *)
Full ==
    /\ pc = "scan" /\ Finished = {}
    /\ \A s \in Socket : ~Room(s)
    /\ \E s \in Socket : waited' = Head(mots[s])
    /\ pc' = "full_wait"
    /\ UNCHANGED <<index, iteration, scan, local, mots, payload, books>>

FullWait ==
    /\ pc = "full_wait" /\ Returns(waited)
    /\ local' = After(waited) /\ waited' = NoTxn
    /\ pc' = "scan" /\ scan' = 0
    /\ UNCHANGED <<index, iteration, mots, payload, books>>

(* sc_core::wait(delay) *)
SyncWait ==
    /\ pc = "sync" /\ local <= now
    /\ local' = now
    /\ pc' = (IF iteration = iterations THEN "drain" ELSE "scan")
    /\ UNCHANGED <<index, iteration, scan, waited, mots, payload, books>>

Pending == {s \in Socket : mots[s] # <<>>}

DrainPop ==
    /\ pc = "drain" /\ Pending # {}
    /\ pc' = "drain_wait" /\ waited' = Head(mots[Min(Pending)])
    /\ UNCHANGED <<index, iteration, scan, local, mots, payload, books>>

DrainWait ==
    /\ pc = "drain_wait" /\ Returns(waited)
    /\ local' = After(waited) /\ waited' = NoTxn
    /\ Close(Min(Pending))
    /\ pc' = "drain"
    /\ UNCHANGED <<index, iteration, scan>>

(* The wait at the end, after which done is set. *)
FinalWait ==
    /\ pc = "drain" /\ Pending = {} /\ local <= now
    /\ local' = now /\ pc' = "done"
    /\ UNCHANGED <<index, iteration, scan, waited, mots, payload, books>>

Waiting == InitWait \/ ScanWait \/ FullWait \/ SyncWait \/ DrainWait \/ FinalWait
Looping == Trigger \/ InitDone \/ ScanPop \/ LaunchFails \/ Full \/ DrainPop

(* The thread is between two waits: nothing else runs. *)
Running == pc \in {"init", "scan"} \/ (pc = "drain" /\ Pending # {})

(* It is at a wait that is over. *)
Woken ==
    \/ pc \in {"sync", "drain"} /\ local <= now
    \/ waited # NoTxn /\ Returns(waited)
================================================================================
