----------------------------- MODULE MemtestProofs -----------------------------
(***************************************************************************)
(* The memory test with its whole bench (MCMemtest), for any region, any   *)
(* number of requests, sockets and outstanding requests and any delays.    *)
(*                                                                         *)
(* Inv says where the thread is, where each request is and how it finds    *)
(* its way back, what is in the payloads and the memory, and that the      *)
(* books are those of the open requests.  Every action is split into what  *)
(* it does to the initiator, to the ways, to the records and to the books, *)
(* with a lemma for each; from the same facts follows that the action is   *)
(* one of RegionTest or leaves it alone (OpenRefined, ServedRefined,       *)
(* CloseRefined, Stutters).  The last part is about RegionTest itself, as  *)
(* MCMemtest instantiates it: its tester never finds a wrong word.         *)
(***************************************************************************)
EXTENDS MCMemtest, FiniteSetTheorems, FunctionTheorems, SequenceTheorems,
        WellFoundedInduction, TLAPS

(* Sets of numbers have smallest and, if bounded, greatest elements. *)
LEMMA LeastOf ==
  ASSUME NEW S, S # {}, NEW f \in [S -> Nat]
  PROVE  \E t \in S : \A v \in S : f[t] <= f[v]
<1> DEFINE image == {f[t] : t \in S}
           Less == OpToRel(<, Nat)
<1>1. image \in SUBSET Nat /\ image # {}
  OBVIOUS
<1>2. PICK m \in image : \A n \in image : <<n, m>> \notin Less
  <2>1. IsWellFoundedOn(Less, Nat)
    BY NatLessThanWellFounded DEF Less
  <2> HIDE DEF image, Less
  <2> QED BY <1>1, <2>1, WFMin, Zenon
<1>3. \A n \in image : m <= n
  <2> SUFFICES ASSUME NEW n \in image PROVE m <= n
    OBVIOUS
  <2>1. m \in Nat /\ n \in Nat
    BY <1>1
  <2>2. n < m => <<n, m>> \in Less
    BY <2>1 DEF OpToRel
  <2> HIDE DEF image, Less
  <2> QED BY <1>2, <2>1, <2>2
<1>4. PICK t \in S : f[t] = m
  OBVIOUS
<1> QED BY <1>3, <1>4

LEMMA MinIsLeast ==
  ASSUME NEW S \in SUBSET Nat, S # {}
  PROVE  Min(S) \in S /\ \A y \in S : Min(S) <= y
<1> DEFINE f == [x \in S |-> x]
<1>1. \E t \in S : \A v \in S : f[t] <= f[v]
  <2>1. f \in [S -> Nat]
    OBVIOUS
  <2> HIDE DEF f
  <2> QED BY <2>1, LeastOf
<1> QED BY <1>1 DEF Min

LEMMA MaxIsGreatest ==
  ASSUME NEW b \in Nat, NEW S \in SUBSET (0..b), S # {}
  PROVE  Max(S) \in S /\ \A y \in S : Max(S) >= y
<1> DEFINE f == [x \in S |-> b - x]
<1>1. PICK t \in S : \A v \in S : f[t] <= f[v]
  <2>1. f \in [S -> Nat]
    OBVIOUS
  <2> HIDE DEF f
  <2> QED BY <2>1, LeastOf
<1>2. \A v \in S : t >= v
  BY <1>1
<1> QED BY <1>2 DEF Max
--------------------------------------------------------------------------------
(* What is in a queue, when it holds everything once. *)
Items(q) == {q[i] : i \in DOMAIN q}
Apart(q) == \A i, j \in DOMAIN q : q[i] = q[j] => i = j

LEMMA AppendItems ==
  ASSUME NEW S, NEW q \in Seq(S), NEW e \in S
  PROVE  Items(Append(q, e)) = Items(q) \cup {e}
<1>1. /\ DOMAIN q = 1..Len(q) /\ Len(q) \in Nat
      /\ Append(q, e) \in Seq(S) /\ Len(Append(q, e)) = Len(q) + 1
      /\ \A i \in 1..Len(q) : Append(q, e)[i] = q[i]
      /\ Append(q, e)[Len(q) + 1] = e
  BY LenProperties, AppendProperties
<1>2. DOMAIN Append(q, e) = 1..Len(q) + 1
  BY <1>1, LenProperties
<1>3. \A i \in 1..Len(q) + 1 : i \in 1..Len(q) \/ i = Len(q) + 1
  BY <1>1
<1>4. 1..Len(q) \subseteq 1..Len(q) + 1 /\ Len(q) + 1 \in 1..Len(q) + 1
  BY <1>1
<1> QED BY <1>1, <1>2, <1>3, <1>4 DEF Items

LEMMA ItemsType ==
  ASSUME NEW S, NEW q \in Seq(S)
  PROVE  Items(q) \subseteq S
BY ElementOfSeq, LenProperties DEF Items

LEMMA RemoveProperties ==
  ASSUME NEW S, NEW q \in Seq(S), NEW i \in DOMAIN q
  PROVE  /\ RemoveAt(q, i) \in Seq(S)
         /\ Len(RemoveAt(q, i)) = Len(q) - 1
         /\ \A j \in 1..Len(q) - 1 :
              RemoveAt(q, i)[j] = IF j < i THEN q[j] ELSE q[j + 1]
<1> DEFINE a == SubSeq(q, 1, i - 1)
           b == SubSeq(q, i + 1, Len(q))
<1>1. DOMAIN q = 1..Len(q) /\ Len(q) \in Nat /\ i \in Nat /\ 1 <= i /\ i <= Len(q)
      /\ \A k \in 1..Len(q) : q[k] \in S
  BY LenProperties, ElementOfSeq
<1>2. /\ a \in Seq(S) /\ Len(a) = i - 1
      /\ \A k \in 1..i - 1 : a[k] = q[k]
  <2>1. 1 \in Int /\ i - 1 \in Int /\ \A k \in 1..i - 1 : q[k] \in S
    BY <1>1
  <2>2. /\ a \in Seq(S) /\ Len(a) = (IF 1 <= i - 1 THEN (i - 1) - 1 + 1 ELSE 0)
        /\ \A k \in 1..(i - 1) - 1 + 1 : a[k] = q[1 + k - 1]
    BY <2>1, SubSeqProperties
  <2> QED BY <1>1, <2>2
<1>3. /\ b \in Seq(S) /\ Len(b) = Len(q) - i
      /\ \A k \in 1..Len(q) - i : b[k] = q[i + k]
  <2>1. i + 1 \in Int /\ Len(q) \in Int /\ \A k \in (i + 1)..Len(q) : q[k] \in S
    BY <1>1
  <2>2. /\ b \in Seq(S) /\ Len(b) = (IF i + 1 <= Len(q) THEN Len(q) - (i + 1) + 1 ELSE 0)
        /\ \A k \in 1..Len(q) - (i + 1) + 1 : b[k] = q[(i + 1) + k - 1]
    BY <2>1, SubSeqProperties
  <2>3. \A k \in 1..Len(q) - i : (i + 1) + k - 1 = i + k /\ k \in 1..Len(q) - (i + 1) + 1
    BY <1>1
  <2> QED BY <1>1, <2>2, <2>3
<1>4. RemoveAt(q, i) = a \o b
  BY DEF RemoveAt
<1> HIDE DEF a, b
<1>5. /\ a \o b \in Seq(S) /\ Len(a \o b) = Len(q) - 1
      /\ \A j \in 1..Len(q) - 1 :
           (a \o b)[j] = IF j <= i - 1 THEN a[j] ELSE b[j - (i - 1)]
  <2>1. Len(a) + Len(b) = Len(q) - 1 /\ Len(a) = i - 1
    BY <1>1, <1>2, <1>3
  <2>2. /\ a \o b \in Seq(S) /\ Len(a \o b) = Len(a) + Len(b)
        /\ \A j \in 1..Len(a) + Len(b) :
             (a \o b)[j] = IF j <= Len(a) THEN a[j] ELSE b[j - Len(a)]
    BY <1>2, <1>3, ConcatProperties
  <2> QED BY <2>1, <2>2
<1>6. ASSUME NEW j \in 1..Len(q) - 1
      PROVE  (a \o b)[j] = IF j < i THEN q[j] ELSE q[j + 1]
  <2>1. CASE j < i
    <3>1. j \in 1..i - 1 /\ j <= i - 1
      BY <1>1, <2>1
    <3>2. (a \o b)[j] = a[j]
      BY <1>5, <3>1
    <3> QED BY <1>2, <2>1, <3>1, <3>2
  <2>2. CASE ~(j < i)
    <3>1. j - (i - 1) \in 1..Len(q) - i /\ i + (j - (i - 1)) = j + 1
      BY <1>1, <2>2
    <3> QED BY <1>1, <1>3, <1>5, <2>2, <3>1
  <2> QED BY <2>1, <2>2
<1> QED BY <1>4, <1>5, <1>6

(* In a queue that holds everything once, as told by f, taking one out     *)
(* leaves the rest.                                                        *)
LEMMA RemoveItems ==
  ASSUME NEW S, NEW q \in Seq(S), NEW i \in DOMAIN q, NEW f,
         \A j, k \in DOMAIN q : f[q[j]] = f[q[k]] => j = k
  PROVE  /\ RemoveAt(q, i) \in Seq(S)
         /\ Items(RemoveAt(q, i)) = Items(q) \ {q[i]}
         /\ \A j, k \in DOMAIN RemoveAt(q, i) :
              f[RemoveAt(q, i)[j]] = f[RemoveAt(q, i)[k]] => j = k
<1> DEFINE r == RemoveAt(q, i)
           from(j) == IF j < i THEN j ELSE j + 1
<1>1. /\ DOMAIN q = 1..Len(q) /\ Len(q) \in Nat /\ i \in Nat /\ 1 <= i /\ i <= Len(q)
      /\ r \in Seq(S) /\ DOMAIN r = 1..Len(q) - 1
      /\ \A j \in 1..Len(q) - 1 : r[j] = IF j < i THEN q[j] ELSE q[j + 1]
  BY LenProperties, RemoveProperties
<1>2. ASSUME NEW j \in DOMAIN r
      PROVE  from(j) \in DOMAIN q /\ from(j) # i /\ r[j] = q[from(j)]
  BY <1>1
<1>3. \A j, k \in DOMAIN r : from(j) = from(k) => j = k
  BY <1>1
<1>4. ASSUME NEW m \in DOMAIN q, m # i
      PROVE  \E j \in DOMAIN r : from(j) = m
  <2>1. CASE m < i
    BY <1>1, <1>4, <2>1
  <2>2. CASE ~(m < i)
    <3>1. m - 1 \in DOMAIN r /\ ~(m - 1 < i) /\ (m - 1) + 1 = m
      BY <1>1, <1>4, <2>2
    <3> QED BY <3>1
  <2> QED BY <2>1, <2>2
<1> HIDE DEF r, from
<1>5. Items(r) = Items(q) \ {q[i]}
  <2>1. ASSUME NEW j \in DOMAIN r PROVE r[j] \in Items(q) \ {q[i]}
    BY <1>2 DEF Items
  <2>2. ASSUME NEW m \in DOMAIN q, q[m] # q[i] PROVE q[m] \in Items(r)
    <3>1. PICK j \in DOMAIN r : from(j) = m
      BY <1>4, <2>2
    <3> QED BY <1>2, <3>1 DEF Items
  <2> QED BY <2>1, <2>2 DEF Items
<1>6. ASSUME NEW j \in DOMAIN r, NEW k \in DOMAIN r, f[r[j]] = f[r[k]]
      PROVE  j = k
  BY <1>2, <1>3, <1>6
<1> QED BY <1>1, <1>5, <1>6 DEF r

LEMMA TailItems ==
  ASSUME NEW S, NEW q \in Seq(S), q # <<>>, \A j, k \in DOMAIN q : q[j] = q[k] => j = k
  PROVE  /\ Items(Tail(q)) = Items(q) \ {Head(q)}
         /\ \A j, k \in DOMAIN Tail(q) : Tail(q)[j] = Tail(q)[k] => j = k
<1>1. /\ DOMAIN q = 1..Len(q) /\ Len(q) \in Nat \ {0} /\ Head(q) = q[1]
      /\ DOMAIN Tail(q) = 1..Len(q) - 1
      /\ \A j \in 1..Len(q) - 1 : Tail(q)[j] = q[j + 1] /\ j + 1 \in 1..Len(q) /\ j + 1 # 1
  BY LenProperties, HeadTailProperties, EmptySeq
<1>2. ASSUME NEW m \in DOMAIN q, m # 1
      PROVE  m - 1 \in DOMAIN Tail(q) /\ Tail(q)[m - 1] = q[m]
  <2>1. m - 1 \in 1..Len(q) - 1 /\ (m - 1) + 1 = m
    BY <1>1, <1>2
  <2> QED BY <1>1, <2>1
<1>3. \A j \in DOMAIN Tail(q) : Tail(q)[j] \in Items(q) \ {Head(q)}
  BY <1>1 DEF Items
<1>4. \A m \in DOMAIN q : q[m] # Head(q) => q[m] \in Items(Tail(q))
  BY <1>1, <1>2 DEF Items
<1>5. Items(Tail(q)) = Items(q) \ {Head(q)}
  BY <1>3, <1>4 DEF Items
<1>6. \A j, k \in DOMAIN Tail(q) : Tail(q)[j] = Tail(q)[k] => j = k
  BY <1>1
<1> QED BY <1>5, <1>6
--------------------------------------------------------------------------------
(* The queues of the channel. *)
Carried == [trans : Txn, socket : {0, 1}, at : Nat]
OneEach(q) == \A i, j \in DOMAIN q : q[i].trans = q[j].trans => i = j
Queue(q) == q \in Seq(Carried) /\ OneEach(q)
Queued(q) == {e.trans : e \in Items(q)}

LEMMA EmptyQueue == Queue(<<>>) /\ Items(<<>>) = {} /\ Queued(<<>>) = {}
<1>1. <<>> \in Seq(Carried) /\ DOMAIN <<>> = {}
  OBVIOUS
<1> QED BY <1>1 DEF Queue, OneEach, Items, Queued

(* A queue after an entry has come or gone. *)
LEMMA JoinQueue ==
  ASSUME NEW q, Queue(q), NEW e \in Carried, e.trans \notin Queued(q)
  PROVE  /\ Queue(Append(q, e))
         /\ Items(Append(q, e)) = Items(q) \cup {e}
         /\ Queued(Append(q, e)) = Queued(q) \cup {e.trans}
<1> DEFINE r == Append(q, e)
<1>1. q \in Seq(Carried) /\ OneEach(q)
  BY DEF Queue
<1>2. /\ DOMAIN q = 1..Len(q) /\ Len(q) \in Nat
      /\ r \in Seq(Carried) /\ DOMAIN r = 1..Len(q) + 1
      /\ \A i \in 1..Len(q) : r[i] = q[i]
      /\ r[Len(q) + 1] = e
  BY <1>1, LenProperties, AppendProperties
<1>3. Items(r) = Items(q) \cup {e}
  BY <1>1, AppendItems
<1>4. \A i \in 1..Len(q) : q[i].trans # e.trans
  BY <1>2 DEF Queued, Items
<1>5. OneEach(r)
  <2>1. SUFFICES ASSUME NEW i \in DOMAIN r, NEW j \in DOMAIN r, r[i].trans = r[j].trans
                 PROVE  i = j
    BY DEF OneEach
  <2>2. (i \in 1..Len(q) \/ i = Len(q) + 1) /\ (j \in 1..Len(q) \/ j = Len(q) + 1)
    BY <1>2
  <2> HIDE DEF r
  <2>3. CASE i \in 1..Len(q) /\ j \in 1..Len(q)
    BY <1>1, <1>2, <2>1, <2>3 DEF OneEach
  <2>4. CASE ~(i \in 1..Len(q) /\ j \in 1..Len(q))
    BY <1>2, <1>4, <2>1, <2>2, <2>4
  <2> QED BY <2>3, <2>4
<1> QED BY <1>2, <1>3, <1>5 DEF Queue, Queued

LEMMA LeaveQueue ==
  ASSUME NEW q, Queue(q), NEW i \in DOMAIN q
  PROVE  /\ Queue(RemoveAt(q, i))
         /\ Items(RemoveAt(q, i)) = Items(q) \ {q[i]}
         /\ Queued(RemoveAt(q, i)) = Queued(q) \ {q[i].trans}
         /\ q[i] \in Items(q) /\ q[i] \in Carried
<1> DEFINE f == [e \in Carried |-> e.trans]
           r == RemoveAt(q, i)
<1>1. q \in Seq(Carried) /\ OneEach(q)
  BY DEF Queue
<1>2. DOMAIN q = 1..Len(q) /\ \A j \in DOMAIN q : q[j] \in Carried
  BY <1>1, LenProperties, ElementOfSeq
<1>3. \A j \in DOMAIN q : f[q[j]] = q[j].trans
  BY <1>2
<1>4. \A j, k \in DOMAIN q : f[q[j]] = f[q[k]] => j = k
  BY <1>1, <1>3 DEF OneEach
<1>5. /\ r \in Seq(Carried) /\ Items(r) = Items(q) \ {q[i]}
      /\ \A j, k \in DOMAIN r : f[r[j]] = f[r[k]] => j = k
  <2> HIDE DEF f
  <2> QED BY <1>1, <1>4, RemoveItems
<1>6. \A j \in DOMAIN r : r[j] \in Carried
  BY <1>5, LenProperties, ElementOfSeq
<1>7. OneEach(r)
  BY <1>5, <1>6 DEF OneEach
<1> HIDE DEF r
<1>8. Queued(r) = Queued(q) \ {q[i].trans}
  <2>1. ASSUME NEW e \in Items(q), e.trans = q[i].trans
        PROVE  e = q[i]
    BY <1>1, <2>1 DEF Items, OneEach
  <2> QED BY <1>5, <2>1 DEF Queued
<1> QED BY <1>2, <1>5, <1>7, <1>8 DEF Queue, Items, r

(* get_next_transaction gives out an entry of the queue. *)
LEMMA FirstIsDue ==
  ASSUME now \in Nat, NEW q \in Seq(Carried), Path!DueIn(q) # {}
  PROVE  Path!First(q) \in DOMAIN q
<1> DEFINE D == Path!DueIn(q)
           f == [i \in D |-> q[i].at]
<1>1. D \subseteq DOMAIN q /\ DOMAIN q = 1..Len(q) /\ \A i \in DOMAIN q : q[i].at \in Nat
  <2>1. \A i \in DOMAIN q : q[i] \in Carried
    BY LenProperties, ElementOfSeq
  <2>2. \A e \in Carried : e.at \in Nat
    BY DEF Carried
  <2> QED BY <2>1, <2>2, LenProperties DEF Path!DueIn
<1>2. PICK e \in D : \A j \in D : q[e].at <= q[j].at
  <2>1. f \in [D -> Nat] /\ D # {}
    BY <1>1
  <2> HIDE DEF f, D
  <2>2. PICK e \in D : \A j \in D : f[e] <= f[j]
    BY <2>1, LeastOf
  <2> USE DEF f
  <2> QED BY <2>2
<1> DEFINE E == {i \in D : q[i].at = q[e].at}
<1>3. Min(E) \in E /\ \A j \in E : Min(E) <= j
  <2>1. E \in SUBSET Nat /\ E # {}
    BY <1>1, <1>2
  <2> HIDE DEF E
  <2> QED BY <2>1, MinIsLeast
<1> DEFINE m == Min(E)
<1>4. ASSUME NEW j \in D
      PROVE  q[m].at < q[j].at \/ (q[m].at = q[j].at /\ m <= j)
  <2> HIDE DEF m
  <2>1. m \in E /\ \A k \in E : m <= k
    BY <1>3 DEF m
  <2>2. q[m].at = q[e].at
    BY <2>1
  <2>3. q[e].at <= q[j].at /\ q[e].at \in Nat /\ q[j].at \in Nat
    BY <1>1, <1>2
  <2>4. CASE q[j].at = q[e].at
    BY <2>1, <2>2, <2>4
  <2> QED BY <2>2, <2>3, <2>4
<1>5. m \in D
  BY <1>3
<1> HIDE DEF m
<1>6. Path!First(q) \in D
  BY <1>4, <1>5 DEF Path!First
<1> QED BY <1>1, <1>6
--------------------------------------------------------------------------------
(* The invariant, in the terms of its proof: IInv with what the steps rely *)
(* on.  Requests have the numbers of the payloads, and those the initiator *)
(* waits for are Awaited.                                                  *)
Numbers == 1..Len(payload)
Awaited == outstanding \ done_local

Fields == {"read", "index", "length", "data", "strb", "status", "result"}
Statuses == {"INCOMPLETE", "OK", "ADDRESS_ERROR", "GENERIC_ERROR"}

(* A request as the test makes it. *)
Proper(p) ==
    /\ DOMAIN p = Fields
    /\ p.read \in BOOLEAN /\ p.index \in Nat /\ p.length \in Nat \ {0}
    /\ p.index + p.length <= size
    /\ p.strb \subseteq Words(p) /\ (p.read => p.strb = {})
    /\ p.data \in Txn \cup {Garbage}
    /\ p.status \in Statuses

(* Where the thread is and what it waits for. *)
Waits == {"init_wait", "scan_wait", "full_wait", "drain_wait"}
Oldest(s) == s \in Socket /\ mots[s] # <<>> /\ waited = Head(mots[s])
Thread ==
    /\ pc \in Waits \cup {"idle", "init", "scan", "sync", "drain", "done"}
    /\ scan \in Nat /\ local \in Nat /\ now \in Nat
    /\ pc \in {"init", "scan", "sync", "drain"} => local >= now
    /\ pc \notin Waits => waited = NoTxn
    /\ pc \in {"idle", "init"} => Len(mots[0]) < max_mots
    /\ pc = "init_wait" => Oldest(0)
    /\ pc = "scan_wait" => Oldest(scan)
    /\ pc = "full_wait" => \E s \in Socket : Oldest(s)
    /\ pc = "drain_wait" => Pending # {} /\ Oldest(Min(Pending))

(* How many requests there have been, and where the first ones went. *)
Below(n) == \A t \in Open : payload[t].index + payload[t].length <= n
Progress ==
    /\ index \in Nat /\ iteration \in 0..iterations
    /\ pc = "idle" => index = 0
    /\ pc \in {"idle", "init", "init_wait"} => iteration = 0
    /\ pc \in {"idle", "init"} =>
         Len(payload) * max_length = index /\ index <= size /\ Below(index)
    /\ pc = "init_wait" =>
         /\ Len(payload) * max_length = index + max_length
         /\ index + max_length <= size /\ Below(index + max_length)
    /\ Len(payload) <= size \div max_length + iteration
    /\ pc \in {"scan", "scan_wait", "full_wait"} => iteration < iterations

(* Every open request is outstanding on one socket, once. *)
Lists ==
    /\ mots \in [Socket -> Seq(Txn)]
    /\ \A x \in Socket : Len(mots[x]) <= max_mots /\ Apart(mots[x])
    /\ \A x, y \in Socket : x # y => Items(mots[x]) \cap Items(mots[y]) = {}
Places ==
    /\ sockets \in Nat \ {0} /\ rm_ann \in BOOLEAN /\ Lists
    /\ payload \in Seq(Items(payload)) /\ Open \subseteq Numbers

(* The initiator: no request waits for END_REQ. *)
Held ==
    /\ launch_queue = <<>> /\ launch_outstanding = FALSE /\ launch_event = FALSE
    /\ aborted = FALSE
    /\ outstanding \cup done_local = Numbers
    /\ complete_queue \subseteq done_local
    /\ done_time \in [Txn -> Nat]
    /\ Awaited \subseteq Open

(* The way back of an entry of a queue. *)
KnowsWay(e) ==
    IF e.socket = 0 THEN OfSocket(e.trans, 0) /\ \A r \in sources : r[1] # e.trans
    ELSE \E s \in {0, 1} \cap Socket : <<e.trans, s>> \in sources /\ OfSocket(e.trans, s)

(* The requests that are Awaited are in the queues, once. *)
Ways ==
    /\ Queue(fw_queue) /\ Queue(bw_queue)
    /\ fw_next \in Nat /\ bw_next \in Nat
    /\ Queued(fw_queue) \cap Queued(bw_queue) = {}
    /\ Queued(fw_queue) \cup Queued(bw_queue) = Awaited
    /\ sources \subseteq Awaited \X {0, 1}
    /\ \A r, s \in sources : r[1] = s[1] => r = s
    /\ \A e \in Items(fw_queue) \cup Items(bw_queue) : KnowsWay(e)

(* The memory has not served those on their way forward, and no others. *)
Records ==
    \A t \in Open : /\ Proper(payload[t])
                    /\ payload[t].status = "INCOMPLETE" <=> t \in Queued(fw_queue)

Contents ==
    /\ mem \in [Loc -> Word] /\ next_time \in Nat
    /\ init_done \subseteq Loc /\ miscompare \in BOOLEAN

Books ==
    /\ read_pending \in [Loc -> Nat] /\ write_pending \in [Loc -> Nat]
    /\ BooksRight

Inv == Thread /\ Progress /\ Places /\ Held /\ Ways /\ Records /\ Contents /\ Books
--------------------------------------------------------------------------------
(* Arithmetic. *)
LEMMA Constants ==
  /\ size \in Nat \ {0} /\ max_length \in Nat \ {0} /\ max_mots \in Nat \ {0}
  /\ iterations \in Nat /\ Boundary \in Nat \ {0} /\ size % max_length = 0
  /\ Bindings \subseteq Nat \ {0} /\ NoTxn \notin Txn
  /\ fw_delays \subseteq Nat /\ bw_delays \subseteq Nat
  /\ access_latency \in Nat /\ byte_latency \in Nat
BY MCMemtestAssumption DEF TlmMemtestAssumption, Path!TlmPathAssumption

LEMMA ProductType == \A a, b \in Nat : a * b \in Nat
OBVIOUS

LEMMA QuotientType == size \div max_length \in Nat /\ size = (size \div max_length) * max_length
<1>1. \A a \in Nat, b \in Nat \ {0} : a \div b \in Nat /\ (a % b = 0 => a = (a \div b) * b)
  OBVIOUS
<1> QED BY <1>1, Constants

LEMMA RemainderOf ==
  ASSUME NEW q \in Nat, NEW n \in Nat \ {0}, NEW s \in 0..n - 1
  PROVE  (n * q + s) % n = s
OBVIOUS

(* Some turn is that of s. *)
LEMMA EachHasTurn ==
  ASSUME NEW i \in Nat, NEW n \in Nat \ {0}, NEW s \in 0..n - 1
  PROVE  \E j \in 0..n - 1 : (i + j) % n = s
<1> DEFINE r == i % n
           q == i \div n
<1>1. r \in 0..n - 1 /\ i = n * q + r /\ q \in Nat
  OBVIOUS
<1> HIDE DEF r, q
<1>2. CASE s >= r
  <2>1. i + (s - r) = n * q + s /\ s - r \in 0..n - 1
    BY <1>1, <1>2
  <2>2. (n * q + s) % n = s
    BY <1>1, RemainderOf
  <2> QED BY <2>1, <2>2
<1>3. CASE s < r
  <2>1. i + (s - r + n) = n * (q + 1) + s /\ s - r + n \in 0..n - 1
    BY <1>1, <1>3
  <2>2. (n * (q + 1) + s) % n = s
    BY <1>1, RemainderOf
  <2> QED BY <2>1, <2>2
<1> QED BY <1>1, <1>2, <1>3

(* One more burst fits in if the last one did not reach the end. *)
LEMMA OneMore ==
  ASSUME NEW a \in Nat, NEW b \in Nat, NEW c \in Nat \ {0}
  PROVE  /\ (a + 1) * c = a * c + c
         /\ a * c < b * c => a + 1 <= b /\ a * c + c <= b * c
<1>1. (a + 1) * c = a * c + c
  OBVIOUS
<1>2. a * c < b * c => a + 1 <= b
  OBVIOUS
<1>3. a + 1 <= b => (a + 1) * c <= b * c
  OBVIOUS
<1> QED BY <1>1, <1>2, <1>3

(* Every remainder is less than what is divided by. *)
LEMMA RemainderType == \A a \in Nat, b \in Nat \ {0} : a % b \in 0..b - 1
OBVIOUS
--------------------------------------------------------------------------------
(* What the channel and the memory draw and compute are times. *)
LEMMA PassesType ==
  ASSUME now \in Nat, NEW next \in Nat, NEW n \in 0..2, NEW D \in SUBSET Nat,
         NEW drawn \in [1..n -> D]
  PROVE  Path!Passes(next, drawn).delay \in Nat /\ Path!Passes(next, drawn).next \in Nat
<1>1. \A m, d \in Nat : Path!RandDelay(m, d) \in Nat
  BY DEF Path!RandDelay, Path!Stretched
<1>2. ASSUME NEW sum, sum.delay \in Nat, NEW d \in Nat, sum.next \in Nat
      PROVE  Path!Pass(sum, d).delay \in Nat /\ Path!Pass(sum, d).next \in Nat
  <2> DEFINE w == Path!RandDelay(sum.next, d)
  <2>1. w \in Nat
    BY <1>1, <1>2
  <2>2. Path!Pass(sum, d) = [delay |-> sum.delay + w, next |-> now + w]
    BY DEF Path!Pass
  <2> HIDE DEF w
  <2> QED BY <1>2, <2>1, <2>2
<1>3. Len(drawn) = n /\ \A i \in 1..n : drawn[i] \in Nat
  <2>1. drawn \in Seq(D) /\ n \in Nat /\ DOMAIN drawn = 1..n
    OBVIOUS
  <2>2. Len(drawn) \in Nat /\ 1..Len(drawn) = 1..n
    BY <2>1, LenProperties
  <2>3. Len(drawn) = n
    <3>1. Len(drawn) > 0 => Len(drawn) \in 1..n
      BY <2>2
    <3>2. n > 0 => n \in 1..Len(drawn)
      BY <2>1, <2>2
    <3> QED BY <2>1, <2>2, <3>1, <3>2
  <2> QED BY <2>3
<1> DEFINE none == [delay |-> 0, next |-> next]
           once == Path!Pass(none, drawn[1])
<1>4. none.delay \in Nat /\ none.next \in Nat
  OBVIOUS
<1>5. CASE n = 0
  BY <1>3, <1>4, <1>5 DEF Path!Passes
<1>6. CASE n = 1
  <2>1. Path!Passes(next, drawn) = once
    BY <1>3, <1>6 DEF Path!Passes
  <2>2. drawn[1] \in Nat
    BY <1>3, <1>6
  <2> HIDE DEF none
  <2> QED BY <1>2, <1>4, <2>1, <2>2
<1>7. CASE n = 2
  <2>1. Path!Passes(next, drawn) = Path!Pass(once, drawn[2])
    BY <1>3, <1>7 DEF Path!Passes
  <2>2. once.delay \in Nat /\ once.next \in Nat /\ drawn[2] \in Nat
    <3>1. drawn[1] \in Nat /\ drawn[2] \in Nat
      BY <1>3, <1>7
    <3> HIDE DEF none
    <3> QED BY <1>2, <1>4, <3>1
  <2> HIDE DEF once
  <2> QED BY <1>2, <2>1, <2>2
<1> QED BY <1>5, <1>6, <1>7

LEMMA OnePassType ==
  ASSUME now \in Nat, NEW next \in Nat, NEW d \in Nat
  PROVE  Path!Passes(next, <<d>>).delay \in Nat /\ Path!Passes(next, <<d>>).next \in Nat
<1>1. <<d>> \in [1..1 -> Nat] /\ 1 \in 0..2
  OBVIOUS
<1> QED BY <1>1, PassesType

LEMMA CompletionType ==
  ASSUME now \in Nat, next_time \in Nat, NEW p, p.length \in Nat, NEW delay \in Nat
  PROVE  Path!CompletionDelay(p, delay) \in Nat /\ Path!NextTime(p) \in Nat
<1>1. Path!Transfer(p) \in Nat
  BY Constants, ProductType DEF Path!Transfer
<1>2. Path!NextTime(p) \in Nat /\ Path!NextTime(p) - now \in Nat
  BY <1>1 DEF Path!NextTime, Path!Later
<1> QED BY <1>1, <1>2 DEF Path!CompletionDelay, Path!Later

LEMMA OutcomesType ==
  ASSUME NEW p, NEW o \in Path!Outcomes(p)
  PROVE  o \in Statuses \ {"INCOMPLETE"}
BY DEF Path!Outcomes, Statuses

LEMMA CrossingsType ==
  ASSUME NEW s, NEW p
  PROVE  Crossings(s, p) \in 0..2 /\ (Crossings(s, p) > 0 => s \in {0, 1})
BY DEF Crossings
--------------------------------------------------------------------------------
(* What find_region finds may be used. *)
Free(p) == \A l \in Words(p) : l \in Loc /\ Usable(l, p.read)
Fresh(p) == Proper(p) /\ p.status = "INCOMPLETE" /\ Free(p)

LEMMA PlaceType == \A b, k \in Loc : Place(b, k) \in Loc
<1> SUFFICES ASSUME NEW b \in Loc, NEW k \in Loc PROVE Place(b, k) \in Loc
  OBVIOUS
<1>1. b + k \in Nat
  BY Constants DEF Loc
<1> QED BY <1>1, Constants, RemainderType DEF Place, Loc

LEMMA RunFound ==
  ASSUME NEW read \in BOOLEAN, NEW b \in Loc, NEW m,
         Found(b, m, read).length > 0
  PROVE  LET f == Found(b, m, read)
         IN  /\ f.index \in Nat /\ f.length \in Nat /\ f.index + f.length <= size
             /\ \A l \in f.index..(f.index + f.length - 1) : l \in Loc /\ Usable(l, read)
<1> DEFINE run == Runs(b, read)
           full == {k \in DOMAIN run : run[k] = m}
           last == IF full = {} THEN size - 1 ELSE Min(full)
           place == Place(b, last)
           n == run[last]
<1>1. DOMAIN run = Loc /\ Loc \subseteq Nat /\ Loc = 0..size - 1 /\ size \in Nat \ {0}
  BY Constants DEF Runs, Loc
<1>2. last \in Loc
  <2>1. CASE full = {}
    BY <1>1, <2>1
  <2>2. CASE full # {}
    <3>1. full \in SUBSET Nat /\ full \subseteq Loc
      BY <1>1
    <3> HIDE DEF full, run
    <3>2. Min(full) \in full
      BY <2>2, <3>1, MinIsLeast
    <3> QED BY <2>2, <3>1, <3>2
  <2> QED BY <2>1, <2>2
<1>3. Found(b, m, read).index = place - n + 1 /\ Found(b, m, read).length = n
  BY DEF Found
<1> HIDE DEF full, last
<1>4. place \in Loc
  BY <1>2, PlaceType
<1>5. n \in Nat /\ RunsTo(place, n, read)
  <2> DEFINE S == {x \in 0..(last + 1) : RunsTo(place, x, read)}
  <2>1. n = Max(S)
    BY <1>2 DEF Runs
  <2>2. S \in SUBSET (0..(last + 1)) /\ last + 1 \in Nat
    BY <1>1, <1>2
  <2>3. 0 \in S
    <3>1. (place - 0 + 1)..place = {}
      BY <1>1, <1>4
    <3> QED BY <1>1, <1>2, <3>1 DEF RunsTo
  <2>4. Max(S) \in S
    <3> HIDE DEF S
    <3> QED BY <2>2, <2>3, MaxIsGreatest
  <2> QED BY <2>1, <2>2, <2>4
<1> HIDE DEF n, place
<1>6. n > 0 /\ place \in Nat
  BY <1>1, <1>3, <1>4
<1>7. (place - n + 1) + n - 1 = place /\ place - n + 1 \in (place - n + 1)..place
  BY <1>5, <1>6
<1>8. place - n + 1 \in Loc
  BY <1>5, <1>7 DEF RunsTo
<1>9. \A l \in (place - n + 1)..place : l \in Loc /\ Usable(l, read)
  BY <1>5 DEF RunsTo
<1> QED BY <1>1, <1>3, <1>4, <1>5, <1>6, <1>7, <1>8, <1>9

LEMMA RegionFound ==
  ASSUME NEW read \in BOOLEAN, NEW r \in FindRegion(read)
  PROVE  /\ r.index \in Nat /\ r.length \in Nat \ {0} /\ r.index + r.length <= size
         /\ \A l \in r.index..(r.index + r.length - 1) : l \in Loc /\ Usable(l, read)
<1>1. PICK b \in Loc, m \in 1..max_length :
         Found(b, m, read).length > 0 /\ r = Clamped(Found(b, m, read))
  BY DEF FindRegion
<1> DEFINE f == Found(b, m, read)
           S == {f.length, Boundary - (f.index % Boundary)}
<1>2. /\ f.index \in Nat /\ f.length \in Nat /\ f.index + f.length <= size
      /\ \A l \in f.index..(f.index + f.length - 1) : l \in Loc /\ Usable(l, read)
  BY <1>1, RunFound
<1>3. r.index = f.index /\ r.length = Min(S)
  <2>1. DOMAIN f = {"index", "length"}
    BY DEF Found
  <2> QED BY <1>1, <2>1 DEF Clamped
<1> HIDE DEF f
<1>4. Boundary - (f.index % Boundary) \in Nat \ {0}
  <2>1. Boundary \in Nat \ {0} /\ f.index % Boundary \in 0..Boundary - 1
    BY <1>2, Constants, RemainderType
  <2> HIDE DEF S
  <2> QED BY <2>1, SMT
<1>5. Min(S) \in S /\ Min(S) <= f.length
  <2>1. S \in SUBSET Nat /\ S # {} /\ f.length \in S
    BY <1>2, <1>4
  <2> HIDE DEF S
  <2> QED BY <2>1, MinIsLeast
<1>6. r.length \in Nat \ {0} /\ r.length <= f.length
  BY <1>1, <1>2, <1>3, <1>4, <1>5 DEF f
<1>7. r.index..(r.index + r.length - 1) \subseteq f.index..(f.index + f.length - 1)
  BY <1>2, <1>3, <1>6
<1>8. r.index \in Nat /\ r.index + r.length <= size
  BY <1>2, <1>3, <1>6, Constants
<1> QED BY <1>2, <1>6, <1>7, <1>8

(* What launch issues, and what the first loop issues, are such requests. *)
LEMMA PayloadFields ==
  ASSUME NEW read \in BOOLEAN, NEW i \in Nat, NEW n \in Nat \ {0}, i + n <= size,
         NEW data \in Txn \cup {Garbage}, NEW strb \in SUBSET (i..(i + n - 1)),
         read => strb = {},
         \A l \in i..(i + n - 1) : l \in Loc /\ Usable(l, read)
  PROVE  Fresh(Payload(read, i, n, data, strb))
<1> DEFINE p == Payload(read, i, n, data, strb)
<1>1. /\ DOMAIN p = Fields
      /\ p.read = read /\ p.index = i /\ p.length = n /\ p.data = data /\ p.strb = strb
      /\ p.status = "INCOMPLETE"
  BY DEF Payload, Fields
<1> HIDE DEF p
<1>2. Words(p) = i..(i + n - 1)
  BY <1>1 DEF Words
<1> QED BY <1>1, <1>2 DEF Fresh, Proper, Free, Statuses, p

LEMMA RequestFresh ==
  ASSUME New \in Txn, NEW p \in Requests
  PROVE  Fresh(p)
<1>1. CASE \E r \in FindRegion(TRUE) : p = Read(r.index, r.length)
  <2>1. PICK r \in FindRegion(TRUE) : p = Read(r.index, r.length)
    BY <1>1
  <2> QED BY <2>1, RegionFound, PayloadFields DEF Read
<1>2. CASE \E r \in FindRegion(FALSE) : \E strb \in SUBSET (r.index..(r.index + r.length - 1)) :
             p = Write(r.index, r.length, strb)
  <2>1. PICK r \in FindRegion(FALSE) :
             \E strb \in SUBSET (r.index..(r.index + r.length - 1)) :
                p = Write(r.index, r.length, strb)
    BY <1>2
  <2>2. PICK strb \in SUBSET (r.index..(r.index + r.length - 1)) :
             p = Write(r.index, r.length, strb)
    BY <2>1
  <2> QED BY <2>2, RegionFound, PayloadFields DEF Write
<1> QED BY <1>1, <1>2 DEF Requests

(* Where no open request is, nothing is pending. *)
LEMMA OpenFinite ==
  ASSUME Places
  PROVE  /\ IsFiniteSet(Open)
         /\ \A l, read : IsFiniteSet(OpenAt(l, read)) /\ Cardinality(OpenAt(l, read)) \in Nat
<1>1. Len(payload) \in Nat
  BY LenProperties DEF Places
<1>2. IsFiniteSet(Open)
  <2>1. IsFiniteSet(1..Len(payload)) /\ Open \subseteq 1..Len(payload)
    BY <1>1, FS_Interval DEF Places, Numbers
  <2> QED BY <2>1, FS_Subset
<1>3. \A l, read : OpenAt(l, read) \subseteq Open
  BY DEF OpenAt
<1> QED BY <1>2, <1>3, FS_Subset, FS_CardinalityType

LEMMA PendingCounts ==
  ASSUME Places, Books, NEW l \in Loc
  PROVE  /\ read_pending[l] = 0 <=> OpenAt(l, TRUE) = {}
         /\ write_pending[l] = 0 <=> OpenAt(l, FALSE) = {}
<1>1. /\ read_pending[l] = Cardinality(OpenAt(l, TRUE))
      /\ write_pending[l] = Cardinality(OpenAt(l, FALSE))
  BY DEF Books, BooksRight
<1>2. IsFiniteSet(OpenAt(l, TRUE)) /\ IsFiniteSet(OpenAt(l, FALSE))
  BY OpenFinite
<1> QED BY <1>1, <1>2, FS_EmptySet
--------------------------------------------------------------------------------
(* The lists of outstanding requests when one is issued and when one is    *)
(* released.                                                               *)
LEMMA OpenIsListed == Open = UNION {Items(mots[x]) : x \in Socket}
BY DEF Open, Items

LEMMA OfSocketListed == \A t, s : OfSocket(t, s) <=> t \in Items(mots[s])
BY DEF OfSocket, Items

LEMMA ListsAppend ==
  ASSUME Lists, NEW s \in Socket, NEW t \in Txn \ Open, Len(mots[s]) < max_mots,
         mots' = [mots EXCEPT ![s] = Append(@, t)], sockets' = sockets
  PROVE  /\ Lists' /\ Open' = Open \cup {t} /\ OfSocket(t, s)'
         /\ \A u, x : x \in Socket /\ OfSocket(u, x) => OfSocket(u, x)'
<1> DEFINE q == Append(mots[s], t)
<1>1. Socket' = Socket /\ mots \in [Socket -> Seq(Txn)]
  BY DEF Socket, Lists
<1>2. mots'[s] = q /\ \A x \in Socket \ {s} : mots'[x] = mots[x]
  BY <1>1
<1>3. /\ q \in Seq(Txn) /\ Len(q) = Len(mots[s]) + 1
      /\ Items(q) = Items(mots[s]) \cup {t}
  BY <1>1, AppendProperties, AppendItems
<1>4. \A x \in Socket : t \notin Items(mots[x])
  BY OpenIsListed
<1>5. Apart(q)
  <2>1. SUFFICES ASSUME NEW i \in DOMAIN q, NEW j \in DOMAIN q, q[i] = q[j]
                 PROVE  i = j
    BY DEF Apart
  <2>2. /\ Len(mots[s]) \in Nat /\ DOMAIN mots[s] = 1..Len(mots[s])
        /\ DOMAIN q = 1..Len(mots[s]) + 1
        /\ \A k \in 1..Len(mots[s]) : q[k] = mots[s][k] /\ q[k] # t
        /\ q[Len(mots[s]) + 1] = t
    BY <1>1, <1>3, <1>4, LenProperties, AppendProperties DEF Items
  <2>3. Apart(mots[s])
    BY DEF Lists
  <2> HIDE DEF q
  <2>4. (i \in 1..Len(mots[s]) \/ i = Len(mots[s]) + 1)
        /\ (j \in 1..Len(mots[s]) \/ j = Len(mots[s]) + 1)
    BY <2>1, <2>2
  <2>5. CASE i \in 1..Len(mots[s]) /\ j \in 1..Len(mots[s])
    BY <2>1, <2>2, <2>3, <2>5 DEF Apart
  <2>6. CASE ~(i \in 1..Len(mots[s]) /\ j \in 1..Len(mots[s]))
    BY <2>1, <2>2, <2>4, <2>6
  <2> QED BY <2>5, <2>6
<1> HIDE DEF q
<1>6. Lists'
  <2>1. mots' \in [Socket' -> Seq(Txn)]
    BY <1>1, <1>3 DEF q
  <2>2. \A x \in Socket : Len(mots'[x]) <= max_mots /\ Apart(mots'[x])
    <3>1. Len(q) <= max_mots
      <4>1. Len(mots[s]) \in Nat
        BY <1>1, LenProperties
      <4> QED BY <1>3, <4>1, Constants
    <3> QED BY <1>2, <1>5, <3>1 DEF Lists
  <2>3. ASSUME NEW x \in Socket, NEW y \in Socket, x # y
        PROVE  Items(mots'[x]) \cap Items(mots'[y]) = {}
    <3>1. Items(mots[x]) \cap Items(mots[y]) = {}
      BY <2>3 DEF Lists
    <3>2. CASE x = s
      BY <1>2, <1>3, <1>4, <2>3, <3>1, <3>2
    <3>3. CASE y = s
      BY <1>2, <1>3, <1>4, <2>3, <3>1, <3>3
    <3>4. CASE x # s /\ y # s
      BY <1>2, <3>1, <3>4
    <3> QED BY <3>2, <3>3, <3>4
  <2>4. \A x : Apart(mots'[x]) => Apart(mots[x])'
    BY DEF Apart
  <2>5. \A x : Items(mots'[x]) = Items(mots[x])'
    BY DEF Items
  <2> QED BY <1>1, <2>1, <2>2, <2>3, <2>4, <2>5, Zenon DEF Lists
<1>7. \A x : Items(mots[x])' = Items(mots'[x])
  BY DEF Items
<1>8. Open' = UNION {Items(mots'[x]) : x \in Socket}
  BY <1>1, <1>7 DEF Open, Items
<1>9. Open' = Open \cup {t}
  BY <1>2, <1>3, <1>8, OpenIsListed
<1>10. \A u, x : OfSocket(u, x)' <=> u \in Items(mots'[x])
  BY DEF OfSocket, Items
<1> QED BY <1>2, <1>3, <1>6, <1>9, <1>10, OfSocketListed

LEMMA ListsTail ==
  ASSUME Lists, NEW s \in Socket, mots[s] # <<>>, NEW t, t = Head(mots[s]),
         mots' = [mots EXCEPT ![s] = Tail(@)], sockets' = sockets
  PROVE  /\ Lists' /\ Open' = Open \ {t} /\ t \in Open
         /\ \A u, x : x \in Socket /\ u # t /\ OfSocket(u, x) => OfSocket(u, x)'
         /\ Len(mots'[s]) < max_mots
<1> DEFINE q == Tail(mots[s])
<1>1. Socket' = Socket /\ mots \in [Socket -> Seq(Txn)]
  BY DEF Socket, Lists
<1>2. mots'[s] = q /\ \A x \in Socket \ {s} : mots'[x] = mots[x]
  BY <1>1
<1>3. mots[s] \in Seq(Txn) /\ Apart(mots[s])
  BY <1>1 DEF Lists
<1>4. /\ q \in Seq(Txn) /\ Len(q) = Len(mots[s]) - 1 /\ Len(mots[s]) \in Nat \ {0}
      /\ t \in Items(mots[s])
  <2>1. /\ Tail(mots[s]) \in Seq(Txn) /\ Len(Tail(mots[s])) = Len(mots[s]) - 1
        /\ Head(mots[s]) = mots[s][1]
    BY <1>3, HeadTailProperties
  <2>2. Len(mots[s]) \in Nat \ {0} /\ 1 \in DOMAIN mots[s]
    BY <1>3, LenProperties, EmptySeq
  <2> QED BY <2>1, <2>2 DEF Items
<1>5. Items(q) = Items(mots[s]) \ {t} /\ Apart(q)
  <2>1. \A j, k \in DOMAIN mots[s] : mots[s][j] = mots[s][k] => j = k
    BY <1>3 DEF Apart
  <2>2. /\ Items(Tail(mots[s])) = Items(mots[s]) \ {t}
        /\ \A j, k \in DOMAIN Tail(mots[s]) : Tail(mots[s])[j] = Tail(mots[s])[k] => j = k
    BY <1>3, <2>1, TailItems
  <2> QED BY <2>2 DEF Apart
<1> HIDE DEF q
<1>6. Len(q) < max_mots /\ Len(q) <= max_mots
  BY <1>1, <1>4, Constants DEF Lists
<1>7. Lists'
  <2>1. mots' \in [Socket' -> Seq(Txn)]
    BY <1>1, <1>4 DEF q
  <2>2. \A x \in Socket : Len(mots'[x]) <= max_mots /\ Apart(mots'[x])
    BY <1>2, <1>5, <1>6 DEF Lists
  <2>3. ASSUME NEW x \in Socket, NEW y \in Socket, x # y
        PROVE  Items(mots'[x]) \cap Items(mots'[y]) = {}
    <3>1. Items(mots[x]) \cap Items(mots[y]) = {}
      BY <2>3 DEF Lists
    <3>2. \A z \in Socket : Items(mots'[z]) \subseteq Items(mots[z])
      BY <1>2, <1>5
    <3> QED BY <3>1, <3>2
  <2>4. \A x : Apart(mots'[x]) => Apart(mots[x])'
    BY DEF Apart
  <2>5. \A x : Items(mots'[x]) = Items(mots[x])'
    BY DEF Items
  <2> QED BY <1>1, <2>1, <2>2, <2>3, <2>4, <2>5, Zenon DEF Lists
<1>8. \A x : Items(mots[x])' = Items(mots'[x])
  BY DEF Items
<1>9. Open' = UNION {Items(mots'[x]) : x \in Socket}
  BY <1>1, <1>8 DEF Open, Items
<1>10. \A x \in Socket \ {s} : t \notin Items(mots[x])
  BY <1>4 DEF Lists
<1>11. Open' = Open \ {t} /\ t \in Open
  <2>1. \A x \in Socket : Items(mots'[x]) = Items(mots[x]) \ {t}
    BY <1>2, <1>5, <1>10
  <2> DEFINE f == [x \in Socket |-> Items(mots[x])]
             g == [x \in Socket |-> Items(mots'[x])]
  <2>2. Open = UNION {f[x] : x \in Socket} /\ Open' = UNION {g[x] : x \in Socket}
    BY <1>9, OpenIsListed
  <2>3. \A x \in Socket : g[x] = f[x] \ {t}
    BY <2>1
  <2>4. t \in f[s]
    BY <1>4
  <2> HIDE DEF f, g
  <2> QED BY <2>2, <2>3, <2>4
<1>12. \A u, x : OfSocket(u, x)' <=> u \in Items(mots'[x])
  BY DEF OfSocket, Items
<1> QED BY <1>2, <1>5, <1>6, <1>7, <1>11, <1>12, OfSocketListed

(* The payloads. *)
LEMMA SeqOfItems == ASSUME NEW S, NEW q \in Seq(S) PROVE q \in Seq(Items(q))
<1>1. q \in [1..Len(q) -> S] /\ Len(q) \in Nat /\ DOMAIN q = 1..Len(q)
  BY LenProperties
<1>2. q \in [1..Len(q) -> Items(q)]
  BY <1>1 DEF Items
<1> QED BY <1>1, <1>2

LEMMA PayloadAppended ==
  ASSUME payload \in Seq(Items(payload)), NEW p, payload' = Append(payload, p)
  PROVE  /\ payload' \in Seq(Items(payload)')
         /\ Len(payload) \in Nat /\ Len(payload') = New
         /\ Numbers' = Numbers \cup {New} /\ New \notin Numbers
         /\ \A t \in Numbers : payload'[t] = payload[t]
         /\ payload'[New] = p
<1> DEFINE S == Items(payload) \cup {p}
<1>1. payload \in Seq(S)
  <2>1. Items(payload) \subseteq S
    OBVIOUS
  <2> HIDE DEF S
  <2> QED BY <2>1
<1>2. p \in S
  OBVIOUS
<1> HIDE DEF S
<1>3. /\ payload' \in Seq(S) /\ Len(payload') = Len(payload) + 1
      /\ \A t \in 1..Len(payload) : payload'[t] = payload[t]
      /\ payload'[Len(payload) + 1] = p
  BY <1>1, <1>2, AppendProperties
<1>4. payload' \in Seq(Items(payload'))
  BY <1>3, SeqOfItems
<1>5. Items(payload)' = Items(payload')
  BY DEF Items
<1>6. Len(payload) \in Nat
  BY <1>1, LenProperties
<1>7. 1..Len(payload) + 1 = 1..Len(payload) \cup {Len(payload) + 1}
  BY <1>6
<1> QED BY <1>3, <1>4, <1>5, <1>6, <1>7 DEF New, Numbers

LEMMA PayloadReplaced ==
  ASSUME payload \in Seq(Items(payload)), NEW t \in Numbers, NEW p,
         payload' = [payload EXCEPT ![t] = p]
  PROVE  /\ payload' \in Seq(Items(payload)')
         /\ Len(payload') = Len(payload) /\ Numbers' = Numbers
         /\ \A u \in Numbers \ {t} : payload'[u] = payload[u]
         /\ payload'[t] = p
<1> DEFINE S == Items(payload) \cup {p}
<1>1. payload \in Seq(S)
  <2>1. Items(payload) \subseteq S
    OBVIOUS
  <2> HIDE DEF S
  <2> QED BY <2>1
<1>2. p \in S
  OBVIOUS
<1> HIDE DEF S
<1>3. DOMAIN payload = Numbers
  BY <1>1, LenProperties DEF Numbers
<1>4. payload' \in Seq(S) /\ Len(payload') = Len(payload)
  BY <1>1, <1>2, ExceptSeq DEF Numbers
<1>5. payload' \in Seq(Items(payload'))
  BY <1>4, SeqOfItems
<1>6. Items(payload)' = Items(payload')
  BY DEF Items
<1> QED BY <1>3, <1>4, <1>5, <1>6 DEF Numbers
--------------------------------------------------------------------------------
(* The books when a request is opened and when it is closed. *)
Counted ==
    \A l \in Loc : /\ read_pending[l] = Cardinality(OpenAt(l, TRUE))
                   /\ write_pending[l] = Cardinality(OpenAt(l, FALSE))
Exclusive ==
    \A l \in Loc : write_pending[l] = 0 \/ (write_pending[l] = 1 /\ read_pending[l] = 0)

LEMMA BooksParts ==
  /\ BooksRight <=> Counted /\ Exclusive
  /\ BooksRight' <=> Counted' /\ Exclusive'
BY DEF BooksRight, Counted, Exclusive

LEMMA BooksOpened ==
  ASSUME Places, Books, NEW t, t \notin Open, NEW p, Fresh(p), Opened(p),
         Open' = Open \cup {t}, \A u \in Open : payload'[u] = payload[u],
         payload'[t].read = p.read, Words(payload'[t]) = Words(p)
  PROVE  Books'
<1> DEFINE Reads == IF p.read THEN Words(p) ELSE {}
           Writes == IF p.read THEN {} ELSE Words(p)
<1>1. /\ p.read \in BOOLEAN
      /\ read_pending \in [Loc -> Nat] /\ write_pending \in [Loc -> Nat]
      /\ Counted /\ Exclusive
  BY BooksParts DEF Fresh, Proper, Books
<1>2. /\ read_pending' = [l \in Loc |-> IF l \in Reads THEN read_pending[l] + 1
                                         ELSE read_pending[l]]
      /\ write_pending' = [l \in Loc |-> IF l \in Writes THEN write_pending[l] + 1
                                          ELSE write_pending[l]]
  <2>1. CASE p.read
    BY <1>1, <2>1 DEF Opened, Count
  <2>2. CASE ~p.read
    BY <1>1, <2>2 DEF Opened, Count
  <2> QED BY <1>1, <2>1, <2>2
<1>3. ASSUME NEW l \in Loc
      PROVE  /\ OpenAt(l, TRUE)' = IF l \in Reads THEN OpenAt(l, TRUE) \cup {t} ELSE OpenAt(l, TRUE)
             /\ OpenAt(l, FALSE)' =
                    IF l \in Writes THEN OpenAt(l, FALSE) \cup {t} ELSE OpenAt(l, FALSE)
             /\ t \notin OpenAt(l, TRUE) /\ t \notin OpenAt(l, FALSE)
  <2>1. CASE p.read
    BY <2>1 DEF OpenAt
  <2>2. CASE ~p.read
    BY <1>1, <2>2 DEF OpenAt
  <2> QED BY <2>1, <2>2
<1>4. ASSUME NEW l \in Loc, l \in Reads \/ l \in Writes
      PROVE  write_pending[l] = 0 /\ (l \in Writes => read_pending[l] = 0 /\ l \notin Reads)
  BY <1>1, <1>4 DEF Fresh, Free, Usable
<1> HIDE DEF Reads, Writes
<1>5. ASSUME NEW l \in Loc
      PROVE  /\ read_pending'[l] = Cardinality(OpenAt(l, TRUE)')
             /\ read_pending'[l] \in Nat
  <2> DEFINE S == OpenAt(l, TRUE)
             T == OpenAt(l, TRUE)'
  <2>1. IsFiniteSet(S) /\ read_pending[l] = Cardinality(S) /\ read_pending[l] \in Nat
    BY <1>1, OpenFinite DEF Counted
  <2>2. T = (IF l \in Reads THEN S \cup {t} ELSE S) /\ t \notin S
    BY <1>3
  <2>3. read_pending'[l] = IF l \in Reads THEN read_pending[l] + 1 ELSE read_pending[l]
    BY <1>2
  <2> HIDE DEF S, T
  <2>4. Cardinality(S \cup {t}) = Cardinality(S) + 1
    BY <2>1, <2>2, FS_AddElement
  <2>5. read_pending'[l] = Cardinality(T) /\ read_pending'[l] \in Nat
    BY <2>1, <2>2, <2>3, <2>4
  <2> QED BY <2>5 DEF T
<1>6. ASSUME NEW l \in Loc
      PROVE  /\ write_pending'[l] = Cardinality(OpenAt(l, FALSE)')
             /\ write_pending'[l] \in Nat
  <2> DEFINE S == OpenAt(l, FALSE)
             T == OpenAt(l, FALSE)'
  <2>1. IsFiniteSet(S) /\ write_pending[l] = Cardinality(S) /\ write_pending[l] \in Nat
    BY <1>1, OpenFinite DEF Counted
  <2>2. T = (IF l \in Writes THEN S \cup {t} ELSE S) /\ t \notin S
    BY <1>3
  <2>3. write_pending'[l] = IF l \in Writes THEN write_pending[l] + 1 ELSE write_pending[l]
    BY <1>2
  <2> HIDE DEF S, T
  <2>4. Cardinality(S \cup {t}) = Cardinality(S) + 1
    BY <2>1, <2>2, FS_AddElement
  <2>5. write_pending'[l] = Cardinality(T) /\ write_pending'[l] \in Nat
    BY <2>1, <2>2, <2>3, <2>4
  <2> QED BY <2>5 DEF T
<1>7. ASSUME NEW l \in Loc
      PROVE  write_pending'[l] = 0 \/ (write_pending'[l] = 1 /\ read_pending'[l] = 0)
  <2>1. write_pending[l] = 0 \/ (write_pending[l] = 1 /\ read_pending[l] = 0)
    BY <1>1 DEF Exclusive
  <2>2. read_pending[l] \in Nat /\ write_pending[l] \in Nat
    BY <1>1
  <2> QED BY <1>2, <1>4, <2>1, <2>2
<1>8. Counted' /\ Exclusive'
  BY <1>5, <1>6, <1>7 DEF Counted, Exclusive
<1>9. read_pending' \in [Loc -> Nat] /\ write_pending' \in [Loc -> Nat]
  BY <1>2, <1>5, <1>6
<1> QED BY <1>8, <1>9, BooksParts DEF Books

LEMMA BooksClosed ==
  ASSUME Places, Books, Records, NEW t \in Open, Complete(t),
         Open' = Open \ {t}, \A u \in Open \ {t} : payload'[u] = payload[u]
  PROVE  Books'
<1> DEFINE p == payload[t]
           Reads == IF p.read THEN Words(p) ELSE {}
           Writes == IF p.read THEN {} ELSE Words(p)
<1>1. /\ p.read \in BOOLEAN
      /\ read_pending \in [Loc -> Nat] /\ write_pending \in [Loc -> Nat]
      /\ Counted /\ Exclusive
  BY BooksParts DEF Records, Proper, Books
<1>2. /\ read_pending' = [l \in Loc |-> IF l \in Reads THEN read_pending[l] - 1
                                         ELSE read_pending[l]]
      /\ write_pending' = [l \in Loc |-> IF l \in Writes THEN write_pending[l] - 1
                                          ELSE write_pending[l]]
  <2>1. CASE p.read
    BY <1>1, <2>1 DEF Complete, Count
  <2>2. CASE ~p.read
    BY <1>1, <2>2 DEF Complete, Count
  <2> QED BY <1>1, <2>1, <2>2
<1>3. ASSUME NEW l \in Loc
      PROVE  /\ OpenAt(l, TRUE)' = OpenAt(l, TRUE) \ {t}
             /\ OpenAt(l, FALSE)' = OpenAt(l, FALSE) \ {t}
             /\ t \in OpenAt(l, TRUE) <=> l \in Reads
             /\ t \in OpenAt(l, FALSE) <=> l \in Writes
  <2>1. CASE p.read
    BY <2>1 DEF OpenAt
  <2>2. CASE ~p.read
    BY <1>1, <2>2 DEF OpenAt
  <2> QED BY <2>1, <2>2
<1> HIDE DEF p, Reads, Writes
<1>4. ASSUME NEW S, IsFiniteSet(S)
      PROVE  /\ Cardinality(S \ {t}) = IF t \in S THEN Cardinality(S) - 1 ELSE Cardinality(S)
             /\ Cardinality(S \ {t}) \in Nat
  <2>1. IsFiniteSet(S \ {t})
    BY <1>4, FS_Subset
  <2>2. Cardinality(S \ {t}) \in Nat
    BY <2>1, FS_CardinalityType
  <2>3. CASE t \in S
    BY <1>4, <2>2, <2>3, FS_RemoveElement
  <2>4. CASE t \notin S
    <3>1. S \ {t} = S
      BY <2>4
    <3> QED BY <2>2, <2>4, <3>1
  <2> QED BY <2>3, <2>4
<1>5. ASSUME NEW l \in Loc
      PROVE  /\ read_pending'[l] = Cardinality(OpenAt(l, TRUE)')
             /\ read_pending'[l] \in Nat /\ read_pending'[l] <= read_pending[l]
  <2> DEFINE S == OpenAt(l, TRUE)
             T == OpenAt(l, TRUE)'
  <2>1. IsFiniteSet(S) /\ read_pending[l] = Cardinality(S) /\ read_pending[l] \in Nat
    BY <1>1, OpenFinite DEF Counted
  <2>2. T = S \ {t} /\ (t \in S <=> l \in Reads)
    BY <1>3
  <2>3. read_pending'[l] = IF l \in Reads THEN read_pending[l] - 1 ELSE read_pending[l]
    BY <1>2
  <2> HIDE DEF S, T
  <2>4. /\ Cardinality(T) = IF t \in S THEN Cardinality(S) - 1 ELSE Cardinality(S)
        /\ Cardinality(T) \in Nat
    BY <1>4, <2>1, <2>2
  <2>5. /\ read_pending'[l] = Cardinality(T) /\ read_pending'[l] \in Nat
        /\ read_pending'[l] <= read_pending[l]
    BY <2>1, <2>2, <2>3, <2>4
  <2> QED BY <2>5 DEF T
<1>6. ASSUME NEW l \in Loc
      PROVE  /\ write_pending'[l] = Cardinality(OpenAt(l, FALSE)')
             /\ write_pending'[l] \in Nat /\ write_pending'[l] <= write_pending[l]
  <2> DEFINE S == OpenAt(l, FALSE)
             T == OpenAt(l, FALSE)'
  <2>1. IsFiniteSet(S) /\ write_pending[l] = Cardinality(S) /\ write_pending[l] \in Nat
    BY <1>1, OpenFinite DEF Counted
  <2>2. T = S \ {t} /\ (t \in S <=> l \in Writes)
    BY <1>3
  <2>3. write_pending'[l] = IF l \in Writes THEN write_pending[l] - 1 ELSE write_pending[l]
    BY <1>2
  <2> HIDE DEF S, T
  <2>4. /\ Cardinality(T) = IF t \in S THEN Cardinality(S) - 1 ELSE Cardinality(S)
        /\ Cardinality(T) \in Nat
    BY <1>4, <2>1, <2>2
  <2>5. /\ write_pending'[l] = Cardinality(T) /\ write_pending'[l] \in Nat
        /\ write_pending'[l] <= write_pending[l]
    BY <2>1, <2>2, <2>3, <2>4
  <2> QED BY <2>5 DEF T
<1>7. ASSUME NEW l \in Loc
      PROVE  write_pending'[l] = 0 \/ (write_pending'[l] = 1 /\ read_pending'[l] = 0)
  <2>1. write_pending[l] = 0 \/ (write_pending[l] = 1 /\ read_pending[l] = 0)
    BY <1>1 DEF Exclusive
  <2>2. read_pending[l] \in Nat /\ write_pending[l] \in Nat
    BY <1>1
  <2>3. write_pending'[l] \in Nat /\ write_pending'[l] <= write_pending[l]
        /\ read_pending'[l] \in Nat /\ read_pending'[l] <= read_pending[l]
    BY <1>5, <1>6, Zenon
  <2> QED BY <2>1, <2>2, <2>3
<1>8. Counted' /\ Exclusive'
  BY <1>5, <1>6, <1>7 DEF Counted, Exclusive
<1>9. read_pending' \in [Loc -> Nat] /\ write_pending' \in [Loc -> Nat]
  BY <1>2, <1>5, <1>6
<1> QED BY <1>8, <1>9, BooksParts DEF Books
--------------------------------------------------------------------------------
(* What the abstract test sees of a request. *)
View(p) == [read |-> p.read, words |-> Words(p), strb |-> p.strb, data |-> p.data]

LEMMA WordsType == ASSUME NEW p, Proper(p) PROVE Words(p) \subseteq Loc
BY Constants DEF Words, Proper, Loc

LEMMA ViewType ==
  ASSUME NEW p, Proper(p)
  PROVE  View(p) \in Test_!Request /\ Test_!Valid(View(p))
<1>1. Words(p) \subseteq Loc /\ p.strb \subseteq Loc /\ p.read \in BOOLEAN
      /\ p.data \in Word
  BY WordsType DEF Proper, Word
<1>2. p.strb \subseteq Words(p) /\ (p.read => p.strb = {})
  BY DEF Proper
<1> QED BY <1>1, <1>2 DEF View, Test_!Request, Test_!Valid

LEMMA AnsweredFields ==
  ASSUME NEW p, Proper(p), NEW o \in Path!Outcomes(p)
  PROVE  LET a == Answered(p, o)
         IN  /\ Proper(a) /\ a.status = o /\ View(a) = View(p)
             /\ a.read = p.read /\ a.index = p.index /\ a.length = p.length
             /\ Words(a) = Words(p)
             /\ p.read /\ o = "OK" => a.result = Path!Fetch(p)
<1> DEFINE a == Answered(p, o)
<1>1. /\ DOMAIN a = Fields /\ a.status = o
      /\ a.read = p.read /\ a.index = p.index /\ a.length = p.length
      /\ a.strb = p.strb /\ a.data = p.data
      /\ p.read /\ o = "OK" => a.result = Path!Fetch(p)
  BY DEF Answered, Proper, Fields
<1>2. o \in Statuses
  BY OutcomesType
<1> HIDE DEF a
<1>3. Words(a) = Words(p)
  BY <1>1 DEF Words
<1>4. Proper(a)
  BY <1>1, <1>2, <1>3 DEF Proper
<1>5. View(a) = View(p)
  BY <1>1, <1>3 DEF View
<1> QED BY <1>1, <1>3, <1>4, <1>5 DEF a

(* A step of one request changes the view of that one only. *)
Others(t) ==
    \A u \in Txn \ {t} : (u \in Open' <=> u \in Open) /\ (u \in Open => payload'[u] = payload[u])

LEMMA ViewsChange ==
  ASSUME NEW t \in Txn, Others(t)
  PROVE  /\ Asked' = [Asked EXCEPT ![t] = Abstract(t)']
         /\ Answers' = [Answers EXCEPT ![t] = Status(t)']
         /\ Got' = [Got EXCEPT ![t] = Returned(t)']
<1>1. ASSUME NEW u \in Txn \ {t}
      PROVE  Abstract(u)' = Abstract(u) /\ Status(u)' = Status(u) /\ Returned(u)' = Returned(u)
  <2>1. (u \in Open' <=> u \in Open) /\ (u \in Open => payload'[u] = payload[u])
    BY DEF Others
  <2>2. Abstract(u)' = Abstract(u)
    BY <2>1 DEF Abstract, Words
  <2>3. Status(u)' = Status(u)
    BY <2>1 DEF Status
  <2>4. Returned(u)' = Returned(u)
    <3>1. CASE u \in Open
      BY <2>1, <2>3, <3>1 DEF Returned, Words
    <3>2. CASE u \notin Open
      <4>1. Status(u) = "none"
        BY <3>2 DEF Status
      <4>2. Status(u)' = "none"
        BY <2>3, <4>1
      <4> QED BY <4>1, <4>2 DEF Returned
    <3> QED BY <3>1, <3>2
  <2> QED BY <2>2, <2>3, <2>4
<1>2. Asked' = [Asked EXCEPT ![t] = Abstract(t)']
  BY <1>1 DEF Asked
<1>3. Answers' = [Answers EXCEPT ![t] = Status(t)']
  BY <1>1 DEF Answers
<1>4. Got' = [Got EXCEPT ![t] = Returned(t)']
  BY <1>1 DEF Got
<1> QED BY <1>2, <1>3, <1>4

(* The memory serves a request, or has not yet. *)
LEMMA ServedRefined ==
  ASSUME Contents, NEW t \in Txn, Others(t), Status(t) = "none", t \in Open',
         NEW p, Proper(p), NEW o \in Path!Outcomes(p),
         Path!BTransport(p, o), payload'[t] = Answered(p, o)
  PROVE  /\ Abstract(t)' = View(p)
         /\ \E a \in {"ok", "failed"} : Test_!Served(t, View(p), a)
<1> DEFINE a == IF o = "OK" THEN "ok" ELSE "failed"
           r == View(p)
<1>1. /\ payload'[t].status = o /\ View(payload'[t]) = View(p)
      /\ payload'[t].read = p.read /\ Words(payload'[t]) = Words(p)
      /\ p.read /\ o = "OK" => payload'[t].result = Path!Fetch(p)
      /\ o \in {"OK", "ADDRESS_ERROR", "GENERIC_ERROR"}
  BY AnsweredFields, OutcomesType DEF Statuses
<1>2. Abstract(t)' = View(p)
  BY <1>1 DEF Abstract, View, Words
<1>3. Status(t)' = a
  BY <1>1 DEF Status
<1>4. Returned(t) = [l \in Loc |-> Garbage]
  BY DEF Returned
<1>5. Returned(t)' = IF o = "OK" /\ p.read THEN Test_!Fetched(r) ELSE [l \in Loc |-> Garbage]
  <2>1. CASE o = "OK" /\ p.read
    <3>1. \A l \in Words(p) : l \in Path!Region(p) <=> l \in Loc
      BY DEF Path!Region, Words, Proper
    <3>2. \A l \in Words(p) \cap Loc : payload'[t].result[l] = mem[l]
      BY <1>1, <2>1, <3>1 DEF Path!Fetch
    <3>3. Returned(t)' = [l \in Loc |-> IF l \in Words(p) THEN payload'[t].result[l] ELSE Garbage]
      BY <1>1, <1>3, <2>1 DEF Returned, Words
    <3> QED BY <2>1, <3>2, <3>3 DEF Test_!Fetched, View
  <2>2. CASE ~(o = "OK" /\ p.read)
    BY <1>1, <1>3, <2>2 DEF Returned
  <2> QED BY <2>1, <2>2
<1>6. \/ a = "ok" /\ mem' = Test_!Written(r, r.strb)
      \/ a = "failed" /\ \E part \in SUBSET r.strb : mem' = Test_!Written(r, part)
  <2>1. mem = Test_!Written(r, {})
    BY DEF Test_!Written, Contents
  <2>2. r.strb = p.strb /\ r.data = p.data /\ (p.read => p.strb = {})
    BY DEF View, Proper
  <2>3. CASE o = "OK" /\ ~p.read
    <3>1. mem' = Test_!Written(r, r.strb)
      BY <2>2, <2>3 DEF Path!BTransport, Path!Store, Test_!Written
    <3> QED BY <2>3, <3>1
  <2>4. CASE o = "OK" /\ p.read
    <3>1. mem' = mem
      BY <2>4 DEF Path!BTransport
    <3> QED BY <2>1, <2>2, <2>4, <3>1
  <2>5. CASE o # "OK"
    <3>1. mem' = mem
      BY <2>5 DEF Path!BTransport
    <3> QED BY <2>1, <2>5, <3>1
  <2> QED BY <2>3, <2>4, <2>5
<1>7. r.read = p.read
  BY DEF View
<1> HIDE DEF r
<1>8. Test_!Served(t, r, a)
  <2>1. Answers' = [Answers EXCEPT ![t] = a]
    BY <1>3, ViewsChange
  <2>2. Got' = IF a = "ok" /\ r.read THEN [Got EXCEPT ![t] = Test_!Fetched(r)] ELSE Got
    <3>1. Got' = [Got EXCEPT ![t] = Returned(t)']
      BY ViewsChange
    <3>2. CASE o = "OK" /\ p.read
      BY <1>5, <1>7, <3>1, <3>2
    <3>3. CASE ~(o = "OK" /\ p.read)
      <4>1. Got' = [Got EXCEPT ![t] = Returned(t)]
        BY <1>4, <1>5, <3>1, <3>3
      <4>2. [Got EXCEPT ![t] = Returned(t)] = Got
        BY DEF Got
      <4> QED BY <1>7, <3>3, <4>1, <4>2
    <3> QED BY <3>2, <3>3
  <2> HIDE DEF a
  <2> QED BY <1>6, <2>1, <2>2 DEF Test_!Served
<1> QED BY <1>2, <1>8 DEF r

LEMMA UnservedRefined ==
  ASSUME NEW t \in Txn, Others(t), Status(t) = "none", t \in Open',
         payload'[t].status = "INCOMPLETE", mem' = mem
  PROVE  Abstract(t)' = View(payload'[t]) /\ Test_!Served(t, View(payload'[t]), "none")
<1>1. Abstract(t)' = View(payload'[t])
  BY DEF Abstract, View, Words
<1>2. Status(t)' = Status(t)
  BY DEF Status
<1>3. Returned(t)' = Returned(t)
  BY <1>2 DEF Returned
<1>4. Answers' = [Answers EXCEPT ![t] = "none"] /\ Got' = Got
  <2>1. Answers' = [Answers EXCEPT ![t] = Status(t)'] /\ Got' = [Got EXCEPT ![t] = Returned(t)']
    BY ViewsChange
  <2>2. [Got EXCEPT ![t] = Returned(t)] = Got
    BY DEF Got
  <2> QED BY <1>2, <1>3, <2>1, <2>2
<1>5. Test_!Served(t, View(payload'[t]), "none")
  BY <1>4 DEF Test_!Served
<1> QED BY <1>1, <1>5

LEMMA OpenType == ASSUME Lists PROVE Open \subseteq Txn
<1>1. \A x \in Socket : Items(mots[x]) \subseteq Txn
  <2> SUFFICES ASSUME NEW x \in Socket PROVE Items(mots[x]) \subseteq Txn
    OBVIOUS
  <2>1. mots[x] \in Seq(Txn)
    BY DEF Lists
  <2> QED BY <2>1, ItemsType
<1> QED BY <1>1, OpenIsListed

(* Issuing a request opens it. *)
LEMMA OpenRefined ==
  ASSUME Places, Books, Records, NEW t \in Txn, t \notin Open, NEW p, Fresh(p), Opened(p),
         Open' = Open \cup {t}, \A u \in Open : payload'[u] = payload[u],
         Abstract(t)' = View(p),
         NEW a \in {"none", "ok", "failed"}, Test_!Served(t, View(p), a)
  PROVE  Test_!Next
<1> DEFINE r == View(p)
<1>1. r \in Test_!Request /\ Test_!Valid(r)
  BY ViewType DEF Fresh
<1>2. ASSUME NEW u \in Open PROVE ~Test_!Conflict(r, Asked[u])
  <2> DEFINE q == payload[u]
  <2>1. u \in Txn /\ Asked[u] = View(q) /\ q.read \in BOOLEAN /\ p.read \in BOOLEAN
    BY OpenType DEF Places, Records, Proper, Asked, Abstract, View, Fresh
  <2>2. SUFFICES ASSUME ~p.read \/ ~q.read, NEW l \in Words(p), l \in Words(q)
                 PROVE  FALSE
    BY <2>1 DEF Test_!Conflict, View
  <2>3. l \in Loc /\ Usable(l, p.read)
    BY <2>2 DEF Fresh, Free
  <2>4. OpenAt(l, FALSE) = {} /\ (~p.read => OpenAt(l, TRUE) = {})
    BY <2>3, PendingCounts DEF Usable
  <2>5. CASE q.read
    BY <2>2, <2>4, <2>5 DEF OpenAt
  <2>6. CASE ~q.read
    <3>1. q.read = FALSE
      BY <2>1, <2>6
    <3> QED BY <2>2, <2>4, <3>1 DEF OpenAt
  <2> QED BY <2>5, <2>6
<1>3. r.read => r.words \subseteq init_done
  BY DEF View, Fresh, Free, Usable
<1>4. Asked' = [Asked EXCEPT ![t] = r]
  <2>1. Others(t)
    BY DEF Others
  <2> QED BY <2>1, ViewsChange
<1>5. UNCHANGED <<mem_array, init_done, miscompare>>
  BY DEF Opened
<1> HIDE DEF r
<1>6. Test_!Open(t, r)
  BY <1>1, <1>2, <1>3, <1>4, <1>5 DEF Test_!Open, r
<1> QED BY <1>1, <1>6 DEF Test_!Next

(* Completing and releasing one closes it. *)
LEMMA CloseRefined ==
  ASSUME Places, Records, NEW t \in Open, t \notin Queued(fw_queue), Complete(t),
         Open' = Open \ {t}, \A u \in Open \ {t} : payload'[u] = payload[u], mem' = mem
  PROVE  Test_!Next
<1> DEFINE p == payload[t]
<1>1. t \in Txn /\ Proper(p) /\ p.status # "INCOMPLETE" /\ Words(p) \subseteq Loc
  BY OpenType, WordsType DEF Places, Records
<1>2. Asked[t] = View(p) /\ Answers[t] = (IF p.status = "OK" THEN "ok" ELSE "failed")
      /\ Got[t] = Returned(t)
  BY <1>1 DEF Asked, Answers, Got, Abstract, View, Status
<1>3. /\ Asked' = [Asked EXCEPT ![t] = Test_!NoRequest]
      /\ Answers' = [Answers EXCEPT ![t] = "none"]
      /\ Got' = [Got EXCEPT ![t] = Test_!Nothing]
  <2>1. Others(t)
    BY DEF Others
  <2>2. Abstract(t)' = Test_!NoRequest /\ Status(t)' = "none" /\ Returned(t)' = Test_!Nothing
    BY DEF Abstract, Status, Returned, Test_!NoRequest, Test_!Nothing
  <2> QED BY <1>1, <2>1, <2>2, ViewsChange
<1>4. p.read /\ p.status = "OK" => \A l \in Words(p) : Got[t][l] = p.result[l]
  <2> SUFFICES ASSUME p.read, p.status = "OK", NEW l \in Words(p) PROVE Got[t][l] = p.result[l]
    OBVIOUS
  <2>1. Status(t) = "ok" /\ l \in Loc
    BY <1>1 DEF Status
  <2> QED BY <1>2, <2>1 DEF Returned
<1> DEFINE r == Asked[t]
<1>5. r.read = p.read /\ r.words = Words(p) /\ r.strb = p.strb /\ r.data = p.data
  BY <1>2 DEF View
<1>6. HasStrobes(p) <=> (~p.read /\ p.strb # Words(p))
  BY DEF HasStrobes
<1>7. IF r.read THEN UNCHANGED <<mem_array, init_done>>
      ELSE IF Answers[t] = "failed" THEN init_done' = init_done \ r.words /\ UNCHANGED mem_array
      ELSE /\ mem_array' = [l \in Loc |-> IF l \in r.strb THEN r.data ELSE mem_array[l]]
           /\ init_done' = IF r.strb = r.words THEN init_done \cup r.words ELSE init_done
  <2> HIDE DEF r
  <2>1. CASE p.read
    BY <1>5, <2>1 DEF Complete
  <2>2. CASE ~p.read /\ p.status = "OK"
    BY <1>2, <1>5, <1>6, <2>2 DEF Complete
  <2>3. CASE ~p.read /\ p.status # "OK"
    BY <1>2, <1>5, <2>3 DEF Complete
  <2> QED BY <2>1, <2>2, <2>3
<1>8. miscompare' = (miscompare \/ (r.read /\ Answers[t] = "ok"
                        /\ \E l \in r.words : Got[t][l] # mem_array[l]))
  <2> HIDE DEF r
  <2>1. miscompare' = (miscompare \/ (p.read /\ p.status = "OK"
                          /\ \E l \in Words(p) : p.result[l] # mem_array[l]))
    BY DEF Complete
  <2>2. Answers[t] = "ok" <=> p.status = "OK"
    BY <1>2
  <2> QED BY <1>4, <1>5, <2>1, <2>2
<1>9. Answers[t] # "none"
  BY <1>2
<1> HIDE DEF p
<1>10. Test_!Close(t)
  BY <1>3, <1>7, <1>8, <1>9 DEF Test_!Close
<1> QED BY <1>1, <1>10 DEF Test_!Next
--------------------------------------------------------------------------------
(* The initiator, whose requests never wait: what is left of its calls.    *)
Plain ==
    /\ launch_queue = <<>> /\ launch_outstanding = FALSE /\ launch_event = FALSE
    /\ aborted = FALSE
    /\ complete_queue \subseteq done_local
    /\ done_time \in [Txn -> Nat]

LEMMA OneCall ==
  ASSUME Plain, NEW t, NEW reply,
         ~Initiator!Blocked(reply), Initiator!Launch(t, <<reply>>)
  PROVE  LET answered == IF Initiator!Answered(reply) THEN {t} ELSE {}
         IN  /\ launch_queue' = <<>> /\ launch_outstanding' = FALSE
             /\ launch_event' = FALSE /\ aborted' = FALSE
             /\ Initiator!CompleteLocal(answered, [u \in answered |-> reply.delay],
                                        outstanding \cup {t})
<1> DEFINE queue == Append(launch_queue, t)
           replies == <<reply>>
<1>1. queue = <<t>> /\ Len(queue) = 1 /\ queue[1] = t /\ Len(replies) = 1 /\ replies[1] = reply
  BY DEF Plain
<1>2. Initiator!LaunchUpdate(queue, outstanding \cup {t}, replies)
      /\ launch_event' = launch_event /\ aborted' = aborted
  BY DEF Initiator!Launch, Plain
<1> DEFINE answered == {queue[i] : i \in {k \in 1..1 : Initiator!Answered(replies[k])}}
           call(u) == CHOOSE i \in 1..1 : queue[i] = u
<1>3. /\ launch_queue' = SubSeq(queue, 2, 1) /\ launch_outstanding' = FALSE
      /\ Initiator!CompleteLocal(answered, [u \in answered |-> replies[call(u)].delay],
                                 outstanding \cup {t})
  <2> HIDE DEF queue, replies
  <2>1. ~Initiator!Blocked(replies[Len(replies)]) /\ Len(replies) + 0 = 1
    BY <1>1
  <2> QED BY <1>1, <1>2, <2>1 DEF Initiator!LaunchUpdate
<1>4. SubSeq(queue, 2, 1) = <<>>
  BY <1>1
<1>5. answered = IF Initiator!Answered(reply) THEN {t} ELSE {}
  <2>1. 1..1 = {1}
    OBVIOUS
  <2> HIDE DEF queue, replies
  <2> QED BY <1>1, <2>1
<1>6. \A u \in answered : replies[call(u)].delay = reply.delay
  <2> HIDE DEF queue, replies
  <2>1. \A i \in 1..1 : i = 1
    OBVIOUS
  <2>2. \A u \in answered : u = t /\ call(u) = 1
    BY <1>1, <1>5, <2>1
  <2> QED BY <1>1, <2>2
<1>7. [u \in answered |-> replies[call(u)].delay] = [u \in answered |-> reply.delay]
  BY <1>6
<1> HIDE DEF answered, call
<1> QED BY <1>2, <1>3, <1>4, <1>5, <1>7 DEF Plain

LEMMA CalledThrough ==
  ASSUME Plain, now \in Nat, NEW t \in Txn, t \notin outstanding \cup done_local, NEW d \in Nat,
         Initiator!Launch(t, <<Reply("completed", "BEGIN_RESP", d)>>)
  PROVE  /\ Plain' /\ Awaited' = Awaited
         /\ outstanding' \cup done_local' = (outstanding \cup done_local) \cup {t}
         /\ done_local \subseteq done_local'
<1> DEFINE reply == Reply("completed", "BEGIN_RESP", d)
           open == outstanding \cup {t}
           delay == [u \in {t} |-> d]
<1>1. reply.sync = "completed" /\ reply.phase = "BEGIN_RESP" /\ reply.delay = d
  BY DEF Reply
<1> HIDE DEF reply
<1>2. ~Initiator!Blocked(reply) /\ Initiator!Answered(reply)
  BY <1>1 DEF Initiator!Blocked, Initiator!Answered
<1>3. /\ launch_queue' = <<>> /\ launch_outstanding' = FALSE
      /\ launch_event' = FALSE /\ aborted' = FALSE
      /\ Initiator!CompleteLocal({t}, delay, open)
  BY <1>1, <1>2, OneCall DEF reply
<1>4. delay[t] = d
  OBVIOUS
<1> HIDE DEF delay, open
<1> DEFINE final == {u \in {t} : delay[u] = 0}
<1>5. /\ done_local' = done_local \cup {t}
      /\ done_time' = [u \in Txn |-> IF u \in {t} THEN now + delay[u] ELSE done_time[u]]
      /\ outstanding' = open \ final
      /\ complete_queue' = complete_queue \cup ({t} \ final)
  BY <1>3 DEF Initiator!CompleteLocal
<1>6. done_time' \in [Txn -> Nat]
  BY <1>4, <1>5 DEF Plain
<1>7. final \subseteq {t}
  OBVIOUS
<1> HIDE DEF final
<1>8. complete_queue' \subseteq done_local'
  BY <1>5 DEF Plain
<1> QED BY <1>3, <1>5, <1>6, <1>7, <1>8 DEF Plain, Awaited, open

LEMMA CalledAccepted ==
  ASSUME Plain, now \in Nat, NEW t \in Txn, t \notin outstanding \cup done_local, NEW d,
         Initiator!Launch(t, <<Reply("updated", "END_REQ", d)>>)
  PROVE  /\ Plain' /\ Awaited' = Awaited \cup {t}
         /\ outstanding' \cup done_local' = (outstanding \cup done_local) \cup {t}
         /\ done_local' = done_local
<1> DEFINE reply == Reply("updated", "END_REQ", d)
           open == outstanding \cup {t}
           delay == [u \in {} |-> d]
<1>1. reply.sync = "updated" /\ reply.phase = "END_REQ" /\ reply.delay = d
  BY DEF Reply
<1> HIDE DEF reply
<1>2. ~Initiator!Blocked(reply) /\ ~Initiator!Answered(reply)
  BY <1>1 DEF Initiator!Blocked, Initiator!Answered
<1>3. /\ launch_queue' = <<>> /\ launch_outstanding' = FALSE
      /\ launch_event' = FALSE /\ aborted' = FALSE
      /\ Initiator!CompleteLocal({}, delay, open)
  BY <1>1, <1>2, OneCall DEF reply
<1> HIDE DEF delay
<1>4. /\ done_local' = done_local /\ done_time' = [u \in Txn |-> done_time[u]]
      /\ outstanding' = open /\ complete_queue' = complete_queue
  BY <1>3 DEF Initiator!CompleteLocal
<1> QED BY <1>3, <1>4 DEF Plain, Awaited

LEMMA ResponseTaken ==
  ASSUME Plain, now \in Nat, NEW t \in Txn, t \in Awaited,
         Initiator!TransportBw(t, "BEGIN_RESP", 0)
  PROVE  /\ Plain' /\ Awaited' = Awaited \ {t}
         /\ outstanding' \cup done_local' = outstanding \cup done_local
         /\ done_local \subseteq done_local'
<1> DEFINE delay == [u \in {t} |-> 0]
           final == {u \in {t} : delay[u] = 0}
<1>1. /\ launch_queue' = <<>> /\ launch_outstanding' = FALSE
      /\ launch_event' = FALSE /\ aborted' = FALSE
      /\ Initiator!CompleteLocal({t}, delay, outstanding)
  BY DEF Initiator!TransportBw, Plain
<1>2. delay[t] = 0 /\ final = {t}
  OBVIOUS
<1> HIDE DEF delay
<1>3. /\ done_local' = done_local \cup {t}
      /\ done_time' = [u \in Txn |-> IF u \in {t} THEN now + delay[u] ELSE done_time[u]]
      /\ outstanding' = outstanding \ final
      /\ complete_queue' = complete_queue \cup ({t} \ final)
  BY <1>1 DEF Initiator!CompleteLocal
<1> HIDE DEF final
<1>4. done_time' \in [Txn -> Nat]
  BY <1>2, <1>3 DEF Plain
<1> QED BY <1>1, <1>2, <1>3, <1>4 DEF Plain, Awaited

LEMMA FinishedLater ==
  ASSUME Plain, Initiator!CompleteMethod
  PROVE  /\ Plain' /\ Awaited' = Awaited
         /\ outstanding' \cup done_local' = outstanding \cup done_local
BY DEF Initiator!CompleteMethod, Initiator!Due, Plain, Awaited
--------------------------------------------------------------------------------
(* The ways of the requests.  A step about t leaves those of others alone. *)
LEMMA EntryType ==
  ASSUME now \in Nat, NEW t \in Txn, NEW id \in {0, 1}, NEW d \in Nat
  PROVE  /\ Path!Entry(t, id, d) \in Carried
         /\ Path!Entry(t, id, d).trans = t /\ Path!Entry(t, id, d).socket = id
BY DEF Path!Entry, Carried

SourcesOfOthers(t) ==
    /\ \A r \in sources' : r \in sources \/ r[1] = t
    /\ \A r \in sources : r[1] # t => r \in sources'

LEMMA WayKept ==
  ASSUME Places, sockets' = sockets, NEW t, SourcesOfOthers(t),
         NEW e \in Carried, e.trans # t, KnowsWay(e),
         \A x \in Socket : OfSocket(e.trans, x) => OfSocket(e.trans, x)'
  PROVE  KnowsWay(e)'
<1>1. 0 \in Socket /\ Socket' = Socket /\ e.socket \in {0, 1}
  BY DEF Places, Socket, Carried
<1>2. CASE e.socket = 0
  <2>1. OfSocket(e.trans, 0) /\ \A r \in sources : r[1] # e.trans
    BY <1>2 DEF KnowsWay
  <2>2. OfSocket(e.trans, 0)'
    BY <1>1, <2>1
  <2>3. \A r \in sources' : r[1] # e.trans
    BY <2>1 DEF SourcesOfOthers
  <2> QED BY <1>2, <2>2, <2>3 DEF KnowsWay
<1>3. CASE e.socket # 0
  <2>1. PICK s \in {0, 1} \cap Socket : <<e.trans, s>> \in sources /\ OfSocket(e.trans, s)
    BY <1>3 DEF KnowsWay
  <2>2. <<e.trans, s>> \in sources'
    <3>1. <<e.trans, s>>[1] # t
      OBVIOUS
    <3> QED BY <2>1, <3>1 DEF SourcesOfOthers
  <2>3. OfSocket(e.trans, s)'
    BY <2>1
  <2> QED BY <1>1, <1>3, <2>2, <2>3 DEF KnowsWay
<1> QED BY <1>2, <1>3

SourcesRight ==
    /\ sources \subseteq Awaited \X {0, 1}
    /\ \A r, s \in sources : r[1] = s[1] => r = s

LEMMA Remembered ==
  ASSUME SourcesRight, NEW t, NEW id \in {0, 1}, Awaited \subseteq Awaited', t \in Awaited',
         sources' = {r \in sources : r[1] # t} \cup {<<t, id>>}
  PROVE  SourcesRight' /\ SourcesOfOthers(t) /\ <<t, id>> \in sources'
<1>1. sources' = {r \in sources : r[1] # t} \cup {<<t, id>>}
  OBVIOUS
<1>2. <<t, id>>[1] = t /\ <<t, id>> \in Awaited' \X {0, 1}
  OBVIOUS
<1>3. SourcesOfOthers(t)
  BY <1>1, <1>2 DEF SourcesOfOthers
<1>4. sources' \subseteq Awaited' \X {0, 1}
  BY <1>1, <1>2 DEF SourcesRight
<1>5. ASSUME NEW r \in sources', NEW s \in sources', r[1] = s[1] PROVE r = s
  BY <1>1, <1>2, <1>5 DEF SourcesRight
<1> QED BY <1>1, <1>3, <1>4, <1>5 DEF SourcesRight

LEMMA Forgotten ==
  ASSUME SourcesRight, NEW t, Awaited \ {t} \subseteq Awaited',
         sources' = {r \in sources : r[1] # t}
  PROVE  /\ SourcesRight' /\ SourcesOfOthers(t)
         /\ \A r \in sources' : r[1] # t
<1>1. sources' = {r \in sources : r[1] # t}
  OBVIOUS
<1>2. sources' \subseteq Awaited' \X {0, 1}
  <2>1. ASSUME NEW r \in sources' PROVE r \in Awaited' \X {0, 1}
    <3>1. r \in Awaited \X {0, 1} /\ r[1] # t
      BY <1>1 DEF SourcesRight
    <3>2. r[1] \in Awaited \ {t} /\ r[2] \in {0, 1} /\ r = <<r[1], r[2]>>
      BY <3>1
    <3> QED BY <3>2
  <2> QED BY <2>1
<1> QED BY <1>1, <1>2 DEF SourcesRight, SourcesOfOthers

LEMMA WaysParts ==
  /\ Ways <=> /\ Queue(fw_queue) /\ Queue(bw_queue)
              /\ fw_next \in Nat /\ bw_next \in Nat
              /\ Queued(fw_queue) \cap Queued(bw_queue) = {}
              /\ Queued(fw_queue) \cup Queued(bw_queue) = Awaited
              /\ SourcesRight
              /\ \A e \in Items(fw_queue) \cup Items(bw_queue) : KnowsWay(e)
  /\ Ways' <=> /\ Queue(fw_queue') /\ Queue(bw_queue')
               /\ fw_next' \in Nat /\ bw_next' \in Nat
               /\ Queued(fw_queue') \cap Queued(bw_queue') = {}
               /\ Queued(fw_queue') \cup Queued(bw_queue') = Awaited'
               /\ SourcesRight'
               /\ \A e \in Items(fw_queue') \cup Items(bw_queue') : KnowsWay(e)'
BY DEF Ways, SourcesRight, Queue, Queued, Items, OneEach

LEMMA ItemFacts ==
  ASSUME NEW q, Queue(q), NEW e \in Items(q)
  PROVE  e \in Carried /\ e.trans \in Queued(q)
<1>1. Items(q) \subseteq Carried
  BY ItemsType DEF Queue
<1> QED BY <1>1 DEF Queued

(* Nothing moves. *)
LEMMA WaysStay ==
  ASSUME Places, Ways, UNCHANGED <<fw_queue, bw_queue, sources, sockets>>, Awaited' = Awaited,
         fw_next' \in Nat, bw_next' \in Nat,
         \A u \in Awaited : \A x \in Socket : OfSocket(u, x) => OfSocket(u, x)'
  PROVE  Ways'
<1>1. ASSUME NEW e \in Items(fw_queue) \cup Items(bw_queue) PROVE KnowsWay(e)'
  <2>1. e \in Carried /\ e.trans \in Awaited /\ KnowsWay(e)
    BY ItemFacts, WaysParts
  <2>2. 0 \in Socket /\ Socket' = Socket
    BY DEF Places, Socket
  <2> QED BY <2>1, <2>2 DEF KnowsWay
<1>2. SourcesRight'
  BY WaysParts DEF SourcesRight
<1> QED BY <1>1, <1>2, WaysParts

(* A request enters the channel. *)
LEMMA WaysAccepted ==
  ASSUME Places, Ways, now \in Nat, sockets' = sockets,
         NEW t \in Txn, t \notin Awaited, Awaited' = Awaited \cup {t},
         NEW s \in {0, 1}, s \in Socket, NEW d \in Nat, NEW drawn \in Nat,
         Path!FwAccept(fw_queue, t, s, d, drawn), UNCHANGED <<bw_queue, bw_next>>,
         IF s = 1 THEN Path!Remember(t, s, FALSE) ELSE UNCHANGED sources,
         OfSocket(t, s)',
         \A u, x : x \in Socket /\ OfSocket(u, x) => OfSocket(u, x)'
  PROVE  Ways' /\ Queued(fw_queue)' = Queued(fw_queue) \cup {t}
<1> DEFINE pass == Path!Passes(fw_next, <<drawn>>)
<1> PICK e : e = Path!Entry(t, s, d + pass.delay)
  OBVIOUS
<1>1. /\ Queue(fw_queue) /\ Queue(bw_queue) /\ fw_next \in Nat /\ bw_next \in Nat
      /\ Queued(fw_queue) \cap Queued(bw_queue) = {}
      /\ Queued(fw_queue) \cup Queued(bw_queue) = Awaited
      /\ SourcesRight
      /\ \A x \in Items(fw_queue) \cup Items(bw_queue) : KnowsWay(x)
  BY WaysParts
<1>2. pass.delay \in Nat /\ pass.next \in Nat
  BY <1>1, OnePassType
<1>3. fw_queue' = Append(fw_queue, e) /\ fw_next' = pass.next
  BY DEF Path!FwAccept
<1> HIDE DEF pass
<1>4. e \in Carried /\ e.trans = t /\ e.socket = s
  <2>1. d + pass.delay \in Nat
    BY <1>2
  <2> QED BY <2>1, EntryType
<1>5. /\ Queue(fw_queue') /\ Items(fw_queue') = Items(fw_queue) \cup {e}
      /\ Queued(fw_queue') = Queued(fw_queue) \cup {t}
  BY <1>1, <1>3, <1>4, JoinQueue
<1>6. SourcesRight' /\ SourcesOfOthers(t) /\ (s = 1 => <<t, s>> \in sources')
      /\ (s = 0 => \A r \in sources' : r[1] # t)
  <2>1. CASE s = 1
    <3>1. sources' = {r \in sources : r[1] # t} \cup {<<t, s>>}
      BY <2>1 DEF Path!Remember
    <3>2. Awaited \subseteq Awaited' /\ t \in Awaited'
      OBVIOUS
    <3>3. SourcesRight' /\ SourcesOfOthers(t) /\ <<t, s>> \in sources'
      BY <1>1, <3>1, <3>2, Remembered
    <3> QED BY <2>1, <3>3
  <2>2. CASE s = 0
    <3>1. sources' = sources
      BY <2>2
    <3>2. \A r \in sources : r[1] # t
      BY <1>1 DEF SourcesRight
    <3> QED BY <1>1, <2>2, <3>1, <3>2 DEF SourcesRight, SourcesOfOthers
  <2> QED BY <2>1, <2>2
<1>7. KnowsWay(e)'
  <2>1. s \in {0, 1} \cap Socket'
    BY DEF Socket
  <2> QED BY <1>4, <1>6, <2>1 DEF KnowsWay
<1>8. ASSUME NEW x \in Items(fw_queue) \cup Items(bw_queue) PROVE KnowsWay(x)'
  <2>1. x \in Carried /\ x.trans # t /\ KnowsWay(x)
    BY <1>1, ItemFacts
  <2> QED BY <1>6, <2>1, WayKept
<1>9. Queued(fw_queue)' = Queued(fw_queue')
  BY DEF Queued, Items
<1> QED BY <1>1, <1>2, <1>3, <1>5, <1>6, <1>7, <1>8, <1>9, WaysParts

(* The entries the queues give out. *)
LEMMA FwFirstFacts ==
  ASSUME Ways, now \in Nat, Path!FwDue
  PROVE  LET e == Path!FwFirst
         IN  /\ e \in Carried /\ e \in Items(fw_queue) /\ KnowsWay(e)
             /\ Queue(Path!FwRest)
             /\ Items(Path!FwRest) = Items(fw_queue) \ {e}
             /\ Queued(Path!FwRest) = Queued(fw_queue) \ {e.trans}
             /\ e.trans \in Queued(fw_queue) /\ e.trans \in Awaited
             /\ e.trans \notin Queued(bw_queue)
<1>1. Queue(fw_queue) /\ fw_queue \in Seq(Carried) /\ Path!DueIn(fw_queue) # {}
  BY DEF Ways, Queue, Path!FwDue
<1>2. Path!First(fw_queue) \in DOMAIN fw_queue
  BY <1>1, FirstIsDue
<1> DEFINE e == Path!FwFirst
<1>3. /\ Queue(Path!FwRest) /\ Items(Path!FwRest) = Items(fw_queue) \ {e}
      /\ Queued(Path!FwRest) = Queued(fw_queue) \ {e.trans}
      /\ e \in Items(fw_queue) /\ e \in Carried
  <2> DEFINE i == Path!First(fw_queue)
  <2>1. Path!FwRest = RemoveAt(fw_queue, i) /\ e = fw_queue[i]
    BY DEF Path!FwRest, Path!FwFirst, Path!RemoveAt, RemoveAt
  <2>2. i \in DOMAIN fw_queue
    BY <1>2
  <2> HIDE DEF i, e
  <2> QED BY <1>1, <2>1, <2>2, LeaveQueue
<1>4. e.trans \in Queued(fw_queue)
  BY <1>3 DEF Queued
<1> HIDE DEF e
<1> QED BY <1>3, <1>4 DEF Ways, e

LEMMA BwFirstFacts ==
  ASSUME Ways, now \in Nat, Path!BwDue
  PROVE  LET e == Path!BwFirst
         IN  /\ e \in Carried /\ e \in Items(bw_queue) /\ KnowsWay(e)
             /\ Queue(Path!BwRest)
             /\ Items(Path!BwRest) = Items(bw_queue) \ {e}
             /\ Queued(Path!BwRest) = Queued(bw_queue) \ {e.trans}
             /\ e.trans \in Queued(bw_queue) /\ e.trans \in Awaited
             /\ e.trans \notin Queued(fw_queue)
<1>1. Queue(bw_queue) /\ bw_queue \in Seq(Carried) /\ Path!DueIn(bw_queue) # {}
  BY DEF Ways, Queue, Path!BwDue
<1>2. Path!First(bw_queue) \in DOMAIN bw_queue
  BY <1>1, FirstIsDue
<1> DEFINE e == Path!BwFirst
<1>3. /\ Queue(Path!BwRest) /\ Items(Path!BwRest) = Items(bw_queue) \ {e}
      /\ Queued(Path!BwRest) = Queued(bw_queue) \ {e.trans}
      /\ e \in Items(bw_queue) /\ e \in Carried
  <2> DEFINE i == Path!First(bw_queue)
  <2>1. Path!BwRest = RemoveAt(bw_queue, i) /\ e = bw_queue[i]
    BY DEF Path!BwRest, Path!BwFirst, Path!RemoveAt, RemoveAt
  <2>2. i \in DOMAIN bw_queue
    BY <1>2
  <2> HIDE DEF i, e
  <2> QED BY <1>1, <2>1, <2>2, LeaveQueue
<1>4. e.trans \in Queued(bw_queue)
  BY <1>3 DEF Queued
<1> HIDE DEF e
<1> QED BY <1>3, <1>4 DEF Ways, e

(* The memory answers a request: it changes from one queue to the other.   *)
LEMMA WaysAnswered ==
  ASSUME Places, Ways, now \in Nat, UNCHANGED <<sockets, mots>>, Awaited' = Awaited,
         NEW t, t = Path!FwFirst.trans, NEW id, id = Path!FwFirst.socket,
         NEW d \in Nat, NEW drawn \in Nat, Path!FwAnswered(t, id, d, drawn),
         IF id = 0 THEN Path!Remember(t, id, TRUE) ELSE UNCHANGED sources
  PROVE  /\ Ways' /\ t \in Queued(fw_queue)
         /\ Queued(fw_queue)' = Queued(fw_queue) \ {t}
<1> DEFINE pass == Path!Passes(bw_next, <<drawn>>)
<1> PICK e : e = Path!Entry(t, id, d + pass.delay)
  OBVIOUS
<1> PICK first : first = Path!FwFirst
  OBVIOUS
<1>1. /\ Queue(bw_queue) /\ fw_next \in Nat /\ bw_next \in Nat
      /\ Queued(fw_queue) \cap Queued(bw_queue) = {}
      /\ Queued(fw_queue) \cup Queued(bw_queue) = Awaited
      /\ SourcesRight
      /\ \A x \in Items(fw_queue) \cup Items(bw_queue) : KnowsWay(x)
  BY WaysParts
<1>2. pass.delay \in Nat /\ pass.next \in Nat
  BY <1>1, OnePassType
<1>3. /\ Path!FwDue /\ fw_queue' = Path!FwRest /\ fw_next' = fw_next
      /\ bw_queue' = Append(bw_queue, e) /\ bw_next' = pass.next
  BY DEF Path!FwAnswered, Path!BwAccept
<1> HIDE DEF pass
<1>4. /\ first \in Carried /\ KnowsWay(first)
      /\ Queue(fw_queue') /\ Items(fw_queue') = Items(fw_queue) \ {first}
      /\ Queued(fw_queue') = Queued(fw_queue) \ {t}
      /\ t \in Queued(fw_queue) /\ t \in Awaited /\ t \notin Queued(bw_queue)
  BY <1>3, FwFirstFacts
<1>5. t \in Txn /\ id \in {0, 1} /\ first.trans = t /\ first.socket = id
  BY <1>4 DEF Carried
<1>6. e \in Carried /\ e.trans = t /\ e.socket = id
  <2>1. d + pass.delay \in Nat
    BY <1>2
  <2> QED BY <1>5, <2>1, EntryType
<1>7. /\ Queue(bw_queue') /\ Items(bw_queue') = Items(bw_queue) \cup {e}
      /\ Queued(bw_queue') = Queued(bw_queue) \cup {t}
  BY <1>1, <1>3, <1>4, <1>6, JoinQueue
<1>8. /\ SourcesRight' /\ SourcesOfOthers(t)
      /\ id = 0 => \A r \in sources' : r[1] # t
      /\ id = 1 => sources' = sources
  <2>1. CASE id = 0
    <3>1. sources' = {r \in sources : r[1] # t}
      BY <2>1 DEF Path!Remember
    <3> QED BY <1>1, <2>1, <3>1, Forgotten
  <2>2. CASE id # 0
    BY <1>1, <1>5, <2>2 DEF SourcesRight, SourcesOfOthers
  <2> QED BY <2>1, <2>2
<1>9. Socket' = Socket /\ \A u, x : OfSocket(u, x)' <=> OfSocket(u, x)
  BY DEF OfSocket, Socket
<1>10. KnowsWay(e)'
  BY <1>4, <1>5, <1>6, <1>8, <1>9 DEF KnowsWay
<1>11. ASSUME NEW x \in Items(fw_queue') \cup Items(bw_queue) PROVE KnowsWay(x)'
  <2>1. x \in Carried /\ x.trans # t /\ KnowsWay(x)
    BY <1>1, <1>4, ItemFacts
  <2> QED BY <1>8, <1>9, <2>1, WayKept
<1>12. Queued(fw_queue)' = Queued(fw_queue')
  BY DEF Queued, Items
<1>13. Queued(fw_queue') \cup Queued(bw_queue') = Awaited'
       /\ Queued(fw_queue') \cap Queued(bw_queue') = {}
  BY <1>1, <1>4, <1>7
<1> QED BY <1>1, <1>2, <1>3, <1>4, <1>7, <1>8, <1>10, <1>11, <1>12, <1>13, WaysParts

(* The first entry of the channel goes through it once more. *)
LEMMA WaysForwarded ==
  ASSUME Places, Ways, now \in Nat, UNCHANGED <<sockets, mots>>, Awaited' = Awaited,
         NEW t, t = Path!FwFirst.trans, Path!FwFirst.socket = 0, NEW drawn \in Nat,
         Path!FwForwarded(t, 1, drawn), Path!Remember(t, 0, FALSE)
  PROVE  Ways' /\ Queued(fw_queue)' = Queued(fw_queue)
<1> DEFINE pass == Path!Passes(fw_next, <<drawn>>)
<1> PICK e : e = Path!Entry(t, 1, 0 + pass.delay)
  OBVIOUS
<1> PICK first : first = Path!FwFirst
  OBVIOUS
<1>1. /\ Queue(bw_queue) /\ fw_next \in Nat /\ bw_next \in Nat
      /\ Queued(fw_queue) \cap Queued(bw_queue) = {}
      /\ Queued(fw_queue) \cup Queued(bw_queue) = Awaited
      /\ SourcesRight
      /\ \A x \in Items(fw_queue) \cup Items(bw_queue) : KnowsWay(x)
  BY WaysParts
<1>2. pass.delay \in Nat /\ pass.next \in Nat
  BY <1>1, OnePassType
<1>3. /\ Path!FwDue /\ fw_queue' = Append(Path!FwRest, e) /\ fw_next' = pass.next
      /\ bw_queue' = bw_queue /\ bw_next' = bw_next
      /\ sources' = {r \in sources : r[1] # t} \cup {<<t, 0>>}
  BY DEF Path!FwForwarded, Path!FwAccept, Path!Remember
<1> HIDE DEF pass
<1>4. /\ first \in Carried /\ KnowsWay(first) /\ first.trans = t /\ first.socket = 0
      /\ Queue(Path!FwRest) /\ Items(Path!FwRest) = Items(fw_queue) \ {first}
      /\ Queued(Path!FwRest) = Queued(fw_queue) \ {t}
      /\ t \in Queued(fw_queue) /\ t \in Awaited /\ t \notin Queued(bw_queue)
  BY <1>3, FwFirstFacts
<1>5. t \in Txn
  BY <1>4 DEF Carried
<1>6. e \in Carried /\ e.trans = t /\ e.socket = 1
  <2>1. 0 + pass.delay \in Nat
    BY <1>2
  <2> QED BY <1>5, <2>1, EntryType
<1>7. /\ Queue(fw_queue') /\ Items(fw_queue') = Items(Path!FwRest) \cup {e}
      /\ Queued(fw_queue') = Queued(Path!FwRest) \cup {t}
  BY <1>3, <1>4, <1>6, JoinQueue
<1>8. SourcesRight' /\ SourcesOfOthers(t) /\ <<t, 0>> \in sources'
  <2>1. Awaited \subseteq Awaited' /\ t \in Awaited'
    BY <1>4
  <2> QED BY <1>1, <1>3, <2>1, Remembered
<1>9. Socket' = Socket /\ 0 \in Socket /\ \A u, x : OfSocket(u, x)' <=> OfSocket(u, x)
  BY DEF OfSocket, Socket, Places
<1>10. KnowsWay(e)'
  <2>1. OfSocket(t, 0)'
    BY <1>4, <1>9 DEF KnowsWay
  <2> QED BY <1>6, <1>8, <1>9, <2>1 DEF KnowsWay
<1>11. ASSUME NEW x \in Items(Path!FwRest) \cup Items(bw_queue) PROVE KnowsWay(x)'
  <2>1. x \in Carried /\ x.trans # t /\ KnowsWay(x)
    BY <1>1, <1>4, ItemFacts
  <2> QED BY <1>8, <1>9, <2>1, WayKept
<1>12. Queued(fw_queue') = Queued(fw_queue) /\ Queued(fw_queue)' = Queued(fw_queue')
  BY <1>4, <1>7 DEF Queued, Items
<1> QED BY <1>1, <1>2, <1>3, <1>7, <1>8, <1>10, <1>11, <1>12, WaysParts

(* An answer leaves the channel, for the initiator or for another passage. *)
LEMMA WaysDelivered ==
  ASSUME Places, Ways, now \in Nat, UNCHANGED <<sockets, mots>>,
         NEW t, t = Path!BwFirst.trans, Awaited' = Awaited \ {t}, Path!BwDelivered,
         IF Path!BwFirst.socket = 1 THEN Path!Forget(t) ELSE UNCHANGED sources
  PROVE  Ways' /\ Queued(fw_queue)' = Queued(fw_queue)
<1> PICK first : first = Path!BwFirst
  OBVIOUS
<1>1. /\ Queue(fw_queue) /\ fw_next \in Nat /\ bw_next \in Nat
      /\ Queued(fw_queue) \cap Queued(bw_queue) = {}
      /\ Queued(fw_queue) \cup Queued(bw_queue) = Awaited
      /\ SourcesRight
      /\ \A x \in Items(fw_queue) \cup Items(bw_queue) : KnowsWay(x)
  BY WaysParts
<1>3. /\ Path!BwDue /\ bw_queue' = Path!BwRest /\ bw_next' = bw_next
      /\ fw_queue' = fw_queue /\ fw_next' = fw_next
  BY DEF Path!BwDelivered
<1>4. /\ first \in Carried /\ KnowsWay(first) /\ first.trans = t
      /\ Queue(bw_queue') /\ Items(bw_queue') = Items(bw_queue) \ {first}
      /\ Queued(bw_queue') = Queued(bw_queue) \ {t}
      /\ t \in Queued(bw_queue) /\ t \in Awaited /\ t \notin Queued(fw_queue)
  BY <1>3, BwFirstFacts
<1>5. SourcesRight' /\ SourcesOfOthers(t)
  <2>1. CASE first.socket = 1
    <3>1. sources' = {r \in sources : r[1] # t}
      BY <2>1 DEF Path!Forget
    <3> QED BY <1>1, <3>1, Forgotten
  <2>2. CASE first.socket # 1
    <3>1. first.socket = 0
      BY <1>4, <2>2 DEF Carried
    <3>2. sources' = sources /\ \A r \in sources : r[1] # t
      BY <1>4, <2>2, <3>1 DEF KnowsWay
    <3>3. sources' = {r \in sources : r[1] # t}
      BY <3>2
    <3> QED BY <1>1, <3>3, Forgotten
  <2> QED BY <2>1, <2>2
<1>6. Socket' = Socket /\ 0 \in Socket /\ \A u, x : OfSocket(u, x)' <=> OfSocket(u, x)
  BY DEF OfSocket, Socket, Places
<1>7. ASSUME NEW x \in Items(fw_queue) \cup Items(bw_queue') PROVE KnowsWay(x)'
  <2>1. x \in Carried /\ x.trans # t /\ KnowsWay(x)
    BY <1>1, <1>4, ItemFacts
  <2> QED BY <1>5, <1>6, <2>1, WayKept
<1>8. Queued(fw_queue)' = Queued(fw_queue')
  BY DEF Queued, Items
<1>9. Queued(fw_queue') \cup Queued(bw_queue') = Awaited'
      /\ Queued(fw_queue') \cap Queued(bw_queue') = {}
  BY <1>1, <1>3, <1>4
<1> QED BY <1>1, <1>3, <1>4, <1>5, <1>7, <1>8, <1>9, WaysParts

LEMMA WaysReturned ==
  ASSUME Places, Ways, now \in Nat, UNCHANGED <<sockets, mots>>, Awaited' = Awaited,
         NEW t, t = Path!BwFirst.trans, Path!BwFirst.socket # 0, Path!Source(t) # 1,
         NEW drawn \in Nat, Path!BwForwarded(t, 0, drawn),
         IF Path!BwFirst.socket = 1 THEN Path!Forget(t) ELSE UNCHANGED sources
  PROVE  Ways' /\ Queued(fw_queue)' = Queued(fw_queue)
<1> DEFINE pass == Path!Passes(bw_next, <<drawn>>)
<1> PICK e : e = Path!Entry(t, 0, 0 + pass.delay)
  OBVIOUS
<1> PICK first : first = Path!BwFirst
  OBVIOUS
<1>1. /\ Queue(fw_queue) /\ fw_next \in Nat /\ bw_next \in Nat
      /\ Queued(fw_queue) \cap Queued(bw_queue) = {}
      /\ Queued(fw_queue) \cup Queued(bw_queue) = Awaited
      /\ SourcesRight
      /\ \A x \in Items(fw_queue) \cup Items(bw_queue) : KnowsWay(x)
  BY WaysParts
<1>2. pass.delay \in Nat /\ pass.next \in Nat
  BY <1>1, OnePassType
<1>3. /\ Path!BwDue /\ bw_queue' = Append(Path!BwRest, e) /\ bw_next' = pass.next
      /\ fw_queue' = fw_queue /\ fw_next' = fw_next
  BY DEF Path!BwForwarded, Path!BwAccept
<1> HIDE DEF pass
<1>4. /\ first \in Carried /\ KnowsWay(first) /\ first.trans = t
      /\ Queue(Path!BwRest) /\ Items(Path!BwRest) = Items(bw_queue) \ {first}
      /\ Queued(Path!BwRest) = Queued(bw_queue) \ {t}
      /\ t \in Queued(bw_queue) /\ t \in Awaited /\ t \notin Queued(fw_queue)
  BY <1>3, BwFirstFacts
<1>5. t \in Txn /\ first.socket = 1
  BY <1>4 DEF Carried
<1>6. e \in Carried /\ e.trans = t /\ e.socket = 0
  <2>1. 0 + pass.delay \in Nat
    BY <1>2
  <2> QED BY <1>5, <2>1, EntryType
<1>7. /\ Queue(bw_queue') /\ Items(bw_queue') = Items(Path!BwRest) \cup {e}
      /\ Queued(bw_queue') = Queued(Path!BwRest) \cup {t}
  BY <1>3, <1>4, <1>6, JoinQueue
<1>8. SourcesRight' /\ SourcesOfOthers(t) /\ \A r \in sources' : r[1] # t
  <2>1. sources' = {r \in sources : r[1] # t}
    BY <1>5 DEF Path!Forget
  <2> QED BY <1>1, <2>1, Forgotten
<1>9. OfSocket(t, 0)
  <2>1. PICK s \in {0, 1} \cap Socket : <<t, s>> \in sources /\ OfSocket(t, s)
    BY <1>4, <1>5 DEF KnowsWay
  <2>2. \A r \in sources : r[1] = t => r = <<t, s>>
    <3>1. <<t, s>>[1] = t
      OBVIOUS
    <3> QED BY <1>1, <2>1, <3>1 DEF SourcesRight
  <2>3. Path!Source(t) = s
    <3>1. (CHOOSE r \in sources : r[1] = t) = <<t, s>>
      BY <2>1, <2>2
    <3>2. Path!Source(t) = (CHOOSE r \in sources : r[1] = t)[2]
      BY Zenon DEF Path!Source
    <3>3. <<t, s>>[2] = s
      OBVIOUS
    <3> QED BY <3>1, <3>2, <3>3
  <2> QED BY <2>1, <2>3
<1>10. Socket' = Socket /\ \A u, x : OfSocket(u, x)' <=> OfSocket(u, x)
  BY DEF OfSocket, Socket
<1>11. KnowsWay(e)'
  BY <1>6, <1>8, <1>9, <1>10 DEF KnowsWay
<1>12. ASSUME NEW x \in Items(fw_queue) \cup Items(Path!BwRest) PROVE KnowsWay(x)'
  <2>1. x \in Carried /\ x.trans # t /\ KnowsWay(x)
    BY <1>1, <1>4, ItemFacts
  <2> QED BY <1>8, <1>10, <2>1, WayKept
<1>13. Queued(fw_queue)' = Queued(fw_queue')
  BY DEF Queued, Items
<1>14. Queued(fw_queue') \cup Queued(bw_queue') = Awaited'
       /\ Queued(fw_queue') \cap Queued(bw_queue') = {}
  BY <1>1, <1>3, <1>4, <1>7
<1> QED BY <1>1, <1>2, <1>3, <1>7, <1>8, <1>11, <1>12, <1>13, <1>14, WaysParts
--------------------------------------------------------------------------------
(* A request is issued: what does not depend on how it is carried. *)
LEMMA IssuedParts ==
  ASSUME Places, Held, Books, UNCHANGED setup, NEW s \in Socket, Len(mots[s]) < max_mots,
         NEW t \in Txn, t = New, NEW p, Fresh(p), Issued(s, p),
         NEW a, View(a) = View(p), payload' = Append(payload, a)
  PROVE  /\ Places' /\ Books'
         /\ t \notin Open /\ t \notin Awaited /\ t \notin outstanding \cup done_local
         /\ Open' = Open \cup {t} /\ \A u \in Open : payload'[u] = payload[u]
         /\ payload'[t] = a /\ Len(payload') = t /\ Numbers' = Numbers \cup {t}
         /\ Others(t) /\ Status(t) = "none" /\ t \in Open'
         /\ OfSocket(t, s)' /\ \A u, x : x \in Socket /\ OfSocket(u, x) => OfSocket(u, x)'
<1>1. /\ sockets \in Nat \ {0} /\ rm_ann \in BOOLEAN /\ Lists
      /\ payload \in Seq(Items(payload)) /\ Open \subseteq Numbers
  BY DEF Places
<1>2. sockets' = sockets /\ rm_ann' = rm_ann
  BY DEF setup
<1>3. mots' = [mots EXCEPT ![s] = Append(@, t)] /\ Opened(p)
  BY DEF Issued
<1>4. /\ payload' \in Seq(Items(payload)') /\ Len(payload') = t
      /\ Numbers' = Numbers \cup {t} /\ t \notin Numbers
      /\ \A u \in Numbers : payload'[u] = payload[u]
      /\ payload'[t] = a
  BY <1>1, PayloadAppended
<1>5. t \notin Open
  BY <1>1, <1>4
<1>6. /\ Lists' /\ Open' = Open \cup {t} /\ OfSocket(t, s)'
      /\ \A u, x : x \in Socket /\ OfSocket(u, x) => OfSocket(u, x)'
  BY <1>1, <1>2, <1>3, <1>5, ListsAppend
<1>7. \A u \in Open : payload'[u] = payload[u]
  BY <1>1, <1>4
<1>8. Places'
  <2>1. Open' \subseteq Numbers'
    BY <1>1, <1>4, <1>6
  <2> QED BY <1>1, <1>2, <1>4, <1>6, <2>1 DEF Places
<1>9. a.read = p.read /\ Words(a) = Words(p)
  BY DEF View
<1>10. Books'
  BY <1>3, <1>4, <1>5, <1>6, <1>7, <1>9, BooksOpened
<1>11. t \notin outstanding \cup done_local /\ t \notin Awaited
  BY <1>4 DEF Held, Awaited
<1>12. Others(t)
  BY <1>6, <1>7 DEF Others
<1>13. Status(t) = "none"
  BY <1>5 DEF Status
<1> QED BY <1>4, <1>5, <1>6, <1>7, <1>8, <1>10, <1>11, <1>12, <1>13

LEMMA HeldParts ==
  /\ Held <=> /\ Plain /\ outstanding \cup done_local = Numbers /\ Awaited \subseteq Open
  /\ Held' <=> /\ Plain' /\ outstanding' \cup done_local' = Numbers' /\ Awaited' \subseteq Open'
BY DEF Held, Plain

(* The payloads of the other requests stay as they were. *)
LEMMA RecordsKept ==
  ASSUME Records, NEW t, \A u \in Open' \ {t} : u \in Open /\ payload'[u] = payload[u],
         \A u \in Open \ {t} : u \in Queued(fw_queue)' <=> u \in Queued(fw_queue),
         t \in Open' => /\ Proper(payload'[t])
                        /\ payload'[t].status = "INCOMPLETE" <=> t \in Queued(fw_queue)'
  PROVE  Records'
<1>1. ASSUME NEW u \in Open'
      PROVE  /\ Proper(payload'[u])
             /\ payload'[u].status = "INCOMPLETE" <=> u \in Queued(fw_queue)'
  <2>1. CASE u = t
    BY <1>1, <2>1
  <2>2. CASE u # t
    BY <1>1, <2>2 DEF Records
  <2> QED BY <2>1, <2>2
<1>2. \A u : Proper(payload[u])' <=> Proper(payload'[u])
  BY DEF Proper, Words
<1> QED BY <1>1, <1>2 DEF Records

LEMMA ContentsServed ==
  ASSUME Contents, now \in Nat, NEW p, Proper(p), NEW o, Path!BTransport(p, o)
  PROVE  mem' \in [Loc -> Word] /\ next_time' \in Nat
<1>1. next_time' \in Nat
  <2>1. Path!NextTime(p) \in Nat
    <3>1. next_time \in Nat /\ p.length \in Nat
      BY DEF Contents, Proper
    <3> QED BY <3>1, CompletionType
  <2> QED BY <2>1 DEF Path!BTransport, Contents
<1>2. mem' \in [Loc -> Word]
  <2>1. CASE mem' = mem
    BY <2>1 DEF Contents
  <2>2. CASE mem' = Path!Store(p) /\ ~p.read
    BY <2>2 DEF Contents, Path!Store, Proper, Word
  <2> QED BY <2>1, <2>2 DEF Path!BTransport
<1> QED BY <1>1, <1>2
--------------------------------------------------------------------------------
(* A request is issued and answered during the call. *)
LEMMA IssueThrough ==
  ASSUME Places, Held, Ways, Records, Contents, Books, now \in Nat, local \in Nat, local >= now,
         UNCHANGED <<now, setup>>, NEW s \in Socket, Len(mots[s]) < max_mots,
         NEW t \in Txn, t = New, NEW p, Fresh(p), Issued(s, p), CallThrough(s, p)
  PROVE  /\ Places' /\ Held' /\ Ways' /\ Records' /\ Contents' /\ Books'
         /\ Open' = Open \cup {t} /\ \A u \in Open : payload'[u] = payload[u]
         /\ payload'[t].index = p.index /\ payload'[t].length = p.length
         /\ Len(payload') = t
         /\ Test_!Next
<1> DEFINE delay == local - now
<1>1. PICK n \in 0..2 : n = Crossings(s, p)
  BY CrossingsType
<1>2. PICK outcome \in Path!Outcomes(p), fws \in [1..n -> fw_delays], bws \in [1..n -> bw_delays] :
        LET there == delay + Path!Passes(fw_next, fws).delay
            served == Path!CompletionDelay(p, there)
            back == served + Path!Passes(bw_next, bws).delay
        IN  /\ Path!BTransport(p, outcome)
            /\ payload' = Append(payload, Answered(p, outcome))
            /\ Path!FwThrough(fws, bws)
            /\ Initiator!Launch(New, <<Reply("completed", "BEGIN_RESP", back)>>)
  BY <1>1 DEF CallThrough
<1> DEFINE there == delay + Path!Passes(fw_next, fws).delay
           served == Path!CompletionDelay(p, there)
<1> PICK a : a = Answered(p, outcome)
  OBVIOUS
<1>3. PICK back : back = served + Path!Passes(bw_next, bws).delay
  OBVIOUS
<1>4. /\ Path!BTransport(p, outcome) /\ payload' = Append(payload, a)
      /\ Path!FwThrough(fws, bws)
      /\ Initiator!Launch(t, <<Reply("completed", "BEGIN_RESP", back)>>)
  BY <1>2, <1>3
<1>5. Proper(p) /\ p.length \in Nat
  BY DEF Fresh, Proper
<1>6. /\ fw_next' \in Nat /\ bw_next' \in Nat
      /\ Path!Passes(fw_next, fws).delay \in Nat /\ Path!Passes(bw_next, bws).delay \in Nat
  <2>1. fw_next \in Nat /\ bw_next \in Nat
    BY WaysParts
  <2>2. Path!Passes(fw_next, fws).delay \in Nat /\ Path!Passes(fw_next, fws).next \in Nat
    BY <1>2, <2>1, PassesType, Constants
  <2>3. Path!Passes(bw_next, bws).delay \in Nat /\ Path!Passes(bw_next, bws).next \in Nat
    BY <1>2, <2>1, PassesType, Constants
  <2> QED BY <1>4, <2>2, <2>3 DEF Path!FwThrough
<1>7. back \in Nat
  <2>1. there \in Nat
    BY <1>6
  <2> HIDE DEF there
  <2>2. served \in Nat
    BY <1>5, <2>1, CompletionType DEF Contents
  <2> QED BY <1>3, <1>6, <2>2
<1> HIDE DEF there, served
<1>8. /\ Proper(a) /\ a.status = outcome /\ View(a) = View(p)
      /\ a.index = p.index /\ a.length = p.length
  BY <1>2, <1>5, AnsweredFields
<1>9. outcome # "INCOMPLETE"
  BY <1>2, OutcomesType
<1>10. /\ Places' /\ Books'
       /\ t \notin Open /\ t \notin Awaited /\ t \notin outstanding \cup done_local
       /\ Open' = Open \cup {t} /\ \A u \in Open : payload'[u] = payload[u]
       /\ payload'[t] = a /\ Len(payload') = t /\ Numbers' = Numbers \cup {t}
       /\ Others(t) /\ Status(t) = "none" /\ t \in Open'
       /\ OfSocket(t, s)' /\ \A u, x : x \in Socket /\ OfSocket(u, x) => OfSocket(u, x)'
  <2>1. View(a) = View(p) /\ payload' = Append(payload, a) /\ UNCHANGED setup
    BY <1>4, <1>8
  <2>2. Places' /\ Books' /\ t \notin Open /\ t \notin Awaited
    BY <2>1, IssuedParts
  <2>3. /\ t \notin outstanding \cup done_local /\ Open' = Open \cup {t}
        /\ payload'[t] = a /\ Len(payload') = t /\ Numbers' = Numbers \cup {t}
    BY <2>1, IssuedParts
  <2>4. \A u \in Open : payload'[u] = payload[u]
    BY <2>1, IssuedParts
  <2>5. Others(t) /\ Status(t) = "none" /\ t \in Open' /\ OfSocket(t, s)'
    BY <2>1, IssuedParts
  <2>6. \A u, x : x \in Socket /\ OfSocket(u, x) => OfSocket(u, x)'
    BY <2>1, IssuedParts
  <2> QED BY <2>2, <2>3, <2>4, <2>5, <2>6
<1>11. /\ Plain' /\ Awaited' = Awaited
       /\ outstanding' \cup done_local' = (outstanding \cup done_local) \cup {t}
  BY <1>4, <1>7, <1>10, CalledThrough, HeldParts
<1>12. Held'
  BY <1>10, <1>11, HeldParts
<1>13. UNCHANGED <<fw_queue, bw_queue, sources, sockets>>
  BY <1>4 DEF Path!FwThrough, CallThrough, setup
<1>14. Ways'
  BY <1>6, <1>10, <1>11, <1>13, WaysStay
<1>15. Queued(fw_queue)' = Queued(fw_queue) /\ t \notin Queued(fw_queue)
  BY <1>10, <1>13, WaysParts DEF Queued, Items
<1>16. Records'
  BY <1>8, <1>9, <1>10, <1>15, RecordsKept
<1>17. Contents'
  <2>1. init_done' = init_done /\ miscompare' = miscompare
    BY DEF Issued, Opened
  <2> QED BY <1>4, <1>5, <2>1, ContentsServed DEF Contents
<1>18. Test_!Next
  <2>1. Abstract(t)' = View(p) /\ \E b \in {"ok", "failed"} : Test_!Served(t, View(p), b)
    BY <1>2, <1>4, <1>5, <1>10, ServedRefined
  <2>2. PICK b \in {"ok", "failed"} : Test_!Served(t, View(p), b)
    BY <2>1
  <2>3. b \in {"none", "ok", "failed"} /\ Opened(p)
    BY DEF Issued
  <2> QED BY <1>10, <2>1, <2>2, <2>3, OpenRefined
<1> QED BY <1>8, <1>10, <1>12, <1>14, <1>16, <1>17, <1>18

(* A request is issued and kept in the channel. *)
LEMMA IssueAccepted ==
  ASSUME Places, Held, Ways, Records, Contents, Books, now \in Nat, local \in Nat, local >= now,
         UNCHANGED <<now, setup>>, NEW s \in Socket, Len(mots[s]) < max_mots,
         NEW t \in Txn, t = New, NEW p, Fresh(p), Issued(s, p), CallAccepted(s, p)
  PROVE  /\ Places' /\ Held' /\ Ways' /\ Records' /\ Contents' /\ Books'
         /\ Open' = Open \cup {t} /\ \A u \in Open : payload'[u] = payload[u]
         /\ payload'[t].index = p.index /\ payload'[t].length = p.length
         /\ Len(payload') = t
         /\ Test_!Next
<1>1. PICK drawn \in fw_delays : Path!FwAccept(fw_queue, New, s, local - now, drawn)
  BY DEF CallAccepted
<1>2. PICK d \in Nat : d = local - now
  OBVIOUS
<1>3. /\ Path!FwAccept(fw_queue, t, s, d, drawn) /\ payload' = Append(payload, p)
      /\ IF s = 1 THEN Path!Remember(t, s, FALSE) ELSE UNCHANGED sources
      /\ Initiator!Launch(t, <<Reply("updated", "END_REQ", d)>>)
      /\ UNCHANGED <<bw_queue, bw_next>> /\ UNCHANGED <<mem, next_time>>
  BY <1>1, <1>2 DEF CallAccepted, memory
<1>4. s \in {0, 1}
  BY CrossingsType DEF CallAccepted
<1>5. Proper(p) /\ p.status = "INCOMPLETE"
  BY DEF Fresh
<1>6. /\ Places' /\ Books'
      /\ t \notin Open /\ t \notin Awaited /\ t \notin outstanding \cup done_local
      /\ Open' = Open \cup {t} /\ \A u \in Open : payload'[u] = payload[u]
      /\ payload'[t] = p /\ Len(payload') = t /\ Numbers' = Numbers \cup {t}
      /\ Others(t) /\ Status(t) = "none" /\ t \in Open'
      /\ OfSocket(t, s)' /\ \A u, x : x \in Socket /\ OfSocket(u, x) => OfSocket(u, x)'
  BY <1>3, IssuedParts
<1>7. /\ Plain' /\ Awaited' = Awaited \cup {t}
      /\ outstanding' \cup done_local' = (outstanding \cup done_local) \cup {t}
  BY <1>3, <1>6, CalledAccepted, HeldParts
<1>8. Held'
  BY <1>6, <1>7, HeldParts
<1>9. drawn \in Nat /\ sockets' = sockets
  BY <1>1, Constants DEF setup
<1>10. Ways' /\ Queued(fw_queue)' = Queued(fw_queue) \cup {t}
  BY <1>3, <1>4, <1>6, <1>7, <1>9, WaysAccepted
<1>11. Records'
  BY <1>5, <1>6, <1>10, RecordsKept
<1>12. Contents'
  <2>1. init_done' = init_done /\ miscompare' = miscompare
    BY DEF Issued, Opened
  <2> QED BY <1>3, <2>1 DEF Contents
<1>13. Test_!Next
  <2>1. Abstract(t)' = View(p) /\ Test_!Served(t, View(p), "none")
    BY <1>3, <1>5, <1>6, UnservedRefined
  <2>2. "none" \in {"none", "ok", "failed"} /\ Opened(p)
    BY DEF Issued
  <2> QED BY <1>6, <2>1, <2>2, OpenRefined
<1> QED BY <1>6, <1>8, <1>10, <1>11, <1>12, <1>13

LEMMA IssueStep ==
  ASSUME Places, Held, Ways, Records, Contents, Books, now \in Nat, local \in Nat, local >= now,
         UNCHANGED <<now, setup>>, NEW s \in Socket, Len(mots[s]) < max_mots,
         NEW t \in Txn, t = New, NEW p, Fresh(p), Issued(s, p), Call(s, p)
  PROVE  /\ Places' /\ Held' /\ Ways' /\ Records' /\ Contents' /\ Books'
         /\ Open' = Open \cup {t} /\ \A u \in Open : payload'[u] = payload[u]
         /\ payload'[t].index = p.index /\ payload'[t].length = p.length
         /\ Len(payload') = t
         /\ Test_!Next
BY IssueThrough, IssueAccepted DEF Call
--------------------------------------------------------------------------------
(* A request is completed and released. *)
LEMMA CloseStep ==
  ASSUME Places, Held, Ways, Records, Contents, Books,
         NEW s \in Socket, Oldest(s), waited \in done_local, Close(s),
         UNCHANGED <<initiator, setup, path, memory>>
  PROVE  /\ Places' /\ Held' /\ Ways' /\ Records' /\ Contents' /\ Books'
         /\ Open' \subseteq Open /\ \A u \in Open' : payload'[u] = payload[u]
         /\ Len(payload') = Len(payload) /\ Len(mots'[s]) < max_mots
         /\ Test_!Next
<1> PICK t : t = waited
  OBVIOUS
<1>1. /\ t = Head(mots[s]) /\ mots[s] # <<>> /\ t \in done_local
      /\ Complete(t) /\ mots' = [mots EXCEPT ![s] = Tail(@)]
      /\ payload' = [payload EXCEPT ![t] = Released]
  BY DEF Oldest, Close
<1>2. /\ sockets \in Nat \ {0} /\ rm_ann \in BOOLEAN /\ Lists
      /\ payload \in Seq(Items(payload)) /\ Open \subseteq Numbers
  BY DEF Places
<1>3. sockets' = sockets /\ rm_ann' = rm_ann /\ UNCHANGED <<mem, next_time>>
  BY DEF setup, memory
<1>4. /\ Lists' /\ Open' = Open \ {t} /\ t \in Open /\ Len(mots'[s]) < max_mots
      /\ \A u, x : x \in Socket /\ u # t /\ OfSocket(u, x) => OfSocket(u, x)'
  BY <1>1, <1>2, <1>3, ListsTail
<1>5. /\ payload' \in Seq(Items(payload)')
      /\ Len(payload') = Len(payload) /\ Numbers' = Numbers
      /\ \A u \in Numbers \ {t} : payload'[u] = payload[u]
  <2>1. t \in Numbers
    BY <1>2, <1>4
  <2> QED BY <1>1, <1>2, <2>1, PayloadReplaced
<1>6. \A u \in Open \ {t} : payload'[u] = payload[u]
  BY <1>2, <1>5
<1>7. Places'
  <2>1. Open' \subseteq Numbers'
    BY <1>2, <1>4, <1>5
  <2> QED BY <1>2, <1>3, <1>4, <1>5, <2>1 DEF Places
<1>8. t \notin Awaited /\ Awaited' = Awaited
  BY <1>1 DEF Awaited, initiator
<1>9. Held'
  <2>1. Plain' /\ outstanding' = outstanding /\ done_local' = done_local
    BY HeldParts DEF Plain, initiator
  <2>2. Awaited' \subseteq Open'
    BY <1>4, <1>8, HeldParts
  <2> QED BY <1>5, <2>1, <2>2, HeldParts
<1>10. UNCHANGED <<fw_queue, bw_queue, sources, sockets>> /\ fw_next' \in Nat /\ bw_next' \in Nat
  BY <1>3, WaysParts DEF path
<1>11. Ways'
  <2>1. \A u \in Awaited : \A x \in Socket : OfSocket(u, x) => OfSocket(u, x)'
    BY <1>4, <1>8
  <2> QED BY <1>8, <1>10, <2>1, WaysStay
<1>12. Queued(fw_queue)' = Queued(fw_queue) /\ t \notin Queued(fw_queue)
  BY <1>8, <1>10, WaysParts DEF Queued, Items
<1>13. Records'
  BY <1>4, <1>6, <1>12, RecordsKept
<1>14. Books'
  BY <1>1, <1>4, <1>6, BooksClosed
<1>15. Contents'
  <2>1. Words(payload[t]) \subseteq Loc
    BY <1>4, WordsType DEF Records
  <2>2. init_done' \subseteq Loc
    BY <1>1, <2>1 DEF Complete, Contents
  <2>3. miscompare' \in BOOLEAN
    BY <1>1 DEF Complete, Contents
  <2> QED BY <1>3, <2>2, <2>3 DEF Contents
<1>16. Test_!Next
  BY <1>1, <1>3, <1>4, <1>6, <1>12, CloseRefined
<1> QED BY <1>4, <1>5, <1>6, <1>7, <1>9, <1>11, <1>13, <1>14, <1>15, <1>16

(* Steps that touch none of what the abstract test sees. *)
LEMMA Stutters ==
  ASSUME UNCHANGED <<sockets, mots, payload, mem, mem_array, init_done, miscompare>>
  PROVE  Open' = Open /\ UNCHANGED Test_!vars
<1>1. Open' = Open
  BY DEF Open, Socket
<1>2. Asked' = Asked
  BY <1>1 DEF Asked, Abstract, Words
<1>3. Answers' = Answers
  BY <1>1 DEF Answers, Status
<1>4. Got' = Got
  BY <1>1 DEF Got, Returned, Status, Words
<1> QED BY <1>1, <1>2, <1>3, <1>4 DEF Test_!vars

(* Steps that keep what the books are about. *)
LEMMA BooksStay ==
  ASSUME Books, UNCHANGED books, Open' = Open,
         \A u \in Open : /\ payload'[u].read = payload[u].read
                         /\ Words(payload'[u]) = Words(payload[u])
  PROVE  Books'
<1>1. ASSUME NEW l
      PROVE  OpenAt(l, TRUE)' = OpenAt(l, TRUE) /\ OpenAt(l, FALSE)' = OpenAt(l, FALSE)
  BY DEF OpenAt
<1>2. UNCHANGED <<read_pending, write_pending>>
  BY DEF books
<1>3. Counted' <=> Counted
  BY <1>1, <1>2 DEF Counted
<1>4. Exclusive' <=> Exclusive
  BY <1>2 DEF Exclusive
<1> QED BY <1>2, <1>3, <1>4, BooksParts DEF Books
--------------------------------------------------------------------------------
(* The memory serves the first request of the channel. *)
LEMMA ServeStep ==
  ASSUME Places, Held, Ways, Records, Contents, Books, now \in Nat,
         NEW t, t = Path!FwFirst.trans, NEW id, id = Path!FwFirst.socket, NEW p, p = payload[t],
         NEW o \in Path!Outcomes(p), NEW drawn \in bw_delays,
         Path!FwAnswered(t, id, Path!CompletionDelay(p, 0), drawn), Path!BTransport(p, o),
         payload' = [payload EXCEPT ![t] = Answered(p, o)],
         IF id = 0 THEN Path!Remember(t, id, TRUE) ELSE UNCHANGED sources,
         UNCHANGED <<now, mots, books, initiator, setup>>
  PROVE  /\ Places' /\ Held' /\ Ways' /\ Records' /\ Contents' /\ Books'
         /\ Open' = Open /\ Len(payload') = Len(payload)
         /\ \A u \in Open : /\ payload'[u].index = payload[u].index
                            /\ payload'[u].length = payload[u].length
         /\ Test_!Next
<1> PICK a : a = Answered(p, o)
  OBVIOUS
<1>1. /\ sockets \in Nat \ {0} /\ rm_ann \in BOOLEAN /\ Lists
      /\ payload \in Seq(Items(payload)) /\ Open \subseteq Numbers
  BY DEF Places
<1>2. sockets' = sockets /\ rm_ann' = rm_ann /\ mots' = mots
  BY DEF setup
<1>3. Open' = Open /\ Lists'
  BY <1>1, <1>2 DEF Open, Lists, Socket
<1>4. Awaited' = Awaited /\ Plain' /\ outstanding' = outstanding /\ done_local' = done_local
  BY HeldParts DEF Awaited, Plain, initiator
<1>5. drawn \in Nat
  BY Constants
<1>6. Path!FwDue
  BY DEF Path!FwAnswered
<1>7. t \in Awaited /\ t \in Open /\ t \in Queued(fw_queue)
  BY <1>6, FwFirstFacts, HeldParts
<1>8. Proper(p) /\ p.status = "INCOMPLETE" /\ p.length \in Nat
  BY <1>7 DEF Records, Proper
<1>9. PICK d \in Nat : d = Path!CompletionDelay(p, 0)
  BY <1>8, CompletionType DEF Contents
<1>10. Ways' /\ Queued(fw_queue)' = Queued(fw_queue) \ {t}
  BY <1>2, <1>4, <1>5, <1>9, WaysAnswered
<1>11. /\ Proper(a) /\ a.status = o /\ View(a) = View(p)
       /\ a.read = p.read /\ a.index = p.index /\ a.length = p.length /\ Words(a) = Words(p)
  BY <1>8, AnsweredFields
<1>12. /\ payload' \in Seq(Items(payload)') /\ Len(payload') = Len(payload)
       /\ Numbers' = Numbers /\ payload'[t] = a
       /\ \A u \in Numbers \ {t} : payload'[u] = payload[u]
  <2>1. t \in Numbers /\ payload' = [payload EXCEPT ![t] = a]
    BY <1>1, <1>7
  <2> QED BY <1>1, <2>1, PayloadReplaced
<1>13. \A u \in Open \ {t} : payload'[u] = payload[u]
  BY <1>1, <1>12
<1>14. Places'
  BY <1>1, <1>2, <1>3, <1>12 DEF Places
<1>15. Held'
  BY <1>3, <1>4, <1>12, HeldParts
<1>16. Records'
  <2>1. o # "INCOMPLETE" /\ t \notin Queued(fw_queue)'
    BY <1>10, OutcomesType
  <2> QED BY <1>3, <1>10, <1>11, <1>12, <1>13, <2>1, RecordsKept
<1>17. Contents'
  BY <1>8, ContentsServed DEF Contents, books
<1>18. Books'
  <2>1. \A u \in Open : /\ payload'[u].read = payload[u].read
                        /\ Words(payload'[u]) = Words(payload[u])
    BY <1>11, <1>12, <1>13
  <2> QED BY <1>3, <2>1, BooksStay
<1>19. \A u \in Open : /\ payload'[u].index = payload[u].index
                       /\ payload'[u].length = payload[u].length
  BY <1>11, <1>12, <1>13
<1>20. Others(t) /\ t \in Txn /\ t \in Open' /\ Status(t) = "none"
  <2>1. Status(t) = "none"
    BY <1>7, <1>8 DEF Status
  <2> QED BY <1>1, <1>3, <1>7, <1>13, <2>1, OpenType DEF Others
<1>21. Test_!Serve(t)
  <2>1. Abstract(t)' = View(p) /\ \E b \in {"ok", "failed"} : Test_!Served(t, View(p), b)
    BY <1>8, <1>12, <1>20, ServedRefined
  <2>2. Asked[t] = View(p) /\ Answers[t] = "none"
    BY <1>7, <1>20 DEF Asked, Answers, Abstract, View
  <2>3. Asked' = [Asked EXCEPT ![t] = Abstract(t)']
    BY <1>20, ViewsChange
  <2>4. Asked' = Asked
    BY <1>20, <2>1, <2>2, <2>3 DEF Asked
  <2>5. UNCHANGED <<mem_array, init_done, miscompare>>
    BY DEF books
  <2>6. \E b \in {"ok", "failed"} : Test_!Served(t, Asked[t], b)
    BY <2>1, <2>2
  <2> QED BY <1>3, <1>7, <2>2, <2>4, <2>5, <2>6 DEF Test_!Serve
<1> QED BY <1>3, <1>10, <1>12, <1>14, <1>15, <1>16, <1>17, <1>18, <1>19, <1>20, <1>21
        DEF Test_!Next

(* What is left alone when only the ways of the requests change. *)
LEMMA OnlyWays ==
  ASSUME Places, Held, Records, Contents, Books, Ways',
         Queued(fw_queue)' = Queued(fw_queue), Plain',
         outstanding' \cup done_local' = outstanding \cup done_local, Awaited' \subseteq Awaited,
         UNCHANGED <<setup, mots, payload, books, memory>>
  PROVE  /\ Places' /\ Held' /\ Ways' /\ Records' /\ Contents' /\ Books'
         /\ Open' = Open /\ UNCHANGED Test_!vars
<1>1. /\ sockets' = sockets /\ rm_ann' = rm_ann /\ mem' = mem /\ next_time' = next_time
      /\ UNCHANGED <<mem_array, init_done, read_pending, write_pending, miscompare>>
  BY DEF setup, memory, books
<1>2. Open' = Open /\ UNCHANGED Test_!vars
  BY <1>1, Stutters
<1>3. Places'
  <2>1. Socket' = Socket /\ Items(payload)' = Items(payload) /\ Numbers' = Numbers
    BY <1>1 DEF Socket, Items, Numbers
  <2>2. Lists'
    BY <1>1 DEF Places, Lists, Socket
  <2> QED BY <1>1, <1>2, <2>1, <2>2 DEF Places
<1>4. Held'
  BY <1>2, HeldParts DEF Numbers
<1>5. Records'
  BY <1>2 DEF Records, Proper, Words
<1>6. Contents'
  BY <1>1 DEF Contents
<1>7. Books'
  BY <1>1, <1>2, BooksStay
<1> QED BY <1>2, <1>3, <1>4, <1>5, <1>6, <1>7

(* The channel delivers a request. *)
LEMMA DeliverStep ==
  ASSUME Places, Held, Ways, Records, Contents, Books, now \in Nat, Deliver
  PROVE  /\ Places' /\ Held' /\ Ways' /\ Records' /\ Contents' /\ Books'
         /\ Open' = Open /\ Len(payload') = Len(payload)
         /\ \A u \in Open : /\ payload'[u].index = payload[u].index
                            /\ payload'[u].length = payload[u].length
         /\ Test_!Next \/ UNCHANGED Test_!vars
<1> PICK t : t = Path!FwFirst.trans
  OBVIOUS
<1> PICK id : id = Path!FwFirst.socket
  OBVIOUS
<1> PICK p : p = payload[t]
  OBVIOUS
<1>1. UNCHANGED <<now, mots, books, initiator, setup>>
  BY DEF Deliver
<1>2. CASE /\ \E o \in Path!Outcomes(p), drawn \in bw_delays :
                /\ Path!FwAnswered(t, id, Path!CompletionDelay(p, 0), drawn)
                /\ Path!BTransport(p, o)
                /\ payload' = [payload EXCEPT ![t] = Answered(p, o)]
           /\ IF id = 0 THEN Path!Remember(t, id, TRUE) ELSE UNCHANGED sources
  <2>1. PICK o \in Path!Outcomes(p), drawn \in bw_delays :
                /\ Path!FwAnswered(t, id, Path!CompletionDelay(p, 0), drawn)
                /\ Path!BTransport(p, o)
                /\ payload' = [payload EXCEPT ![t] = Answered(p, o)]
    BY <1>2
  <2> QED BY <1>1, <1>2, <2>1, ServeStep
<1>3. CASE /\ id = 0
           /\ \E drawn \in fw_delays : Path!FwForwarded(t, 1, drawn)
           /\ Path!Remember(t, id, FALSE)
           /\ UNCHANGED <<payload, memory>>
  <2>1. PICK drawn \in Nat : Path!FwForwarded(t, 1, drawn)
    BY <1>3, Constants
  <2>2. Awaited' = Awaited /\ Plain' /\ outstanding' = outstanding /\ done_local' = done_local
    BY <1>1, HeldParts DEF Awaited, Plain, initiator
  <2>3. UNCHANGED <<sockets, mots>> /\ Path!FwFirst.socket = 0
    BY <1>1, <1>3 DEF setup
  <2>4. Path!Remember(t, 0, FALSE)
    BY <1>3
  <2>5. Ways' /\ Queued(fw_queue)' = Queued(fw_queue)
    BY <2>1, <2>2, <2>3, <2>4, WaysForwarded
  <2>6. UNCHANGED <<setup, mots, payload, books, memory>>
    BY <1>1, <1>3
  <2>7. /\ Places' /\ Held' /\ Ways' /\ Records' /\ Contents' /\ Books'
        /\ Open' = Open /\ UNCHANGED Test_!vars
    BY <2>2, <2>5, <2>6, OnlyWays
  <2> QED BY <2>6, <2>7
<1> QED BY <1>2, <1>3 DEF Deliver

(* The channel hands an answer to the initiator, or back to itself. *)
LEMMA RespondStep ==
  ASSUME Places, Held, Ways, Records, Contents, Books, now \in Nat, Respond
  PROVE  /\ Places' /\ Held' /\ Ways' /\ Records' /\ Contents' /\ Books'
         /\ Open' = Open /\ UNCHANGED Test_!vars
<1> PICK t : t = Path!BwFirst.trans
  OBVIOUS
<1> PICK id : id = Path!BwFirst.socket
  OBVIOUS
<1>1. /\ UNCHANGED <<now, memtest, setup, memory>> /\ Path!BwDue
      /\ IF id = 1 THEN Path!Forget(t) ELSE UNCHANGED sources
  BY DEF Respond
<1>2. /\ UNCHANGED <<sockets, mots>> /\ UNCHANGED <<setup, mots, payload, books, memory>>
  BY <1>1 DEF setup, memtest, books
<1>3. t \in Awaited /\ t \in Txn
  <2>1. Path!BwFirst \in Carried /\ Path!BwFirst.trans \in Awaited
    BY <1>1, BwFirstFacts
  <2> QED BY <2>1 DEF Carried
<1>4. CASE Path!BwDelivered /\ Initiator!TransportBw(t, "BEGIN_RESP", 0)
  <2>1. /\ Plain' /\ Awaited' = Awaited \ {t}
        /\ outstanding' \cup done_local' = outstanding \cup done_local
    BY <1>3, <1>4, ResponseTaken, HeldParts
  <2>2. Ways' /\ Queued(fw_queue)' = Queued(fw_queue)
    BY <1>1, <1>2, <1>4, <2>1, WaysDelivered
  <2> QED BY <1>2, <2>1, <2>2, OnlyWays
<1>5. CASE /\ id # 0 /\ Path!Source(t) # 1
           /\ \E drawn \in bw_delays : Path!BwForwarded(t, 0, drawn)
           /\ UNCHANGED initiator
  <2>1. PICK drawn \in Nat : Path!BwForwarded(t, 0, drawn)
    BY <1>5, Constants
  <2>2. Awaited' = Awaited /\ Plain' /\ outstanding' = outstanding /\ done_local' = done_local
    BY <1>5, HeldParts DEF Awaited, Plain, initiator
  <2>3. Ways' /\ Queued(fw_queue)' = Queued(fw_queue)
    BY <1>1, <1>2, <1>5, <2>1, <2>2, WaysReturned
  <2> QED BY <1>2, <2>2, <2>3, OnlyWays
<1>6. \/ Path!BwDelivered /\ Initiator!TransportBw(t, "BEGIN_RESP", 0)
      \/ /\ id # 0 /\ Path!Source(t) # 1
         /\ \E drawn \in bw_delays : Path!BwForwarded(t, 0, drawn)
         /\ UNCHANGED initiator
  BY Zenon DEF Respond
<1> QED BY <1>4, <1>5, <1>6

(* The initiator finishes what is due. *)
LEMMA FinishStep ==
  ASSUME Places, Held, Ways, Records, Contents, Books, now \in Nat, Finish
  PROVE  /\ Places' /\ Held' /\ Ways' /\ Records' /\ Contents' /\ Books'
         /\ Open' = Open /\ UNCHANGED Test_!vars
<1>1. Initiator!CompleteMethod /\ UNCHANGED <<now, memtest, setup, path, memory>>
  BY DEF Finish
<1>2. /\ UNCHANGED <<setup, mots, payload, books, memory>>
      /\ UNCHANGED <<fw_queue, bw_queue, sources, sockets, mots>>
      /\ fw_next' = fw_next /\ bw_next' = bw_next
  BY <1>1 DEF setup, memtest, books, path
<1>3. Plain' /\ Awaited' = Awaited /\ outstanding' \cup done_local' = outstanding \cup done_local
  BY <1>1, FinishedLater, HeldParts
<1>4. Ways' /\ Queued(fw_queue)' = Queued(fw_queue)
  <2>1. \A u, x : OfSocket(u, x) => OfSocket(u, x)'
    BY <1>2 DEF OfSocket
  <2>2. fw_next' \in Nat /\ bw_next' \in Nat
    BY <1>2, WaysParts
  <2> QED BY <1>2, <1>3, <2>1, <2>2, WaysStay DEF Queued, Items
<1> QED BY <1>2, <1>3, <1>4, OnlyWays

(* Steps of the thread that neither issue nor complete a request, and the  *)
(* passing of time.                                                        *)
LEMMA ControlStep ==
  ASSUME Places, Held, Ways, Records, Contents, Books,
         UNCHANGED <<mots, payload, books, initiator, setup, path, memory>>
  PROVE  /\ Places' /\ Held' /\ Ways' /\ Records' /\ Contents' /\ Books'
         /\ Open' = Open /\ UNCHANGED Test_!vars
<1>1. Awaited' = Awaited /\ Plain' /\ outstanding' = outstanding /\ done_local' = done_local
  BY HeldParts DEF Awaited, Plain, initiator
<1>2. /\ UNCHANGED <<fw_queue, bw_queue, sources, sockets, mots>>
      /\ fw_next' = fw_next /\ bw_next' = bw_next
  BY DEF setup, path
<1>3. Ways' /\ Queued(fw_queue)' = Queued(fw_queue)
  <2>1. \A u, x : OfSocket(u, x) => OfSocket(u, x)'
    BY <1>2 DEF OfSocket
  <2>2. fw_next' \in Nat /\ bw_next' \in Nat
    BY <1>2, WaysParts
  <2> QED BY <1>1, <1>2, <2>1, <2>2, WaysStay DEF Queued, Items
<1> QED BY <1>1, <1>3, OnlyWays
--------------------------------------------------------------------------------
(* The thread.  A step of anything else leaves it where it is. *)
LEMMA ThreadKept ==
  ASSUME Thread, UNCHANGED <<now, control, mots, sockets>>
  PROVE  Thread'
<1>1. Pending' = Pending /\ Socket' = Socket /\ mots' = mots
      /\ UNCHANGED <<now, pc, scan, local, waited>>
  BY DEF Pending, Socket, control
<1>2. \A s : Oldest(s)' <=> Oldest(s')
  BY <1>1 DEF Oldest
<1>3. (\E s \in Socket : Oldest(s))' <=> \E s \in Socket : Oldest(s)
  BY <1>1 DEF Oldest
<1>4. Oldest(Min(Pending))' <=> Oldest(Min(Pending))
  BY <1>1 DEF Oldest
<1>5. Oldest(0)' <=> Oldest(0)
  BY <1>1 DEF Oldest
<1>6. Oldest(scan)' <=> Oldest(scan)
  BY <1>1 DEF Oldest
<1> QED BY <1>1, <1>3, <1>4, <1>5, <1>6 DEF Thread

LEMMA BelowKept ==
  ASSUME Open' \subseteq Open,
         \A u \in Open' : /\ payload'[u].index = payload[u].index
                          /\ payload'[u].length = payload[u].length,
         NEW n, Below(n)
  PROVE  \A u \in Open' : payload'[u].index + payload'[u].length <= n
BY DEF Below

LEMMA ProgressKept ==
  ASSUME Progress, UNCHANGED control, Len(payload') = Len(payload), Open' \subseteq Open,
         \A u \in Open' : /\ payload'[u].index = payload[u].index
                          /\ payload'[u].length = payload[u].length
  PROVE  Progress'
<1>1. UNCHANGED <<pc, index, iteration>>
  BY DEF control
<1>2. Below(index) => Below(index)'
  BY <1>1 DEF Below
<1>3. Below(index + max_length) => Below(index + max_length)'
  BY <1>1 DEF Below
<1> QED BY <1>1, <1>2, <1>3 DEF Progress

LEMMA DeliverInv == ASSUME Inv, Deliver PROVE Inv' /\ (Test_!Next \/ UNCHANGED Test_!vars)
<1>1. UNCHANGED <<now, control, mots, sockets>> /\ now \in Nat
  BY DEF Deliver, setup, Inv, Thread
<1>2. /\ Places' /\ Held' /\ Ways' /\ Records' /\ Contents' /\ Books'
      /\ Open' = Open /\ Len(payload') = Len(payload)
      /\ \A u \in Open : /\ payload'[u].index = payload[u].index
                         /\ payload'[u].length = payload[u].length
      /\ Test_!Next \/ UNCHANGED Test_!vars
  BY <1>1, DeliverStep DEF Inv
<1>3. Thread' /\ Progress'
  BY <1>1, <1>2, ThreadKept, ProgressKept DEF Inv
<1> QED BY <1>2, <1>3 DEF Inv

LEMMA RespondInv == ASSUME Inv, Respond PROVE Inv' /\ UNCHANGED Test_!vars
<1>1. UNCHANGED <<now, control, mots, sockets>> /\ payload' = payload /\ now \in Nat
  BY DEF Respond, setup, memtest, control, Inv, Thread
<1>2. /\ Places' /\ Held' /\ Ways' /\ Records' /\ Contents' /\ Books'
      /\ Open' = Open /\ UNCHANGED Test_!vars
  BY <1>1, RespondStep DEF Inv
<1>3. Thread' /\ Progress'
  BY <1>1, <1>2, ThreadKept, ProgressKept DEF Inv
<1> QED BY <1>2, <1>3 DEF Inv

LEMMA FinishInv == ASSUME Inv, Finish PROVE Inv' /\ UNCHANGED Test_!vars
<1>1. UNCHANGED <<now, control, mots, sockets>> /\ payload' = payload /\ now \in Nat
  BY DEF Finish, setup, memtest, control, Inv, Thread
<1>2. /\ Places' /\ Held' /\ Ways' /\ Records' /\ Contents' /\ Books'
      /\ Open' = Open /\ UNCHANGED Test_!vars
  BY <1>1, FinishStep DEF Inv
<1>3. Thread' /\ Progress'
  BY <1>1, <1>2, ThreadKept, ProgressKept DEF Inv
<1> QED BY <1>2, <1>3 DEF Inv

LEMMA TickInv == ASSUME Inv, Tick PROVE Inv' /\ UNCHANGED Test_!vars
<1>1. /\ UNCHANGED <<mots, payload, books, initiator, setup, path, memory>>
      /\ UNCHANGED <<control, mots, sockets, payload>>
      /\ UNCHANGED <<pc, scan, local, waited>>
  BY DEF Tick, setup, memtest, books, control
<1>2. /\ Places' /\ Held' /\ Ways' /\ Records' /\ Contents' /\ Books'
      /\ Open' = Open /\ UNCHANGED Test_!vars
  BY <1>1, ControlStep DEF Inv
<1>3. Progress'
  BY <1>1, <1>2, ProgressKept DEF Inv
<1>4. now' \in Nat /\ (pc \in {"init", "scan", "sync", "drain"} => local >= now')
  <2>1. now' = now + 1 /\ pc \notin {"init", "scan"}
    BY DEF Tick, Running
  <2>2. now \in Nat /\ local \in Nat
    BY DEF Inv, Thread
  <2>3. pc \in {"sync", "drain"} => local > now
    BY <2>2 DEF Tick, Woken
  <2> QED BY <2>1, <2>2, <2>3
<1>5. Thread'
  <2>1. Pending' = Pending /\ Socket' = Socket /\ mots' = mots
    BY <1>1 DEF Pending, Socket
  <2>2. (\E s \in Socket : Oldest(s))' <=> \E s \in Socket : Oldest(s)
    BY <1>1, <2>1 DEF Oldest
  <2>3. Oldest(Min(Pending))' <=> Oldest(Min(Pending))
    BY <1>1, <2>1 DEF Oldest
  <2>4. (Oldest(0)' <=> Oldest(0)) /\ (Oldest(scan)' <=> Oldest(scan))
    BY <1>1, <2>1 DEF Oldest
  <2> QED BY <1>1, <1>4, <2>1, <2>2, <2>3, <2>4 DEF Thread, Inv
<1> QED BY <1>2, <1>3, <1>5 DEF Inv
--------------------------------------------------------------------------------
(* The steps of the thread between its waits. *)
LEMMA OldestType ==
  ASSUME Places, Held, NEW s, Oldest(s)
  PROVE  s \in Socket /\ waited \in Txn /\ done_time[waited] \in Nat
<1>1. mots[s] \in Seq(Txn) /\ mots[s] # <<>> /\ s \in Socket /\ waited = Head(mots[s])
  BY DEF Places, Lists, Oldest
<1>2. waited \in Txn
  BY <1>1
<1> QED BY <1>1, <1>2 DEF Held

LEMMA SocketFacts ==
  ASSUME Places
  PROVE  /\ 0 \in Socket /\ Socket \in SUBSET Nat
         /\ Finished \in SUBSET Nat /\ Pending \in SUBSET Nat
         /\ \A s \in Socket : Len(mots[s]) \in Nat
BY DEF Places, Socket, Finished, Pending, Lists

(* Between two waits, and at one. *)
LEMMA ThreadRuns ==
  ASSUME pc' \in {"init", "scan", "sync", "drain", "done"}, waited' = NoTxn,
         scan' \in Nat, local' \in Nat, now' \in Nat,
         pc' # "done" => local' >= now',
         pc' = "init" => Len(mots'[0]) < max_mots
  PROVE  Thread'
<1>1. pc' \notin Waits
  BY DEF Waits
<1>2. pc' # "init_wait" /\ pc' # "scan_wait" /\ pc' # "full_wait" /\ pc' # "drain_wait"
      /\ pc' # "idle"
  OBVIOUS
<1> QED BY <1>1, <1>2 DEF Thread

LEMMA ThreadWaits ==
  ASSUME pc' \in Waits, scan' \in Nat, local' \in Nat, now' \in Nat,
         pc' = "init_wait" => Oldest(0)',
         pc' = "scan_wait" => Oldest(scan)',
         pc' = "full_wait" => (\E s \in Socket : Oldest(s))',
         pc' = "drain_wait" => (Pending # {} /\ Oldest(Min(Pending)))'
  PROVE  Thread'
<1>1. pc' \notin {"idle", "init", "scan", "sync", "drain"}
  BY DEF Waits
<1> QED BY <1>1 DEF Thread

LEMMA LoopInv == ASSUME Inv, Loop PROVE Inv' /\ UNCHANGED Test_!vars
<1>1. Looping /\ UNCHANGED <<now, initiator, setup, path, memory>>
  BY DEF Loop
<1>2. UNCHANGED <<mots, payload, books, now, sockets>>
  BY <1>1 DEF Looping, Trigger, InitDone, ScanPop, LaunchFails, Full, DrainPop, setup
<1>3. /\ Places' /\ Held' /\ Ways' /\ Records' /\ Contents' /\ Books'
      /\ Open' = Open /\ UNCHANGED Test_!vars
  BY <1>1, <1>2, ControlStep DEF Inv
<1>4. /\ Pending' = Pending /\ Socket' = Socket /\ mots' = mots /\ Len(payload') = Len(payload)
      /\ payload' = payload /\ now' = now
  BY <1>2 DEF Pending, Socket
<1>5. Thread /\ Progress /\ Places /\ Contents
  BY DEF Inv
<1>6. /\ now \in Nat /\ local \in Nat /\ scan \in Nat /\ index \in Nat
      /\ iteration \in 0..iterations /\ iterations \in Nat
      /\ Len(payload) <= size \div max_length + iteration
      /\ Len(payload) \in Nat /\ size \div max_length \in Nat
      /\ max_length \in Nat \ {0} /\ size \in Nat \ {0} /\ max_mots \in Nat \ {0}
  BY <1>5, Constants, QuotientType DEF Thread, Progress, Places
<1>7. /\ 0 \in Socket /\ Socket \in SUBSET Nat
      /\ Finished \in SUBSET Nat /\ Pending \in SUBSET Nat
      /\ \A s \in Socket : Len(mots[s]) \in Nat
  BY <1>5, SocketFacts
<1>8. CASE Trigger
  <2>1. /\ pc = "idle" /\ pc' = "init" /\ index' = 0 /\ local' = now
        /\ UNCHANGED <<iteration, scan, waited>>
    BY <1>8 DEF Trigger
  <2>2. Thread'
    <3>1. waited' = NoTxn /\ Len(mots'[0]) < max_mots
      BY <1>4, <1>5, <2>1 DEF Thread, Waits
    <3> QED BY <1>4, <1>6, <2>1, <3>1, ThreadRuns
  <2>3. index = 0 /\ Below(index) /\ Len(payload) * max_length = index /\ iteration = 0
    BY <1>5, <2>1 DEF Progress
  <2>4. Below(index)'
    BY <1>3, <1>4, <2>1, <2>3 DEF Below
  <2>5. Progress'
    BY <1>4, <1>6, <2>1, <2>3, <2>4 DEF Progress
  <2> QED BY <1>3, <2>2, <2>5 DEF Inv
<1>9. CASE InitDone
  <2>1. /\ pc = "init" /\ pc' = (IF iterations = 0 THEN "drain" ELSE "scan")
        /\ iteration' = 0 /\ scan' = 0 /\ UNCHANGED <<index, local, waited>>
    BY <1>9 DEF InitDone
  <2>2. Thread'
    <3>1. waited' = NoTxn /\ local >= now
      BY <1>4, <1>5, <2>1 DEF Thread, Waits
    <3> QED BY <1>4, <1>6, <2>1, <3>1, ThreadRuns
  <2>3. iteration = 0
    BY <1>5, <2>1 DEF Progress
  <2>4. Progress'
    BY <1>4, <1>6, <2>1, <2>3 DEF Progress
  <2> QED BY <1>3, <2>2, <2>4 DEF Inv
<1>10. CASE ScanPop
  <2>1. /\ pc = "scan" /\ Finished # {} /\ pc' = "scan_wait" /\ scan' = Min(Finished)
        /\ waited' = Head(mots[scan']) /\ UNCHANGED <<index, iteration, local>>
    BY <1>10 DEF ScanPop
  <2>2. scan' \in Finished
    BY <1>7, <2>1, MinIsLeast
  <2>3. scan' \in Socket /\ mots[scan'] # <<>> /\ scan' \in Nat
    BY <1>7, <2>2 DEF Finished, FrontDone
  <2>4. Oldest(scan)'
    BY <1>4, <2>1, <2>3 DEF Oldest
  <2>5. Thread'
    BY <1>4, <1>6, <2>1, <2>3, <2>4, ThreadWaits DEF Waits
  <2>6. iteration < iterations
    BY <1>5, <2>1 DEF Progress
  <2>7. Progress'
    BY <1>4, <1>6, <2>1, <2>6 DEF Progress
  <2> QED BY <1>3, <2>5, <2>7 DEF Inv
<1>11. CASE LaunchFails
  <2>1. /\ pc = "scan" /\ iteration' = iteration + 1 /\ scan' = 0
        /\ pc' \in {"sync", IF iteration + 1 = iterations THEN "drain" ELSE "scan"}
        /\ UNCHANGED <<index, local, waited>>
    BY <1>11 DEF LaunchFails, IterationOver
  <2>2. Thread'
    <3>1. waited' = NoTxn /\ local >= now
      BY <1>4, <1>5, <2>1 DEF Thread, Waits
    <3> QED BY <1>4, <1>6, <2>1, <3>1, ThreadRuns
  <2>3. iteration < iterations
    BY <1>5, <2>1 DEF Progress
  <2>4. Progress'
    BY <1>4, <1>6, <2>1, <2>3 DEF Progress
  <2> QED BY <1>3, <2>2, <2>4 DEF Inv
<1>12. CASE Full
  <2>1. /\ pc = "scan" /\ pc' = "full_wait" /\ UNCHANGED <<index, iteration, scan, local>>
        /\ \A s \in Socket : ~Room(s)
    BY <1>12 DEF Full
  <2>2. PICK s \in Socket : waited' = Head(mots[s])
    BY <1>12 DEF Full
  <2>3. mots[s] # <<>>
    BY <1>6, <1>7, <2>1 DEF Room
  <2>4. (\E x \in Socket : Oldest(x))'
    BY <1>4, <2>2, <2>3 DEF Oldest
  <2>5. Thread'
    BY <1>4, <1>6, <2>1, <2>4, ThreadWaits DEF Waits
  <2>6. iteration < iterations
    BY <1>5, <2>1 DEF Progress
  <2>7. Progress'
    BY <1>4, <1>6, <2>1, <2>6 DEF Progress
  <2> QED BY <1>3, <2>5, <2>7 DEF Inv
<1>13. CASE DrainPop
  <2>1. /\ pc = "drain" /\ Pending # {} /\ pc' = "drain_wait"
        /\ waited' = Head(mots[Min(Pending)]) /\ UNCHANGED <<index, iteration, scan, local>>
    BY <1>13 DEF DrainPop
  <2>2. Min(Pending) \in Pending
    BY <1>7, <2>1, MinIsLeast
  <2>3. Min(Pending) \in Socket /\ mots[Min(Pending)] # <<>>
    BY <2>2 DEF Pending
  <2>4. Oldest(Min(Pending))'
    BY <1>4, <2>1, <2>3 DEF Oldest
  <2>5. Thread'
    BY <1>4, <1>6, <2>1, <2>4, ThreadWaits DEF Waits
  <2>6. Progress'
    BY <1>4, <1>6, <2>1 DEF Progress
  <2> QED BY <1>3, <2>5, <2>6 DEF Inv
<1> QED BY <1>1, <1>8, <1>9, <1>10, <1>11, <1>12, <1>13 DEF Looping
--------------------------------------------------------------------------------
(* The thread goes on after a wait, with the local time advanced. *)
LEMMA AfterType ==
  ASSUME now \in Nat, local \in Nat, NEW t, done_time[t] \in Nat
  PROVE  After(t) \in Nat /\ After(t) >= now
BY DEF After, Later

(* It has completed and released the request it waited for. *)
LEMMA ClosedInv ==
  ASSUME Inv, pc \in Waits, NEW s, Oldest(s), Returns(waited), Close(s),
         local' = After(waited), waited' = NoTxn, pc' \in {"init", "scan", "drain"},
         UNCHANGED <<now, initiator, setup, path, memory>>,
         scan' \in Nat, pc' = "init" => s = 0,
         index' \in Nat, iteration' = iteration,
         pc' = "init" =>
            /\ iteration = 0 /\ Len(payload) * max_length = index' /\ index' <= size
            /\ index' = index + max_length /\ Below(index + max_length),
         pc' = "scan" => iteration < iterations
  PROVE  Inv' /\ Test_!Next
<1>1. /\ Thread /\ Progress /\ Places /\ Held /\ Ways /\ Records /\ Contents /\ Books
  BY DEF Inv
<1>2. s \in Socket /\ done_time[waited] \in Nat
  BY <1>1, OldestType
<1>3. local' \in Nat /\ local' >= now' /\ now' \in Nat
  <2>1. now \in Nat /\ local \in Nat /\ now' = now
    BY <1>1 DEF Thread
  <2> QED BY <1>2, <2>1, AfterType
<1>4. /\ Places' /\ Held' /\ Ways' /\ Records' /\ Contents' /\ Books'
      /\ Open' \subseteq Open /\ \A u \in Open' : payload'[u] = payload[u]
      /\ Len(payload') = Len(payload) /\ Len(mots'[s]) < max_mots
      /\ Test_!Next
  <2>1. waited \in done_local
    BY DEF Returns
  <2> QED BY <1>1, <1>2, <2>1, CloseStep
<1>5. Thread'
  BY <1>3, <1>4, ThreadRuns
<1>6. pc' = "init" => Below(index)'
  <2> HAVE pc' = "init"
  <2>1. \A u \in Open' : payload'[u].index + payload'[u].length <= index'
    BY <1>4, BelowKept
  <2> QED BY <2>1 DEF Below
<1>7. Progress'
  <2>1. /\ iteration \in 0..iterations /\ Len(payload) <= size \div max_length + iteration
    BY <1>1 DEF Progress
  <2>2. /\ pc' # "idle" /\ pc' # "init_wait" /\ pc' # "scan_wait" /\ pc' # "full_wait"
    OBVIOUS
  <2> QED BY <1>4, <1>6, <2>1, <2>2 DEF Progress
<1> QED BY <1>4, <1>5, <1>7 DEF Inv

LEMMA WaitInv == ASSUME Inv, Wait PROVE Inv' /\ (Test_!Next \/ UNCHANGED Test_!vars)
<1>1. Waiting /\ UNCHANGED <<now, initiator, setup, path, memory>>
  BY DEF Wait
<1>2. /\ Thread /\ Progress /\ Places /\ Held /\ Ways /\ Records /\ Contents /\ Books
  BY DEF Inv
<1>3. /\ now \in Nat /\ local \in Nat /\ scan \in Nat /\ index \in Nat
      /\ iteration \in 0..iterations /\ iterations \in Nat /\ max_length \in Nat \ {0}
      /\ Len(payload) <= size \div max_length + iteration /\ now' = now
  BY <1>1, <1>2, Constants DEF Thread, Progress
<1>4. CASE InitWait
  <2>1. /\ pc = "init_wait" /\ Returns(waited) /\ local' = After(waited) /\ waited' = NoTxn
        /\ Close(0) /\ pc' = "init" /\ index' = index + max_length
        /\ UNCHANGED <<iteration, scan>>
    BY <1>4 DEF InitWait
  <2>2. Oldest(0) /\ pc \in Waits
    BY <1>2, <2>1 DEF Thread, Waits
  <2>3. /\ iteration = 0 /\ Len(payload) * max_length = index + max_length
        /\ index + max_length <= size /\ Below(index + max_length)
    BY <1>2, <2>1 DEF Progress
  <2>4. index' \in Nat /\ scan' \in Nat
    BY <1>3, <2>1
  <2> QED BY <1>1, <2>1, <2>2, <2>3, <2>4, ClosedInv
<1>5. CASE ScanWait
  <2>1. /\ pc = "scan_wait" /\ Returns(waited) /\ local' = After(waited) /\ waited' = NoTxn
        /\ Close(scan) /\ pc' = "scan" /\ UNCHANGED <<index, iteration, scan>>
    BY <1>5 DEF ScanWait
  <2> PICK s : s = scan
    OBVIOUS
  <2>2. Oldest(s) /\ Close(s) /\ pc \in Waits
    BY <1>2, <2>1 DEF Thread, Waits
  <2>3. iteration < iterations
    BY <1>2, <2>1 DEF Progress
  <2>4. index' \in Nat /\ scan' \in Nat /\ pc' # "init"
    BY <1>3, <2>1
  <2> QED BY <1>1, <2>1, <2>2, <2>3, <2>4, ClosedInv
<1>6. CASE DrainWait
  <2>1. /\ pc = "drain_wait" /\ Returns(waited) /\ local' = After(waited) /\ waited' = NoTxn
        /\ Close(Min(Pending)) /\ pc' = "drain" /\ UNCHANGED <<index, iteration, scan>>
    BY <1>6 DEF DrainWait
  <2> PICK s : s = Min(Pending)
    OBVIOUS
  <2>2. Oldest(s) /\ Close(s) /\ pc \in Waits
    BY <1>2, <2>1 DEF Thread, Waits
  <2>3. index' \in Nat /\ scan' \in Nat /\ pc' # "init" /\ pc' # "scan"
    BY <1>3, <2>1
  <2> QED BY <1>1, <2>1, <2>2, <2>3, ClosedInv
<1>7. ASSUME UNCHANGED <<mots, payload, books>>
      PROVE  /\ Places' /\ Held' /\ Ways' /\ Records' /\ Contents' /\ Books'
             /\ UNCHANGED Test_!vars
  BY <1>1, <1>2, <1>7, ControlStep
<1>8. CASE FullWait
  <2>1. /\ pc = "full_wait" /\ local' = After(waited) /\ waited' = NoTxn
        /\ pc' = "scan" /\ scan' = 0 /\ UNCHANGED <<index, iteration>>
        /\ UNCHANGED <<mots, payload, books>>
    BY <1>8 DEF FullWait
  <2>2. PICK s \in Socket : Oldest(s)
    BY <1>2, <2>1 DEF Thread
  <2>3. local' \in Nat /\ local' >= now
    BY <1>2, <1>3, <2>1, <2>2, OldestType, AfterType
  <2>4. Thread'
    BY <1>3, <2>1, <2>3, ThreadRuns
  <2>5. iteration < iterations
    BY <1>2, <2>1 DEF Progress
  <2>6. Progress'
    BY <1>3, <2>1, <2>5 DEF Progress
  <2> QED BY <1>7, <2>1, <2>4, <2>6 DEF Inv
<1>9. CASE SyncWait
  <2>1. /\ pc = "sync" /\ local' = now
        /\ pc' = (IF iteration = iterations THEN "drain" ELSE "scan")
        /\ UNCHANGED <<index, iteration, scan, waited>> /\ UNCHANGED <<mots, payload, books>>
    BY <1>9 DEF SyncWait
  <2>2. waited = NoTxn
    BY <1>2, <2>1 DEF Thread, Waits
  <2>3. Thread'
    BY <1>3, <2>1, <2>2, ThreadRuns
  <2>4. Progress'
    BY <1>3, <2>1 DEF Progress
  <2> QED BY <1>7, <2>1, <2>3, <2>4 DEF Inv
<1>10. CASE FinalWait
  <2>1. /\ pc = "drain" /\ local' = now /\ pc' = "done"
        /\ UNCHANGED <<index, iteration, scan, waited>> /\ UNCHANGED <<mots, payload, books>>
    BY <1>10 DEF FinalWait
  <2>2. waited = NoTxn
    BY <1>2, <2>1 DEF Thread, Waits
  <2>3. Thread'
    BY <1>3, <2>1, <2>2, ThreadRuns
  <2>4. Progress'
    BY <1>3, <2>1 DEF Progress
  <2> QED BY <1>7, <2>1, <2>3, <2>4 DEF Inv
<1> QED BY <1>1, <1>4, <1>5, <1>6, <1>8, <1>9, <1>10 DEF Waiting
--------------------------------------------------------------------------------
(* The thread issues a request: the next burst of the first loop, *)
LEMMA BurstFresh ==
  ASSUME Inv, pc = "init", index < size
  PROVE  /\ New \in Txn /\ Fresh(Initialising)
         /\ Initialising.index = index /\ Initialising.length = max_length
         /\ index + max_length <= size
         /\ (Len(payload) + 1) * max_length = index + max_length
         /\ Len(payload) + 1 <= size \div max_length
<1>1. /\ Len(payload) * max_length = index /\ Below(index) /\ index \in Nat
      /\ Places /\ Books /\ Records /\ Len(payload) \in Nat
  BY DEF Inv, Progress, Places
<1> DEFINE n == Len(payload)
           q == size \div max_length
<1>2. /\ size \in Nat /\ max_length \in Nat \ {0} /\ iterations \in Nat
      /\ q \in Nat /\ size = q * max_length
  BY Constants, QuotientType
<1>3. n * max_length = index /\ n \in Nat
  BY <1>1
<1> HIDE DEF n, q
<1>4. n + 1 <= q /\ n * max_length + max_length <= q * max_length
      /\ (n + 1) * max_length = n * max_length + max_length
  BY <1>2, <1>3, OneMore
<1>5. n + 1 \in 1..(q + iterations)
  BY <1>2, <1>3, <1>4
<1>6. New \in Txn
  BY <1>5 DEF New, Txn, n, q
<1>7. index + max_length <= size
  BY <1>2, <1>3, <1>4
<1>8. ASSUME NEW l \in index..(index + max_length - 1)
      PROVE  l \in Loc /\ Usable(l, FALSE)
  <2>1. l \in Loc
    BY <1>1, <1>2, <1>7 DEF Loc
  <2>2. ASSUME NEW u \in Open PROVE l \notin Words(payload[u])
    <3>1. payload[u].index + payload[u].length <= index
      BY <1>1 DEF Below
    <3>2. payload[u].index \in Nat /\ payload[u].length \in Nat
      BY <1>1 DEF Records, Proper
    <3> QED BY <1>1, <1>2, <3>1, <3>2 DEF Words
  <2>3. OpenAt(l, TRUE) = {} /\ OpenAt(l, FALSE) = {}
    BY <2>2 DEF OpenAt
  <2>4. read_pending[l] = 0 /\ write_pending[l] = 0
    BY <1>1, <2>1, <2>3, PendingCounts
  <2> QED BY <2>1, <2>4 DEF Usable
<1>9. Fresh(Initialising)
  <2>1. Initialising =
          Payload(FALSE, index, max_length, New, index..(index + max_length - 1))
    BY DEF Initialising, Write
  <2> QED BY <1>1, <1>2, <1>6, <1>7, <1>8, <2>1, PayloadFields
<1>10. Initialising.index = index /\ Initialising.length = max_length
  BY DEF Initialising, Write, Payload
<1> QED BY <1>3, <1>4, <1>6, <1>7, <1>9, <1>10 DEF n, q

LEMMA InitialiseInv == ASSUME Inv, Initialise PROVE Inv' /\ Test_!Next
<1>1. /\ pc = "init" /\ index < size /\ Issued(0, Initialising) /\ Call(0, Initialising)
      /\ UNCHANGED <<now, setup>> /\ UNCHANGED <<iteration, scan, local>>
      /\ IF Len(mots'[0]) >= max_mots
         THEN pc' = "init_wait" /\ waited' = Head(mots'[0]) /\ index' = index
         ELSE pc' = pc /\ waited' = waited /\ index' = index + max_length
  BY DEF Initialise, InitLaunch
<1>2. /\ Thread /\ Progress /\ Places /\ Held /\ Ways /\ Records /\ Contents /\ Books
  BY DEF Inv
<1> PICK p : p = Initialising
  OBVIOUS
<1> PICK t : t = New
  OBVIOUS
<1>3. /\ t \in Txn /\ Fresh(p) /\ p.index = index /\ p.length = max_length
      /\ index + max_length <= size /\ t * max_length = index + max_length
      /\ t <= size \div max_length /\ Issued(0, p) /\ Call(0, p)
  BY <1>1, BurstFresh DEF New
<1>4. /\ now \in Nat /\ local \in Nat /\ local >= now /\ scan \in Nat
      /\ Len(mots[0]) < max_mots /\ waited = NoTxn
  BY <1>1, <1>2 DEF Thread, Waits
<1>5. index \in Nat /\ iteration = 0 /\ Below(index)
  BY <1>1, <1>2 DEF Progress
<1>6. 0 \in Socket /\ max_length \in Nat \ {0} /\ max_mots \in Nat \ {0} /\ iterations \in Nat
      /\ size \div max_length \in Nat
  BY <1>2, SocketFacts, Constants, QuotientType
<1>7. /\ Places' /\ Held' /\ Ways' /\ Records' /\ Contents' /\ Books'
      /\ Open' = Open \cup {t} /\ \A u \in Open : payload'[u] = payload[u]
      /\ payload'[t].index = p.index /\ payload'[t].length = p.length
      /\ Len(payload') = t
      /\ Test_!Next
  BY <1>1, <1>2, <1>3, <1>4, <1>6, IssueStep
<1>8. 0 \in Socket' /\ mots'[0] \in Seq(Txn) /\ Len(mots'[0]) \in Nat
  <2>1. Socket' = Socket
    BY <1>1 DEF setup, Socket
  <2>2. mots' \in [Socket' -> Seq(Txn)]
    BY <1>7 DEF Places, Lists
  <2> QED BY <1>6, <2>1, <2>2
<1>9. \A u \in Open' : payload'[u].index + payload'[u].length <= index + max_length
  <2> SUFFICES ASSUME NEW u \in Open'
               PROVE  payload'[u].index + payload'[u].length <= index + max_length
    OBVIOUS
  <2>1. CASE u = t
    BY <1>3, <1>5, <1>6, <1>7, <2>1
  <2>2. CASE u \in Open
    <3>1. payload[u].index + payload[u].length <= index
      BY <1>5, <2>2 DEF Below
    <3>2. payload[u].index \in Nat /\ payload[u].length \in Nat
      BY <1>2, <2>2 DEF Records, Proper
    <3> QED BY <1>5, <1>6, <1>7, <2>2, <3>1, <3>2
  <2> QED BY <1>7, <2>1, <2>2
<1>10. CASE Len(mots'[0]) >= max_mots
  <2>1. pc' = "init_wait" /\ waited' = Head(mots'[0]) /\ index' = index
    BY <1>1, <1>10
  <2>2. mots'[0] # <<>>
    BY <1>6, <1>8, <1>10
  <2>3. Oldest(0)'
    BY <1>8, <2>1, <2>2 DEF Oldest
  <2>4. Thread'
    BY <1>1, <1>4, <2>1, <2>3, ThreadWaits DEF Waits
  <2>5. Below(index + max_length)'
    BY <1>9, <2>1 DEF Below
  <2>6. Progress'
    BY <1>1, <1>3, <1>5, <1>6, <1>7, <2>1, <2>5 DEF Progress
  <2> QED BY <1>7, <2>4, <2>6 DEF Inv
<1>11. CASE ~(Len(mots'[0]) >= max_mots)
  <2>1. pc' = "init" /\ waited' = NoTxn /\ index' = index + max_length
    BY <1>1, <1>4, <1>11
  <2>2. Len(mots'[0]) < max_mots
    BY <1>6, <1>8, <1>11
  <2>3. Thread'
    BY <1>1, <1>4, <2>1, <2>2, ThreadRuns
  <2>4. Below(index)'
    BY <1>9, <2>1 DEF Below
  <2>5. Progress'
    BY <1>1, <1>3, <1>5, <1>6, <1>7, <2>1, <2>4 DEF Progress
  <2> QED BY <1>7, <2>3, <2>5 DEF Inv
<1> QED BY <1>10, <1>11

(* and one of the test, on the first socket with room. *)
LEMMA NextHasRoom ==
  ASSUME Places, Progress, \E s \in Socket : Room(s)
  PROVE  NextSocket \in Socket /\ Room(NextSocket)
<1> DEFINE S == {j \in Socket : Room(Turn(j))}
<1>1. sockets \in Nat \ {0} /\ iteration \in Nat /\ Socket = 0..sockets - 1 /\ Socket \in SUBSET Nat
  BY Constants DEF Places, Progress, Socket
<1>2. PICK s \in Socket : Room(s)
  OBVIOUS
<1>3. PICK j \in Socket : (iteration + j) % sockets = s
  BY <1>1, <1>2, EachHasTurn
<1>4. j \in S
  BY <1>2, <1>3 DEF Turn
<1>5. S \in SUBSET Nat /\ S # {}
  BY <1>1, <1>4
<1> HIDE DEF S
<1>6. Min(S) \in S
  BY <1>5, MinIsLeast
<1>7. Min(S) \in Socket /\ Room(Turn(Min(S)))
  BY <1>6 DEF S
<1>8. NextSocket = Turn(Min(S))
  BY DEF NextSocket, S
<1>9. \A m \in Socket : Turn(m) \in Socket
  <2> SUFFICES ASSUME NEW m \in Socket PROVE Turn(m) \in Socket
    OBVIOUS
  <2>1. iteration + m \in Nat
    BY <1>1
  <2> QED BY <1>1, <2>1, RemainderType DEF Turn
<1> QED BY <1>7, <1>8, <1>9

LEMMA TestInv == ASSUME Inv, Test PROVE Inv' /\ Test_!Next
<1>1. UNCHANGED <<now, setup>> /\ \E p \in Requests : Launch(p) /\ Call(NextSocket, p)
  BY DEF Test
<1>2. PICK p \in Requests : Launch(p) /\ Call(NextSocket, p)
  BY <1>1
<1>3. /\ Thread /\ Progress /\ Places /\ Held /\ Ways /\ Records /\ Contents /\ Books
  BY DEF Inv
<1> PICK t : t = New
  OBVIOUS
<1> PICK s : s = NextSocket
  OBVIOUS
<1>4. /\ pc = "scan" /\ (\E x \in Socket : Room(x)) /\ Issued(s, p) /\ Call(s, p)
      /\ iteration' = iteration + 1 /\ scan' = 0
      /\ pc' \in {"sync", IF iteration + 1 = iterations THEN "drain" ELSE "scan"}
      /\ UNCHANGED <<index, local, waited>>
  BY <1>2 DEF Launch, IterationOver
<1>5. s \in Socket /\ Len(mots[s]) < max_mots
  BY <1>3, <1>4, NextHasRoom DEF Room
<1>6. /\ now \in Nat /\ local \in Nat /\ local >= now /\ waited = NoTxn
  BY <1>3, <1>4 DEF Thread, Waits
<1>7. /\ iteration \in 0..iterations /\ iteration < iterations /\ index \in Nat
      /\ Len(payload) <= size \div max_length + iteration
      /\ Len(payload) \in Nat /\ size \div max_length \in Nat /\ iterations \in Nat
  BY <1>3, <1>4, Constants, QuotientType DEF Progress, Places
<1>8. t \in Txn
  BY <1>7 DEF New, Txn
<1>9. Fresh(p)
  BY <1>2, <1>8, RequestFresh
<1>10. /\ Places' /\ Held' /\ Ways' /\ Records' /\ Contents' /\ Books'
       /\ Len(payload') = t /\ Test_!Next
  BY <1>1, <1>3, <1>4, <1>5, <1>6, <1>8, <1>9, IssueStep
<1>11. Thread'
  BY <1>1, <1>4, <1>6, ThreadRuns
<1>12. Progress'
  BY <1>4, <1>7, <1>10 DEF Progress, New
<1> QED BY <1>10, <1>11, <1>12 DEF Inv
--------------------------------------------------------------------------------
(* At the start no request is open. *)
LEMMA NoneOpen == ASSUME Init PROVE Open = {} /\ Lists
<1>1. mots = [s \in Socket |-> <<>>]
  BY DEF Init, MemtestInit
<1>2. \A s \in Socket : mots[s] = <<>> /\ Items(mots[s]) = {}
  BY <1>1 DEF Items
<1>3. Open = {}
  BY <1>2, OpenIsListed
<1>4. \A s \in Socket : Len(mots[s]) <= max_mots /\ Apart(mots[s])
  BY <1>2, Constants DEF Apart
<1> QED BY <1>1, <1>2, <1>3, <1>4 DEF Lists

LEMMA InitInv == ASSUME Init PROVE Inv
<1>1. /\ now = 0 /\ sockets \in Bindings /\ pc = "idle"
      /\ index = 0 /\ iteration = 0 /\ scan = 0 /\ local = 0 /\ waited = NoTxn
      /\ mots = [s \in Socket |-> <<>>] /\ payload = <<>>
      /\ init_done = {} /\ miscompare = FALSE
      /\ read_pending = [l \in Loc |-> 0] /\ write_pending = [l \in Loc |-> 0]
  BY DEF Init, MemtestInit
<1>2. /\ launch_queue = <<>> /\ launch_outstanding = FALSE /\ launch_event = FALSE
      /\ outstanding = {} /\ complete_queue = {} /\ done_local = {}
      /\ done_time = [t \in Txn |-> 0] /\ aborted = FALSE
  BY DEF Init, Initiator!StateInit
<1>3. /\ rm_ann \in BOOLEAN /\ fw_queue = <<>> /\ bw_queue = <<>> /\ fw_next = 0 /\ bw_next = 0
      /\ sources = {} /\ mem = [l \in Loc |-> 0] /\ next_time = 0
  BY DEF Init, Path!ChannelInit, Path!FabricInit, Path!MemInit, Path!Pattern
<1>4. Open = {} /\ Lists
  BY NoneOpen
<1>5. sockets \in Nat \ {0} /\ 0 \in Socket /\ max_mots \in Nat \ {0} /\ iterations \in Nat
      /\ size \in Nat \ {0} /\ max_length \in Nat \ {0} /\ size \div max_length \in Nat
  BY <1>1, Constants, QuotientType DEF Socket
<1>6. Thread
  <2>1. Len(mots[0]) < max_mots
    BY <1>1, <1>5
  <2> QED BY <1>1, <2>1 DEF Thread, Waits
<1>7. Len(payload) = 0 /\ payload \in Seq(Items(payload)) /\ Numbers = {}
  <2>1. Len(payload) = 0 /\ Numbers = {}
    BY <1>1 DEF Numbers
  <2>2. payload \in Seq(Items(payload))
    BY <1>1
  <2> QED BY <2>1, <2>2
<1>8. Progress
  <2>1. Below(index)
    BY <1>4 DEF Below
  <2> QED BY <1>1, <1>5, <1>7, <2>1 DEF Progress
<1>9. Places
  BY <1>3, <1>4, <1>5, <1>7 DEF Places
<1>10. Held
  BY <1>2, <1>4, <1>7 DEF Held, Awaited
<1>11. Ways
  <2>1. /\ Queue(fw_queue) /\ Items(fw_queue) = {} /\ Queued(fw_queue) = {}
        /\ Queue(bw_queue) /\ Items(bw_queue) = {} /\ Queued(bw_queue) = {}
    BY <1>3, EmptyQueue
  <2>2. Awaited = {}
    BY <1>2 DEF Awaited
  <2> QED BY <1>3, <2>1, <2>2 DEF Ways
<1>12. Records
  BY <1>4 DEF Records
<1>13. Contents
  BY <1>1, <1>3 DEF Contents, Word
<1>14. Books
  <2>1. \A l : OpenAt(l, TRUE) = {} /\ OpenAt(l, FALSE) = {}
    BY <1>4 DEF OpenAt
  <2>2. Cardinality({}) = 0
    BY FS_EmptySet
  <2>3. Counted /\ Exclusive
    BY <1>1, <2>1, <2>2 DEF Counted, Exclusive
  <2> QED BY <1>1, <2>3, BooksParts DEF Books
<1> QED BY <1>6, <1>8, <1>9, <1>10, <1>11, <1>12, <1>13, <1>14 DEF Inv

LEMMA InitRefined == ASSUME Init PROVE Test_!Init
<1>1. Open = {}
  BY NoneOpen
<1>2. /\ Asked = [t \in Txn |-> Test_!NoRequest]
      /\ Answers = [t \in Txn |-> "none"]
      /\ Got = [t \in Txn |-> Test_!Nothing]
  BY <1>1 DEF Asked, Answers, Got, Abstract, Status, Returned, Test_!NoRequest, Test_!Nothing
<1>3. /\ mem = [l \in Loc |-> 0] /\ mem_array = [l \in Loc |-> Garbage]
      /\ init_done = {} /\ miscompare = FALSE
  BY DEF Init, MemtestInit, Path!MemInit, Path!Pattern
<1>4. mem \in [Loc -> Word] /\ mem_array \in [Loc -> Word]
  BY <1>3 DEF Word
<1> QED BY <1>1, <1>2, <1>3, <1>4 DEF Test_!Init

LEMMA NextInv == ASSUME Inv, Next PROVE Inv' /\ (Test_!Next \/ UNCHANGED Test_!vars)
BY InitialiseInv, TestInv, LoopInv, WaitInv, DeliverInv, RespondInv, FinishInv, TickInv
   DEF Next

LEMMA StutterInv == ASSUME Inv, UNCHANGED vars PROVE Inv' /\ UNCHANGED Test_!vars
<1>1. /\ UNCHANGED <<mots, payload, books, initiator, setup, path, memory>>
      /\ UNCHANGED <<now, control, mots, sockets>> /\ payload' = payload
  BY DEF vars, memtest, books, control, setup
<1>2. /\ Places' /\ Held' /\ Ways' /\ Records' /\ Contents' /\ Books'
      /\ Open' = Open /\ UNCHANGED Test_!vars
  BY <1>1, ControlStep DEF Inv
<1>3. Thread' /\ Progress'
  BY <1>1, <1>2, ThreadKept, ProgressKept DEF Inv
<1> QED BY <1>2, <1>3 DEF Inv

(* What the runs check follows. *)
LEMMA EntriesOf ==
  ASSUME NEW q, Queue(q), NEW t
  PROVE  Cardinality({i \in DOMAIN q : q[i].trans = t}) = IF t \in Queued(q) THEN 1 ELSE 0
<1> DEFINE S == {i \in DOMAIN q : q[i].trans = t}
<1>1. t \in Queued(q) <=> S # {}
  BY DEF Queued, Items
<1>2. CASE S = {}
  BY <1>1, <1>2, FS_EmptySet
<1>3. CASE S # {}
  <2>1. PICK i : i \in S
    BY <1>3
  <2>2. S = {i}
    BY <2>1 DEF Queue, OneEach
  <2>3. Cardinality({i}) = 1
    BY FS_Singleton
  <2> QED BY <1>1, <1>3, <2>2, <2>3
<1> QED BY <1>2, <1>3

LEMMA Implied == ASSUME Inv PROVE IInv
<1>1. /\ Thread /\ Progress /\ Places /\ Held /\ Ways /\ Records /\ Contents /\ Books
  BY DEF Inv
<1>2. TypeOK
  <2>1. waited \in Txn \cup {NoTxn}
    <3>1. CASE pc \in Waits
      <4>1. \E s : Oldest(s)
        BY <1>1, <3>1 DEF Thread, Waits
      <4> QED BY <1>1, <4>1, OldestType
    <3>2. CASE pc \notin Waits
      BY <1>1, <3>2 DEF Thread
    <3> QED BY <3>1, <3>2
  <2> QED BY <1>1, <2>1 DEF TypeOK, Thread, Places, Lists, Contents, Held
<1>3. InFlightOnce
  <2>1. ASSUME NEW t \in Txn
        PROVE  Entries(t) = (IF t \in outstanding \ done_local THEN 1 ELSE 0)
    <3>1. /\ Cardinality({i \in DOMAIN fw_queue : fw_queue[i].trans = t})
               = (IF t \in Queued(fw_queue) THEN 1 ELSE 0)
          /\ Cardinality({i \in DOMAIN bw_queue : bw_queue[i].trans = t})
               = (IF t \in Queued(bw_queue) THEN 1 ELSE 0)
      BY <1>1, EntriesOf DEF Ways
    <3>2. /\ t \in Queued(fw_queue) \/ t \in Queued(bw_queue) <=> t \in outstanding \ done_local
          /\ ~(t \in Queued(fw_queue) /\ t \in Queued(bw_queue))
      BY <1>1 DEF Ways, Awaited
    <3> QED BY <3>1, <3>2 DEF Entries
  <2>2. ASSUME NEW i \in DOMAIN bw_queue
        PROVE  LET t == bw_queue[i].trans
               IN  IF bw_queue[i].socket = 0 THEN OfSocket(t, 0)
                   ELSE \E s \in Socket : <<t, s>> \in sources /\ OfSocket(t, s)
    <3>1. KnowsWay(bw_queue[i])
      BY <1>1 DEF Ways, Items
    <3> QED BY <3>1 DEF KnowsWay
  <2>3. \A s \in sources : s[1] \in outstanding \ done_local
    BY <1>1 DEF Ways, Awaited
  <2> QED BY <2>1, <2>2, <2>3 DEF InFlightOnce
<1>4. BooksRight /\ ~aborted /\ \A s \in Socket : Len(mots[s]) <= max_mots
  BY <1>1 DEF Books, Held, Places, Lists
<1> QED BY <1>2, <1>3, <1>4 DEF IInv
--------------------------------------------------------------------------------
(***************************************************************************)
(* A memory test that opens no conflicting requests never finds a wrong    *)
(* word in a memory that works, for any memory, any number of outstanding  *)
(* requests and any order in which they are served and closed.  Opening a  *)
(* request and serving one later differ only in when the memory acts, so   *)
(* both rest on what Served says (ServedFacts, ServedAgree).               *)
(***************************************************************************)

Outcome == {"none", "ok", "failed"}

LEMMA RegionInit ==
  ASSUME Test_!Init
  PROVE  Test_!IInv
<1>1. Test_!NoRequest \in Test_!Request /\ Test_!Nothing \in [Loc -> Word]
  BY DEF Test_!NoRequest, Test_!Nothing, Test_!Request, Word
<1>2. Test_!TypeOK
  BY <1>1 DEF Test_!Init, Test_!TypeOK
<1>3. Test_!Separate /\ Test_!Agree /\ Test_!NoMiscompare
  BY DEF Test_!Init, Test_!Separate, Test_!Agree, Test_!NoMiscompare
<1> QED BY <1>2, <1>3 DEF Test_!IInv

--------------------------------------------------------------------------------
(* What the memory does with a request: it touches nothing but the         *)
(* strobed words and the answer to this request.                           *)
LEMMA ServedFacts ==
  ASSUME Test_!TypeOK,
         NEW t \in Txn, NEW r \in Test_!Request, NEW a \in Outcome, Test_!Served(t, r, a)
  PROVE  /\ Answers' \in [Txn -> Outcome]
         /\ Got' \in [Txn -> [Loc -> Word]]
         /\ mem' \in [Loc -> Word]
         /\ Answers'[t] = a
         /\ \A u \in Txn \ {t} : Answers'[u] = Answers[u] /\ Got'[u] = Got[u]
         /\ \A l \in Loc \ r.strb : mem'[l] = mem[l]
         /\ a = "none" => mem' = mem
         /\ a = "ok" => \A l \in r.strb : mem'[l] = r.data
         /\ a = "ok" /\ r.read => \A l \in r.words : Got'[t][l] = mem[l]
<1>1. r.data \in Word /\ r.strb \subseteq Loc /\ r.words \subseteq Loc
  BY DEF Test_!Request
<1>2. /\ Answers' \in [Txn -> Outcome] /\ Answers'[t] = a
      /\ \A u \in Txn \ {t} : Answers'[u] = Answers[u]
  BY DEF Test_!Served, Test_!TypeOK, Outcome
<1>3. Test_!Fetched(r) \in [Loc -> Word] /\ \A l \in r.words : Test_!Fetched(r)[l] = mem[l]
  BY <1>1 DEF Test_!Fetched, Test_!TypeOK, Word
<1>4. /\ Got' \in [Txn -> [Loc -> Word]]
      /\ \A u \in Txn \ {t} : Got'[u] = Got[u]
      /\ a = "ok" /\ r.read => Got'[t] = Test_!Fetched(r)
  <2>1. CASE a = "ok" /\ r.read
    BY <1>3, <2>1 DEF Test_!Served, Test_!TypeOK
  <2>2. CASE ~(a = "ok" /\ r.read)
    BY <2>2 DEF Test_!Served, Test_!TypeOK
  <2> QED BY <2>1, <2>2
<1>5. \A part \in SUBSET r.strb :
        /\ Test_!Written(r, part) \in [Loc -> Word]
        /\ \A l \in part : Test_!Written(r, part)[l] = r.data
        /\ \A l \in Loc \ part : Test_!Written(r, part)[l] = mem[l]
  BY <1>1 DEF Test_!Written, Test_!TypeOK
<1>6. /\ mem' \in [Loc -> Word]
      /\ \A l \in Loc \ r.strb : mem'[l] = mem[l]
      /\ a = "none" => mem' = mem
      /\ a = "ok" => \A l \in r.strb : mem'[l] = r.data
  <2>1. CASE a = "ok"
    BY <1>5, <2>1 DEF Test_!Served
  <2>2. CASE a = "failed"
    <3>1. PICK part \in SUBSET r.strb : mem' = Test_!Written(r, part)
      BY <2>2 DEF Test_!Served
    <3> QED BY <1>1, <1>5, <2>2, <3>1
  <2>3. CASE a = "none"
    BY <2>3 DEF Test_!Served, Test_!TypeOK
  <2> QED BY <2>1, <2>2, <2>3 DEF Outcome
<1> QED BY <1>2, <1>3, <1>4, <1>6

(* A read gets what the tester expects: no open write reaches its words.   *)
LEMMA ReadExpected ==
  ASSUME Test_!TypeOK, Test_!Separate, Test_!Agree,
         NEW t \in Txn, NEW r \in Test_!Request, r.read, r.words \subseteq init_done,
         \A u \in Open \ {t} : ~Test_!Conflict(r, Asked[u]),
         t \notin Open \/ Answers[t] = "none",
         NEW l \in r.words
  PROVE  mem[l] = mem_array[l]
<1>1. SUFFICES ASSUME NEW u \in Open, ~Asked[u].read, l \in Asked[u].strb, Answers[u] # "none"
               PROVE  FALSE
  BY DEF Test_!Agree
<1>2. u # t /\ l \in Asked[u].words
  BY <1>1 DEF Test_!Separate, Test_!Valid
<1> QED BY <1>1, <1>2 DEF Test_!Conflict

(* Agree survives whatever the memory does with one request.               *)
LEMMA ServedAgree ==
  ASSUME Test_!TypeOK, Test_!Separate, Test_!Agree,
         NEW t \in Txn, NEW r \in Test_!Request, NEW a \in Outcome, Test_!Served(t, r, a),
         Test_!Valid(r), r.read => r.words \subseteq init_done,
         \A u \in Open \ {t} : ~Test_!Conflict(r, Asked[u]),
         t \notin Open \/ Answers[t] = "none",
         Open' = Open \cup {t}, Asked'[t] = r,
         \A u \in Open \ {t} : Asked'[u] = Asked[u],
         mem_array' = mem_array, init_done' = init_done
  PROVE  Test_!Agree'
<1> DEFINE Other == Open \ {t}
<1>1. /\ Answers'[t] = a
      /\ \A u \in Other : Answers'[u] = Answers[u] /\ Got'[u] = Got[u]
      /\ \A l \in Loc \ r.strb : mem'[l] = mem[l]
      /\ a = "none" => mem' = mem
      /\ a = "ok" => \A l \in r.strb : mem'[l] = r.data
      /\ a = "ok" /\ r.read => \A l \in r.words : Got'[t][l] = mem[l]
  BY ServedFacts DEF Test_!TypeOK
<1>2. r.strb \subseteq r.words /\ r.words \subseteq Loc /\ (r.read => r.strb = {})
  BY DEF Test_!Valid, Test_!Request
<1>3. ASSUME NEW l \in init_done'
      PROVE  \/ mem'[l] = mem_array'[l]
             \/ \E u \in Open' : ~Asked'[u].read /\ l \in Asked'[u].strb /\ Answers'[u] # "none"
  <2>1. CASE l \in r.strb /\ a # "none"
    BY <1>1, <1>2, <2>1
  <2>2. CASE l \notin r.strb \/ a = "none"
    <3>1. mem'[l] = mem[l]
      BY <1>1, <1>3, <2>2 DEF Test_!TypeOK
    <3>2. CASE mem[l] = mem_array[l]
      BY <3>1, <3>2
    <3>3. CASE mem[l] # mem_array[l]
      <4>1. PICK u \in Open : ~Asked[u].read /\ l \in Asked[u].strb /\ Answers[u] # "none"
        BY <1>3, <3>3 DEF Test_!Agree
      <4>2. u \in Other
        BY <4>1
      <4> QED BY <1>1, <4>1, <4>2
    <3> QED BY <3>2, <3>3
  <2> QED BY <2>1, <2>2
<1>4. ASSUME NEW u \in Open', ~Asked'[u].read, Answers'[u] = "ok", NEW l \in Asked'[u].strb
      PROVE  mem'[l] = Asked'[u].data
  <2>1. CASE u = t
    BY <1>1, <1>4, <2>1
  <2>2. CASE u \in Other
    <3>1. ~Asked[u].read /\ Answers[u] = "ok" /\ l \in Asked[u].strb /\ Asked'[u] = Asked[u]
      BY <1>1, <1>4, <2>2
    <3>2. l \in Loc /\ l \in Asked[u].words
      BY <2>2, <3>1 DEF Test_!Separate, Test_!Valid, Test_!TypeOK, Test_!Request
    <3>3. l \notin r.strb
      BY <1>2, <2>2, <3>1, <3>2 DEF Test_!Conflict
    <3>4. mem[l] = Asked[u].data
      BY <2>2, <3>1 DEF Test_!Agree
    <3> QED BY <1>1, <3>1, <3>2, <3>3, <3>4
  <2> QED BY <1>4, <2>1, <2>2
<1>5. ASSUME NEW u \in Open', Asked'[u].read, Answers'[u] = "ok", NEW l \in Asked'[u].words
      PROVE  Got'[u][l] = mem_array'[l]
  <2>1. CASE u = t
    <3>1. r.read /\ a = "ok" /\ l \in r.words /\ Got'[t][l] = mem[l]
      BY <1>1, <1>5, <2>1
    <3> QED BY <2>1, <3>1, ReadExpected
  <2>2. CASE u \in Other
    BY <1>1, <1>5, <2>2 DEF Test_!Agree
  <2> QED BY <1>5, <2>1, <2>2
<1> QED BY <1>3, <1>4, <1>5 DEF Test_!Agree

--------------------------------------------------------------------------------
LEMMA RegionOpen ==
  ASSUME Test_!IInv, NEW t \in Txn, NEW r \in Test_!Request, Test_!Open(t, r)
  PROVE  Test_!IInv'
<1>1. PICK a \in Outcome : Test_!Served(t, r, a)
  BY DEF Test_!Open, Outcome
<1>2. /\ t \notin Open /\ Test_!Valid(r) /\ (r.read => r.words \subseteq init_done)
      /\ \A u \in Open : ~Test_!Conflict(r, Asked[u])
      /\ Open' = Open \cup {t} /\ mem_array' = mem_array /\ init_done' = init_done
      /\ miscompare' = miscompare
  BY DEF Test_!Open
<1>3. /\ Asked' \in [Txn -> Test_!Request] /\ Asked'[t] = r
      /\ \A u \in Open : Asked'[u] = Asked[u]
  BY <1>2 DEF Test_!Open, Test_!IInv, Test_!TypeOK
<1>4. Test_!TypeOK'
  BY <1>1, <1>2, <1>3, ServedFacts DEF Test_!IInv, Test_!TypeOK, Outcome
<1>5. Test_!Separate'
  BY <1>2, <1>3 DEF Test_!IInv, Test_!Separate, Test_!Conflict, Test_!Valid
<1>6. Test_!Agree'
  BY <1>1, <1>2, <1>3, ServedAgree DEF Test_!IInv
<1> QED BY <1>2, <1>4, <1>5, <1>6 DEF Test_!IInv, Test_!NoMiscompare

LEMMA RegionServe ==
  ASSUME Test_!IInv, NEW t \in Txn, Test_!Serve(t)
  PROVE  Test_!IInv'
<1>1. PICK a \in Outcome : Test_!Served(t, Asked[t], a)
  BY DEF Test_!Serve, Outcome
<1>2. /\ t \in Open /\ Answers[t] = "none"
      /\ Open' = Open /\ Asked' = Asked /\ mem_array' = mem_array /\ init_done' = init_done
      /\ miscompare' = miscompare
  BY DEF Test_!Serve
<1>3. Asked[t] \in Test_!Request
  BY DEF Test_!IInv, Test_!TypeOK
<1>4. Test_!TypeOK'
  BY <1>1, <1>2, <1>3, ServedFacts DEF Test_!IInv, Test_!TypeOK, Outcome
<1>5. Test_!Separate'
  BY <1>2 DEF Test_!IInv, Test_!Separate, Test_!Conflict, Test_!Valid
<1>6. /\ Test_!Valid(Asked[t]) /\ (Asked[t].read => Asked[t].words \subseteq init_done)
      /\ \A u \in Open \ {t} : ~Test_!Conflict(Asked[t], Asked[u])
  BY <1>2 DEF Test_!IInv, Test_!Separate
<1>7. Test_!Agree'
  BY <1>1, <1>2, <1>3, <1>6, ServedAgree DEF Test_!IInv
<1> QED BY <1>2, <1>4, <1>5, <1>7 DEF Test_!IInv, Test_!NoMiscompare

--------------------------------------------------------------------------------
(* Closing a request moves what is known of its words from the request to  *)
(* shadow and initd.                                                       *)
LEMMA RegionClose ==
  ASSUME Test_!IInv, NEW t \in Txn, Test_!Close(t)
  PROVE  Test_!IInv'
<1> DEFINE r == Asked[t]
           Other == Open \ {t}
<1>1. /\ t \in Open /\ Answers[t] # "none" /\ Open' = Other /\ mem' = mem
      /\ r \in Test_!Request /\ Test_!Valid(r)
      /\ \A u \in Other : ~Test_!Conflict(r, Asked[u]) /\ ~Test_!Conflict(Asked[u], r)
  BY DEF Test_!Close, Test_!IInv, Test_!TypeOK, Test_!Separate
<1>2. r.strb \subseteq r.words /\ r.words \subseteq Loc /\ r.data \in Word
  BY <1>1 DEF Test_!Valid, Test_!Request
<1>3. /\ Asked' \in [Txn -> Test_!Request] /\ Answers' \in [Txn -> Outcome]
      /\ Got' \in [Txn -> [Loc -> Word]]
      /\ \A u \in Other : Asked'[u] = Asked[u] /\ Answers'[u] = Answers[u] /\ Got'[u] = Got[u]
  <2>1. Test_!NoRequest \in Test_!Request /\ Test_!Nothing \in [Loc -> Word]
    BY DEF Test_!NoRequest, Test_!Nothing, Test_!Request, Word
  <2> QED BY <2>1 DEF Test_!Close, Test_!IInv, Test_!TypeOK, Outcome
<1>4. /\ mem_array' \in [Loc -> Word] /\ init_done' \subseteq Loc
      /\ \A l \in Loc \ r.words : mem_array'[l] = mem_array[l]
      /\ \A l \in Loc \ r.words : l \in init_done' <=> l \in init_done
  <2>1. CASE r.read
    BY <2>1 DEF Test_!Close, Test_!IInv, Test_!TypeOK
  <2>2. CASE ~r.read /\ Answers[t] = "failed"
    BY <2>2 DEF Test_!Close, Test_!IInv, Test_!TypeOK
  <2>3. CASE ~r.read /\ Answers[t] # "failed"
    BY <1>2, <2>3 DEF Test_!Close, Test_!IInv, Test_!TypeOK
  <2> QED BY <2>1, <2>2, <2>3
<1>5. Test_!NoMiscompare'
  <2>1. r.read /\ Answers[t] = "ok" => \A l \in r.words : Got[t][l] = mem_array[l]
    BY <1>1 DEF Test_!IInv, Test_!Agree
  <2> QED BY <2>1 DEF Test_!Close, Test_!IInv, Test_!NoMiscompare
<1>6. Test_!TypeOK'
  <2>1. miscompare' \in BOOLEAN
    BY Zenon DEF Test_!Close
  <2> QED BY <1>1, <1>3, <1>4, <2>1 DEF Test_!IInv, Test_!TypeOK, Outcome
<1>7. Test_!Separate'
  <2>1. ASSUME NEW u \in Other, Asked[u].read
        PROVE  Asked[u].words \subseteq init_done'
    <3>1. Asked[u].words \subseteq init_done /\ Asked[u].words \subseteq Loc
      BY <2>1 DEF Test_!IInv, Test_!Separate, Test_!TypeOK, Test_!Request
    <3>2. CASE r.read
      BY <3>1, <3>2 DEF Test_!Close
    <3>3. CASE ~r.read
      <4>1. Asked[u].words \cap r.words = {}
        BY <1>1, <3>3 DEF Test_!Conflict
      <4> QED BY <1>4, <3>1, <4>1
    <3> QED BY <3>2, <3>3
  <2>2. \A u \in Open' : Asked'[u] = Asked[u] /\ u \in Open
    BY <1>1, <1>3
  <2> QED BY <1>1, <2>1, <2>2 DEF Test_!IInv, Test_!Separate, Test_!Conflict, Test_!Valid
<1>8. Test_!Agree'
  <2>1. ASSUME NEW l \in init_done'
        PROVE  \/ mem'[l] = mem_array'[l]
               \/ \E u \in Open' : ~Asked'[u].read /\ l \in Asked'[u].strb /\ Answers'[u] # "none"
    <3>1. CASE mem[l] = mem_array[l] /\ mem_array'[l] = mem_array[l]
      BY <1>1, <3>1
    <3>2. CASE ~r.read /\ l \in r.strb
      <4>1. Answers[t] = "ok"
        BY <1>1, <1>2, <2>1, <3>2 DEF Test_!Close, Test_!IInv, Test_!TypeOK
      <4>2. mem[l] = r.data
        BY <1>1, <3>2, <4>1 DEF Test_!IInv, Test_!Agree
      <4>3. mem_array'[l] = r.data
        BY <1>2, <3>2, <4>1 DEF Test_!Close
      <4> QED BY <1>1, <4>2, <4>3
    <3>3. CASE /\ ~(~r.read /\ l \in r.strb)
               /\ ~(mem[l] = mem_array[l] /\ mem_array'[l] = mem_array[l])
      <4>1. l \in init_done /\ mem_array'[l] = mem_array[l]
        <5>1. CASE r.read
          BY <2>1, <5>1 DEF Test_!Close
        <5>2. CASE ~r.read /\ Answers[t] = "failed"
          BY <2>1, <5>2 DEF Test_!Close
        <5>3. CASE ~r.read /\ Answers[t] # "failed"
          <6>1. l \in Loc /\ l \notin r.strb
            BY <1>4, <2>1, <3>3, <5>3
          <6>2. mem_array'[l] = mem_array[l]
            BY <5>3, <6>1 DEF Test_!Close
          <6>3. l \in init_done
            BY <2>1, <5>3, <6>1 DEF Test_!Close
          <6> QED BY <6>2, <6>3
        <5> QED BY <5>1, <5>2, <5>3
      <4>2. PICK u \in Open : ~Asked[u].read /\ l \in Asked[u].strb /\ Answers[u] # "none"
        BY <3>3, <4>1 DEF Test_!IInv, Test_!Agree
      <4>3. u \in Other
        BY <3>3, <4>2
      <4> QED BY <1>1, <1>3, <4>2, <4>3
    <3> QED BY <3>1, <3>2, <3>3
  <2>2. ASSUME NEW u \in Open', ~Asked'[u].read, Answers'[u] = "ok", NEW l \in Asked'[u].strb
        PROVE  mem'[l] = Asked'[u].data
    BY <1>1, <1>3, <2>2 DEF Test_!IInv, Test_!Agree
  <2>3. ASSUME NEW u \in Open', Asked'[u].read, Answers'[u] = "ok", NEW l \in Asked'[u].words
        PROVE  Got'[u][l] = mem_array'[l]
    <3>1. u \in Other /\ Asked[u].read /\ Answers[u] = "ok" /\ l \in Asked[u].words
      BY <1>1, <1>3, <2>3
    <3>2. Got[u][l] = mem_array[l] /\ l \in Loc
      BY <3>1 DEF Test_!IInv, Test_!Agree, Test_!TypeOK, Test_!Request
    <3>3. mem_array'[l] = mem_array[l]
      <4>1. CASE r.read
        BY <4>1 DEF Test_!Close
      <4>2. CASE ~r.read
        BY <1>1, <1>4, <3>1, <3>2, <4>2 DEF Test_!Conflict
      <4> QED BY <4>1, <4>2
    <3> QED BY <1>3, <3>1, <3>2, <3>3
  <2> QED BY <2>1, <2>2, <2>3 DEF Test_!Agree
<1> QED BY <1>5, <1>6, <1>7, <1>8 DEF Test_!IInv

(* The invariant of the abstract test: open requests do not conflict, and  *)
(* shadow, initd and the answers under way describe the memory.            *)
LEMMA RegionNext == ASSUME Test_!IInv, [Test_!Next]_(Test_!vars) PROVE Test_!IInv'
<1>1. ASSUME NEW t \in Txn, NEW r \in Test_!Request, Test_!Open(t, r) PROVE Test_!IInv'
  BY <1>1, RegionOpen
<1>2. ASSUME NEW t \in Txn, Test_!Serve(t) PROVE Test_!IInv'
  BY <1>2, RegionServe
<1>3. ASSUME NEW t \in Txn, Test_!Close(t) PROVE Test_!IInv'
  BY <1>3, RegionClose
<1>4. CASE UNCHANGED Test_!vars
  BY <1>4 DEF Test_!vars, Test_!IInv, Test_!TypeOK, Test_!Separate, Test_!Agree,
              Test_!NoMiscompare, Test_!Valid, Test_!Conflict
<1> QED BY <1>1, <1>2, <1>3, <1>4 DEF Test_!Next
--------------------------------------------------------------------------------
(* The memory test on its bench, for any region, any number of requests,   *)
(* sockets and outstanding transactions, any delays of the channel and any *)
(* traffic (MCMemtest.IInv): its books of pending reads and writes are     *)
(* right and keep reads and writes apart, every request it waits for is in *)
(* one queue of the channel, once, and knows its way back, and no          *)
(* assertion of the initiator fails.                                       *)
THEOREM MemtestInvariance == Spec => []IInv
<1>1. Init => Inv
  BY InitInv
<1>2. Inv /\ [Next]_vars => Inv'
  BY NextInv, StutterInv
<1>3. Inv => IInv
  BY Implied
<1> QED BY <1>1, <1>2, <1>3, PTL DEF Spec

(* On its bench the test is the abstract test of a memory: it opens no     *)
(* requests that conflict, and the memory serves each of them once, at     *)
(* some moment before it is closed (MCMemtest.ImplementsRegionTest).       *)
THEOREM MemtestRefinement == Spec => ImplementsRegionTest
<1>1. Init => Inv /\ Test_!Init
  BY InitInv, InitRefined
<1>2. Inv /\ [Next]_vars => Inv' /\ [Test_!Next]_(Test_!vars)
  BY NextInv, StutterInv
<1>3. Spec => Test_!Spec
  BY <1>1, <1>2, PTL DEF Spec, Test_!Spec
<1> QED BY <1>3 DEF ImplementsRegionTest

(* What the abstract test knows of a memory, whatever the memory does with *)
(* open requests and in whatever order: RegionTest.IInv, for any region.   *)
THEOREM RegionInvariance == Test_!Spec => []Test_!IInv
<1>1. Test_!Init => Test_!IInv
  BY RegionInit
<1>2. Test_!IInv /\ [Test_!Next]_(Test_!vars) => Test_!IInv'
  BY RegionNext
<1> QED BY <1>1, <1>2, PTL DEF Test_!Spec

(* So the test never finds a wrong word, whatever the order in which       *)
(* requests of several sockets reach the memory and answers come back, and *)
(* whichever of them fail (MCMemtest.NoMiscompare).                        *)
THEOREM MemtestNeverWrong == Spec => []NoMiscompare
<1>1. Test_!IInv => NoMiscompare
  BY DEF Test_!IInv, Test_!NoMiscompare, NoMiscompare
<1>2. Spec => Test_!Spec
  BY MemtestRefinement DEF ImplementsRegionTest
<1> QED BY <1>1, <1>2, RegionInvariance, PTL
================================================================================
