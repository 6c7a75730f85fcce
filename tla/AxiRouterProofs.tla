--------------------------- MODULE AxiRouterProofs ---------------------------
(***************************************************************************)
(* For any numbers of masters, slaves, lanes and outstanding bursts, with  *)
(* or without buffers, for the reader and the writer: every beat goes from *)
(* the port that has to send it to the port that waits for it.             *)
(*                                                                         *)
(* The argument: each port has a list of the bursts it waits for, made of  *)
(* the burst on its lane, its queue of commands, the command on its way to *)
(* the queue, and the command still in the buffer of its input.  A cycle   *)
(* moves bursts along this list, adds one at its end, and drops the first  *)
(* with its last beat, as the counts of AxiRouter do (SourceHistory,       *)
(* SinkHistory).  A port with a single port opposite has no queue: the     *)
(* queue of the other side tells how many bursts it waits for (Awaits).    *)
(* The masks are what makes the list true: in the cycle after a grant a    *)
(* queue still holds the command of the grant (Waiting).                   *)
(*                                                                         *)
(* First sequences, then one channel with any parameters (Ch), then the    *)
(* channels R and W of a unit, the command path, and the unit.             *)
(***************************************************************************)
EXTENDS MCAxiRouter, Integers, FiniteSets, FiniteSetTheorems, Functions, FunctionTheorems,
        SequenceTheorems, WellFoundedInduction, TLAPS

(* How often x is in a queue. *)
Count(x, q) == Cardinality({i \in DOMAIN q : q[i] = x})

LEMMA CountEmpty ==
  ASSUME NEW x
  PROVE  Count(x, <<>>) = 0
<1>1. {i \in DOMAIN <<>> : <<>>[i] = x} = {}
  OBVIOUS
<1> QED BY <1>1, FS_EmptySet DEF Count

LEMMA CountType ==
  ASSUME NEW S, NEW q \in Seq(S), NEW x
  PROVE  /\ IsFiniteSet({i \in DOMAIN q : q[i] = x})
         /\ Count(x, q) \in Nat
<1>1. DOMAIN q = 1..Len(q) /\ Len(q) \in Nat
  BY LenProperties
<1>2. IsFiniteSet(1..Len(q))
  BY <1>1, FS_Interval
<1>3. {i \in DOMAIN q : q[i] = x} \in SUBSET (1..Len(q))
  BY <1>1
<1>4. IsFiniteSet({i \in DOMAIN q : q[i] = x})
  BY <1>2, <1>3, FS_Subset
<1> QED BY <1>4, FS_CardinalityType DEF Count

LEMMA CountAppend ==
  ASSUME NEW S, NEW q \in Seq(S), NEW x, NEW y \in S
  PROVE  Count(x, Append(q, y)) = Count(x, q) + (IF y = x THEN 1 ELSE 0)
<1> DEFINE old == {i \in DOMAIN q : q[i] = x}
           new == {i \in DOMAIN Append(q, y) : Append(q, y)[i] = x}
<1>1. /\ DOMAIN q = 1..Len(q) /\ Len(q) \in Nat
      /\ Append(q, y) \in Seq(S) /\ Len(Append(q, y)) = Len(q) + 1
      /\ \A i \in 1..Len(q) : Append(q, y)[i] = q[i]
      /\ Append(q, y)[Len(q) + 1] = y
  BY LenProperties, AppendProperties
<1>2. DOMAIN Append(q, y) = 1..Len(q) + 1
  BY <1>1, LenProperties
<1>3. new = IF y = x THEN old \cup {Len(q) + 1} ELSE old
  <2>1. \A i \in 1..Len(q) + 1 : i \in 1..Len(q) \/ i = Len(q) + 1
    BY <1>1
  <2>2. /\ Len(q) + 1 \notin 1..Len(q) /\ Len(q) + 1 \in 1..Len(q) + 1
        /\ 1..Len(q) \subseteq 1..Len(q) + 1
    BY <1>1
  <2> QED BY <1>1, <1>2, <2>1, <2>2
<1>4. IsFiniteSet(old) /\ Count(x, q) \in Nat /\ Count(x, q) = Cardinality(old)
  BY CountType DEF Count
<1>5. Len(q) + 1 \notin old
  BY <1>1
<1>6. Cardinality(old \cup {Len(q) + 1}) = Cardinality(old) + 1
  BY <1>4, <1>5, FS_AddElement
<1>7. Count(x, Append(q, y)) = Cardinality(new)
  BY DEF Count
<1> HIDE DEF old, new
<1> QED BY <1>3, <1>4, <1>6, <1>7

LEMMA CountTail ==
  ASSUME NEW S, NEW q \in Seq(S), q # <<>>, NEW x
  PROVE  Count(x, q) = Count(x, Tail(q)) + (IF Head(q) = x THEN 1 ELSE 0)
<1> DEFINE old == {i \in DOMAIN q : q[i] = x}
           new == {i \in DOMAIN Tail(q) : Tail(q)[i] = x}
           f == [i \in new |-> i + 1]
<1>1. /\ DOMAIN q = 1..Len(q) /\ Len(q) \in Nat /\ Len(q) > 0
      /\ Tail(q) \in Seq(S) /\ Len(Tail(q)) = Len(q) - 1
      /\ \A i \in 1..Len(q) - 1 : Tail(q)[i] = q[i + 1]
      /\ Head(q) = q[1]
  BY LenProperties, HeadTailProperties, EmptySeq
<1>2. DOMAIN Tail(q) = 1..Len(q) - 1
  BY <1>1, LenProperties
<1>3. \A i \in 1..Len(q) - 1 : i \in Nat /\ i + 1 \in 2..Len(q)
  BY <1>1
<1>4. \A i \in 2..Len(q) : i - 1 \in 1..Len(q) - 1 /\ (i - 1) + 1 = i /\ i \in 1..Len(q) /\ i # 1
  BY <1>1
<1>5. f \in Bijection(new, old \ {1})
  <2>1. f \in [new -> old \ {1}]
    <3> SUFFICES ASSUME NEW i \in new PROVE i + 1 \in old \ {1}
      OBVIOUS
    <3>1. i \in 1..Len(q) - 1 /\ q[i + 1] = x
      BY <1>1, <1>2
    <3> QED BY <1>1, <1>3, <1>4, <3>1
  <2>2. \A i, j \in new : f[i] = f[j] => i = j
    BY <1>2, <1>3
  <2>3. \A j \in old \ {1} : \E i \in new : f[i] = j
    <3> SUFFICES ASSUME NEW j \in old \ {1} PROVE j - 1 \in new /\ (j - 1) + 1 = j
      OBVIOUS
    <3>1. j \in 2..Len(q) /\ q[j] = x
      BY <1>1
    <3> QED BY <1>1, <1>2, <1>4, <3>1
  <2> HIDE DEF f, new, old
  <2> QED BY <2>1, <2>2, <2>3 DEF Bijection, Injection, Surjection, IsInjective
<1>6. IsFiniteSet(new) /\ IsFiniteSet(old) /\ Count(x, q) \in Nat /\ Count(x, Tail(q)) \in Nat
  BY <1>1, CountType
<1>7. Cardinality(new) = Cardinality(old \ {1})
  <2> HIDE DEF f, new, old
  <2>1. IsFiniteSet(old \ {1})
    BY <1>6, FS_RemoveElement
  <2>2. ExistsBijection(new, old \ {1})
    BY <1>5 DEF ExistsBijection
  <2> QED BY <1>6, <2>1, <2>2, FS_Bijection
<1>8. Cardinality(old \ {1}) = IF 1 \in old THEN Cardinality(old) - 1 ELSE Cardinality(old)
  BY <1>6, FS_RemoveElement
<1>9. 1 \in old <=> Head(q) = x
  BY <1>1
<1>10. Count(x, q) = Cardinality(old) /\ Count(x, Tail(q)) = Cardinality(new)
  BY DEF Count
<1> HIDE DEF old, new, f
<1> QED BY <1>6, <1>7, <1>8, <1>9, <1>10

(* What is in the queue: its head is. *)
LEMMA CountHead ==
  ASSUME NEW S, NEW q \in Seq(S), q # <<>>
  PROVE  Count(Head(q), q) > 0
<1>1. Tail(q) \in Seq(S)
  BY HeadTailProperties
<1>2. Count(Head(q), Tail(q)) \in Nat
  BY <1>1, CountType
<1> QED BY <1>2, CountTail
--------------------------------------------------------------------------------
(* A queue after a cycle in which its head may leave and x may come in. *)
Moved(q, drop, add, x) ==
    (IF drop THEN Tail(q) ELSE q) \o (IF add THEN <<x>> ELSE <<>>)

MovedCounts(q, drop, add, x) ==
    \A y : Count(y, Moved(q, drop, add, x)) =
              Count(y, q) + (IF add /\ x = y THEN 1 ELSE 0)
                          - (IF drop /\ Head(q) = y THEN 1 ELSE 0)

MovedWell(S, q, drop, add, x) ==
    /\ Moved(q, drop, add, x) \in Seq(S)
    /\ Len(Moved(q, drop, add, x)) =
           Len(q) + (IF add THEN 1 ELSE 0) - (IF drop THEN 1 ELSE 0)
    /\ MovedCounts(q, drop, add, x)

LEMMA MovedFacts ==
  ASSUME NEW S, NEW q \in Seq(S), NEW drop \in BOOLEAN, NEW add \in BOOLEAN, NEW x,
         drop => q # <<>>, add => x \in S
  PROVE  MovedWell(S, q, drop, add, x)
<1> DEFINE r == IF drop THEN Tail(q) ELSE q
<1>1. /\ r \in Seq(S) /\ Len(q) \in Nat /\ Len(r) = Len(q) - (IF drop THEN 1 ELSE 0)
  BY HeadTailProperties, LenProperties
<1>2. \A y : /\ Count(y, q) \in Nat
             /\ Count(y, r) \in Nat
             /\ Count(y, r) = Count(y, q) - (IF drop /\ Head(q) = y THEN 1 ELSE 0)
  <2> SUFFICES ASSUME NEW y PROVE /\ Count(y, q) \in Nat
             /\ Count(y, r) \in Nat
             /\ Count(y, r) = Count(y, q) - (IF drop /\ Head(q) = y THEN 1 ELSE 0)
    OBVIOUS
  <2>1. Count(y, q) \in Nat /\ Count(y, r) \in Nat
    BY <1>1, CountType
  <2>2. CASE drop
    <3>1. Count(y, q) = Count(y, Tail(q)) + (IF Head(q) = y THEN 1 ELSE 0)
      BY <2>2, CountTail
    <3>2. r = Tail(q)
      BY <2>2
    <3> HIDE DEF r
    <3> QED BY <2>1, <2>2, <3>1, <3>2
  <2>3. CASE ~drop
    BY <2>1, <2>3
  <2> QED BY <2>2, <2>3
<1>3. Moved(q, drop, add, x) = IF add THEN Append(r, x) ELSE r
  <2> HIDE DEF r
  <2>1. CASE add
    <3>1. Append(r, x) = r \o <<x>>
      BY <1>1, <2>1, AppendIsConcat
    <3>2. Moved(q, drop, add, x) = r \o <<x>>
      BY <2>1 DEF Moved, r
    <3> QED BY <2>1, <3>1, <3>2
  <2>2. CASE ~add
    <3>1. r \o <<>> = r
      BY <1>1, ConcatEmptySeq
    <3>2. Moved(q, drop, add, x) = r \o <<>>
      BY <2>2 DEF Moved, r
    <3> QED BY <2>2, <3>1, <3>2
  <2> QED BY <2>1, <2>2
<1> HIDE DEF r
<1>4. CASE add
  <2>1. Append(r, x) \in Seq(S) /\ Len(Append(r, x)) = Len(r) + 1
    BY <1>1, <1>4, AppendProperties
  <2>2. \A y : Count(y, Append(r, x)) = Count(y, r) + (IF x = y THEN 1 ELSE 0)
    BY <1>1, <1>4, CountAppend
  <2> QED BY <1>1, <1>2, <1>3, <1>4, <2>1, <2>2 DEF MovedWell, MovedCounts
<1>5. CASE ~add
  BY <1>1, <1>2, <1>3, <1>5 DEF MovedWell, MovedCounts
<1> QED BY <1>4, <1>5
--------------------------------------------------------------------------------
(* A port with a single one opposite has no queue; what it would hold is   *)
(* told by the queue of the other side.                                    *)
Zeros(n) == [i \in 1..n |-> 0]

LEMMA ZerosFacts ==
  ASSUME NEW n \in Nat
  PROVE  /\ Zeros(n) \in Seq({0}) /\ Len(Zeros(n)) = n
         /\ n > 0 => Zeros(n) # <<>> /\ Head(Zeros(n)) = 0
         /\ \A q \in Seq({0}) : Len(q) = n => q = Zeros(n)
<1>1. Zeros(n) \in Seq({0}) /\ Len(Zeros(n)) = n /\ \A i \in 1..n : Zeros(n)[i] = 0
  BY DEF Zeros
<1> HIDE DEF Zeros
<1>2. ASSUME n > 0 PROVE Zeros(n) # <<>> /\ Head(Zeros(n)) = 0
  <2>1. Zeros(n) # <<>>
    BY <1>1, <1>2
  <2>2. Head(Zeros(n)) \in {0}
    BY <1>1, <2>1, HeadTailProperties
  <2> QED BY <2>1, <2>2
<1>3. ASSUME NEW q \in Seq({0}), Len(q) = n PROVE q = Zeros(n)
  <2>1. \A i \in 1..Len(q) : q[i] \in {0}
    BY ElementOfSeq
  <2> QED BY <1>1, <1>3, <2>1, SeqEqual
<1> QED BY <1>1, <1>2, <1>3

LEMMA ZerosMoved ==
  ASSUME NEW n \in Nat, NEW drop \in BOOLEAN, NEW add \in BOOLEAN, NEW x,
         drop => n > 0, add => x = 0
  PROVE  Moved(Zeros(n), drop, add, x)
             = Zeros(n + (IF add THEN 1 ELSE 0) - (IF drop THEN 1 ELSE 0))
<1> DEFINE m == n + (IF add THEN 1 ELSE 0) - (IF drop THEN 1 ELSE 0)
           q == Moved(Zeros(n), drop, add, x)
<1>1. m \in Nat
  OBVIOUS
<1>2. /\ Zeros(n) \in Seq({0}) /\ Len(Zeros(n)) = n /\ (n > 0 => Zeros(n) # <<>>)
  BY ZerosFacts
<1>3. q \in Seq({0}) /\ Len(q) = m
  <2>1. drop => Zeros(n) # <<>>
    BY <1>2
  <2>2. add => x \in {0}
    OBVIOUS
  <2> DEFINE z == Zeros(n)
  <2>3. z \in Seq({0}) /\ (drop => z # <<>>) /\ (add => x \in {0})
    BY <1>2, <2>1, <2>2
  <2> HIDE DEF z
  <2>4. MovedWell({0}, z, drop, add, x)
    BY <2>3, MovedFacts
  <2> QED BY <1>2, <2>4 DEF z, MovedWell
<1> HIDE DEF m, q
<1>4. q = Zeros(m)
  BY <1>1, <1>3, ZerosFacts
<1> QED BY <1>4 DEF m, q

(* The bursts port s of one side waits for, oldest first, by their ports   *)
(* on the other side: a are the queues of its side, b those of the other,  *)
(* which has m ports.                                                      *)
Awaits(m, a, b, s) == IF m > 1 THEN a[s] ELSE Zeros(Count(s, b[0]))

(* A command (aa, ab) comes in, and the burst (da, db) leaves that is the  *)
(* oldest of both its ports.                                               *)
SideMoves(n, m, a, b, a2, b2, drop, da, db, add, aa, ab) ==
    /\ drop \in BOOLEAN /\ (drop => da \in 0..n-1 /\ db \in 0..m-1)
    /\ add \in BOOLEAN /\ (add => aa \in 0..n-1 /\ ab \in 0..m-1)
    /\ m > 1 => \A s \in 0..n-1 :
          /\ a[s] \in Seq(0..m-1)
          /\ a2[s] = Moved(a[s], drop /\ da = s, add /\ aa = s, ab)
    /\ m > 1 /\ drop => a[da] # <<>> /\ Head(a[da]) = db
    /\ m = 1 => b[0] \in Seq(0..n-1) /\ b2[0] = Moved(b[0], drop, add, aa)
    /\ m = 1 /\ drop => b[0] # <<>> /\ Head(b[0]) = da

AwaitsMoved(m, a, b, a2, b2, drop, da, db, add, aa, ab, s) ==
    /\ Awaits(m, a, b, s) \in Seq(0..m-1)
    /\ drop /\ da = s => Awaits(m, a, b, s) # <<>> /\ Head(Awaits(m, a, b, s)) = db
    /\ Awaits(m, a2, b2, s) = Moved(Awaits(m, a, b, s), drop /\ da = s, add /\ aa = s, ab)

LEMMA SideMoved ==
  ASSUME NEW n \in Nat \ {0}, NEW m \in Nat \ {0}, NEW a, NEW b, NEW a2, NEW b2,
         NEW drop, NEW da, NEW db, NEW add, NEW aa, NEW ab,
         SideMoves(n, m, a, b, a2, b2, drop, da, db, add, aa, ab),
         NEW s \in 0..n-1
  PROVE  AwaitsMoved(m, a, b, a2, b2, drop, da, db, add, aa, ab, s)
<1> USE DEF SideMoves, AwaitsMoved
<1>1. CASE m > 1
  <2>1. Awaits(m, a, b, s) = a[s] /\ Awaits(m, a2, b2, s) = a2[s]
    BY <1>1 DEF Awaits
  <2> QED BY <1>1, <2>1
<1>2. CASE m = 1
  <2> DEFINE c == Count(s, b[0])
             c2 == Count(s, b2[0])
  <2>1. c \in Nat
    BY <1>2, CountType
  <2>2. c2 = c + (IF add /\ aa = s THEN 1 ELSE 0) - (IF drop /\ da = s THEN 1 ELSE 0)
    <3> DEFINE r == b[0]
    <3>1. r \in Seq(0..n-1) /\ (drop => r # <<>>) /\ (add => aa \in 0..n-1)
      BY <1>2
    <3> HIDE DEF r
    <3>2. MovedCounts(r, drop, add, aa)
      <4>1. MovedWell(0..n-1, r, drop, add, aa)
        BY <3>1, MovedFacts
      <4> QED BY <4>1 DEF MovedWell
    <3>3. c = Count(s, r) /\ c2 = Count(s, Moved(r, drop, add, aa))
          /\ (drop => Head(r) = da)
      BY <1>2 DEF r
    <3> HIDE DEF c, c2
    <3> QED BY <3>2, <3>3 DEF MovedCounts
  <2>3. drop /\ da = s => c > 0
    BY <1>2, CountHead
  <2>4. Awaits(m, a, b, s) = Zeros(c) /\ Awaits(m, a2, b2, s) = Zeros(c2)
    BY <1>2 DEF Awaits
  <2> HIDE DEF c, c2
  <2>5. 0..m-1 = {0}
    BY <1>2
  <2>6. drop => db = 0
    BY <2>5
  <2>7. add => ab = 0
    BY <2>5
  <2>8. (drop /\ da = s) \in BOOLEAN /\ (add /\ aa = s) \in BOOLEAN
    OBVIOUS
  <2>9. Moved(Zeros(c), drop /\ da = s, add /\ aa = s, ab) = Zeros(c2)
    BY <2>1, <2>2, <2>3, <2>7, <2>8, ZerosMoved
  <2>10. /\ Zeros(c) \in Seq({0}) /\ (c > 0 => Zeros(c) # <<>> /\ Head(Zeros(c)) = 0)
    BY <2>1, ZerosFacts
  <2> QED BY <2>3, <2>4, <2>5, <2>6, <2>9, <2>10
<1> QED BY <1>1, <1>2
--------------------------------------------------------------------------------
(* What concatenation does at the front. *)
LEMMA ConcatFront ==
  ASSUME NEW S, NEW a \in Seq(S), NEW b \in Seq(S), a # <<>>
  PROVE  /\ a \o b # <<>>
         /\ Head(a \o b) = Head(a)
         /\ Tail(a \o b) = Tail(a) \o b
<1>1. /\ a \o b \in Seq(S) /\ Len(a \o b) = Len(a) + Len(b)
      /\ Head(a) \in S /\ Tail(a) \in Seq(S) /\ Len(Tail(a)) = Len(a) - 1 /\ Len(a) > 0
      /\ \A i \in 1..Len(Tail(a)) : Tail(a)[i] = a[i + 1]
  BY ConcatProperties, HeadTailProperties, EmptySeq
<1>2. a \o b # <<>>
  BY <1>1
<1>3. /\ Tail(a \o b) \in Seq(S) /\ Len(Tail(a \o b)) = Len(a) + Len(b) - 1
      /\ \A i \in 1..Len(Tail(a \o b)) : Tail(a \o b)[i] = (a \o b)[i + 1]
  BY <1>1, <1>2, HeadTailProperties
<1>4. Tail(a) \o b \in Seq(S) /\ Len(Tail(a) \o b) = Len(a) + Len(b) - 1
  BY <1>1, ConcatProperties
<1>5. \A i \in 1..Len(Tail(a \o b)) : Tail(a \o b)[i] = (Tail(a) \o b)[i]
  BY <1>1, <1>3, <1>4
<1>6. Head(a \o b) = (a \o b)[1] /\ Head(a) = a[1] /\ (a \o b)[1] = a[1]
  BY <1>1, <1>2
<1> QED BY <1>2, <1>3, <1>4, <1>5, <1>6, SeqEqual

LEMMA HeadThenTail ==
  ASSUME NEW S, NEW b \in Seq(S), b # <<>>
  PROVE  <<Head(b)>> \in Seq(S) /\ Tail(b) \in Seq(S) /\ <<Head(b)>> \o Tail(b) = b
<1>1. /\ Head(b) \in S /\ Tail(b) \in Seq(S) /\ Len(Tail(b)) = Len(b) - 1 /\ Len(b) > 0
      /\ \A i \in 1..Len(b) - 1 : Tail(b)[i] = b[i + 1]
      /\ Head(b) = b[1]
  BY HeadTailProperties, EmptySeq
<1> DEFINE h == Head(b)
           t == Tail(b)
<1>2. <<h>> \in Seq(S) /\ Len(<<h>>) = 1 /\ <<h>>[1] = h
  BY <1>1
<1>3. /\ <<h>> \o t \in Seq(S) /\ Len(<<h>> \o t) = 1 + Len(t)
      /\ \A i \in 1..1 + Len(t) : (<<h>> \o t)[i] = IF i <= 1 THEN <<h>>[i] ELSE t[i - 1]
  BY <1>1, <1>2, ConcatProperties
<1>4. h = b[1] /\ t \in Seq(S) /\ Len(t) = Len(b) - 1 /\ Len(b) \in Nat /\ Len(b) > 0
      /\ \A i \in 1..Len(b) - 1 : t[i] = b[i + 1]
  BY <1>1, LenProperties
<1> HIDE DEF h, t
<1>5. ASSUME NEW i \in 1..Len(b) PROVE (<<h>> \o t)[i] = b[i]
  <2>1. CASE i = 1
    BY <1>2, <1>3, <1>4, <2>1
  <2>2. CASE i # 1
    <3>1. i - 1 \in 1..Len(b) - 1 /\ (i - 1) + 1 = i /\ ~(i <= 1) /\ i \in 1..1 + Len(t)
      BY <1>4, <2>2
    <3>2. t[i - 1] = b[i]
      BY <1>4, <3>1
    <3> QED BY <1>3, <3>1, <3>2
  <2> QED BY <2>1, <2>2
<1>6. <<h>> \o t = b
  BY <1>3, <1>4, <1>5, SeqEqual
<1> QED BY <1>2, <1>4, <1>6 DEF h, t

Associative(S) == \A a, b, d \in Seq(S) : (a \o b) \o d = a \o (b \o d)
Closed(S) == \A a, b \in Seq(S) : a \o b \in Seq(S)

LEMMA Reassociate ==
  ASSUME NEW S
  PROVE  Associative(S) /\ Closed(S)
BY ConcatAssociative, ConcatProperties DEF Associative, Closed

(* What a port waits for: the burst on its lane, if any, those in its      *)
(* queue, and those on their way to it (e is what reaches the queue next,  *)
(* v what follows, n what is new).  A burst that ends leaves the whole, a  *)
(* burst that is granted moves within it.                                  *)
HistoryKept(c, q, e, v, n, last, grant) ==
    (IF grant THEN <<Head(q)>> ELSE IF last THEN <<>> ELSE c)
         \o (((IF grant THEN Tail(q) ELSE q) \o e) \o (v \o n))
    = (IF last THEN Tail(c \o (q \o (e \o v))) ELSE c \o (q \o (e \o v))) \o n

LEMMA HistoryMoved ==
  ASSUME NEW S, NEW c \in Seq(S), Len(c) <= 1, NEW q \in Seq(S), NEW e \in Seq(S),
         NEW v \in Seq(S), NEW n \in Seq(S), NEW last \in BOOLEAN, NEW grant \in BOOLEAN,
         last => c # <<>>,
         grant => q # <<>> /\ (c = <<>> \/ last)
  PROVE  HistoryKept(c, q, e, v, n, last, grant)
<1> DEFINE c0 == IF last THEN <<>> ELSE c
           c1 == IF grant THEN <<Head(q)>> ELSE c0
           q1 == IF grant THEN Tail(q) ELSE q
           x == e \o v
<1>1. last => Tail(c) = <<>>
  <2> SUFFICES ASSUME last PROVE Tail(c) = <<>>
    OBVIOUS
  <2>1. Tail(c) \in Seq(S) /\ Len(Tail(c)) = Len(c) - 1 /\ Len(c) \in Nat /\ Len(c) > 0
    BY HeadTailProperties, EmptySeq, LenProperties
  <2>2. Len(Tail(c)) = 0
    BY <2>1
  <2> QED BY <2>1, <2>2, EmptySeq
<1>2. x \in Seq(S) /\ v \o n \in Seq(S) /\ q \o x \in Seq(S) /\ c0 \in Seq(S)
  BY ConcatProperties, EmptySeq
<1>3. (IF last THEN Tail(c \o (q \o x)) ELSE c \o (q \o x)) = c0 \o (q \o x)
  <2>1. last => Tail(c \o (q \o x)) = Tail(c) \o (q \o x)
    BY <1>2, ConcatFront
  <2> QED BY <1>1, <2>1
<1>4. c1 \in Seq(S) /\ q1 \in Seq(S) /\ c1 \o q1 = c0 \o q
  <2>1. CASE grant
    <3>1. <<Head(q)>> \in Seq(S) /\ Tail(q) \in Seq(S) /\ <<Head(q)>> \o Tail(q) = q
      BY <2>1, HeadThenTail
    <3>2. c0 = <<>>
      BY <2>1
    <3>3. <<>> \o q = q
      BY ConcatEmptySeq
    <3>4. c1 = <<Head(q)>> /\ q1 = Tail(q)
      BY <2>1
    <3> HIDE DEF c1, q1, c0
    <3> QED BY <3>1, <3>2, <3>3, <3>4, Zenon
  <2>2. CASE ~grant
    <3>1. c1 = c0 /\ q1 = q
      BY <2>2
    <3> HIDE DEF c1, q1, c0
    <3> QED BY <1>2, <3>1, Zenon
  <2> QED BY <2>1, <2>2
<1> HIDE DEF c0, c1, q1
<1>5. Associative(S) /\ Closed(S)
  BY Reassociate
<1>6. x \in Seq(S) /\ c0 \in Seq(S)
  BY <1>2
<1>15. q \o x \in Seq(S)
  BY <1>2
<1>7. e \o (v \o n) = x \o n
  BY <1>5, Zenon DEF Associative
<1> HIDE DEF x
<1>8. c1 \o ((q1 \o e) \o (v \o n)) = c1 \o (q1 \o (x \o n))
  <2>1. (q1 \o e) \o (v \o n) = q1 \o (e \o (v \o n))
    BY <1>2, <1>4, <1>5, Zenon DEF Associative
  <2> QED BY <1>7, <2>1, Zenon
<1>9. x \o n \in Seq(S)
  BY <1>2, <1>5, Zenon DEF Closed
<1>10. c1 \o (q1 \o (x \o n)) = (c1 \o q1) \o (x \o n)
  BY <1>4, <1>5, <1>9, Zenon DEF Associative
<1>11. (c0 \o q) \o (x \o n) = c0 \o (q \o (x \o n))
  BY <1>6, <1>5, <1>9, Zenon DEF Associative
<1>12. q \o (x \o n) = (q \o x) \o n
  BY <1>6, <1>5, Zenon DEF Associative
<1>13. c0 \o ((q \o x) \o n) = (c0 \o (q \o x)) \o n
  BY <1>6, <1>15, <1>5, Zenon DEF Associative
<1>14. c1 \o ((q1 \o e) \o (v \o n)) = (c0 \o (q \o x)) \o n
  BY <1>4, <1>8, <1>10, <1>11, <1>12, <1>13, Zenon
<1>16. (c1 \o ((q1 \o e) \o (v \o n)))
          = (IF last THEN Tail(c \o (q \o x)) ELSE c \o (q \o x)) \o n
  BY <1>3, <1>14, Zenon
<1> QED BY <1>16, Zenon DEF HistoryKept, c0, c1, q1, x
--------------------------------------------------------------------------------
(* One channel, R or W, with its parameters p in the state x: what is      *)
(* proved of it here is used for the channels of every unit.               *)
Ch(p, x) == INSTANCE AxiRouterChannel WITH
    SOURCES <- p.sources, SINKS <- p.sinks, LANES <- p.lanes, MOT <- p.mot,
    BUFFER <- p.buffer,
    source <- x.source, sink <- x.sink, lane <- x.lane, pri <- x.pri, rst <- x.rst

Params(p) ==
    /\ p.sources \in Nat \ {0} /\ p.sinks \in Nat \ {0} /\ p.sources + p.sinks > 2
    /\ p.lanes \in Nat \ {0} /\ p.mot \in Nat \ {0, 1}
    /\ None # "last" /\ None \notin 0..p.lanes-1
    /\ None \notin [source : 0..p.sources-1, sink : 0..p.sinks-1]

(* A port that has n ports opposite pops its queue in the cycle after a    *)
(* grant, and is masked in this cycle.                                     *)
PortInv(q, n, p) ==
    /\ q = [cmds |-> q.cmds, pop |-> q.pop, buf |-> q.buf, lane |-> q.lane,
            grant_mask |-> q.grant_mask]
    /\ q.cmds \in Seq(0..n-1)
    /\ q.grant_mask \in BOOLEAN /\ q.pop = (q.grant_mask /\ n > 1)
    /\ q.pop => q.cmds # <<>>
    /\ q.lane \in 0..p.lanes-1 \cup {None}

(* The commands of a port that have not been granted. *)
Waiting(q) == IF q.pop THEN Tail(q.cmds) ELSE q.cmds

LEMMA WaitingFacts ==
  ASSUME NEW q, NEW n, NEW p, PortInv(q, n, p)
  PROVE  /\ Waiting(q) \in Seq(0..n-1)
         /\ ~q.grant_mask => Waiting(q) = q.cmds
BY HeadTailProperties DEF PortInv, Waiting

(* A port after a cycle. *)
PortNext(q, n, q2, granted, l, last, push, c) ==
    /\ q2 = [cmds |-> q2.cmds, pop |-> q2.pop, buf |-> q2.buf, lane |-> q2.lane,
             grant_mask |-> q2.grant_mask]
    /\ q2.cmds = IF push THEN Append(IF q.pop THEN Tail(q.cmds) ELSE q.cmds, c)
                 ELSE IF q.pop THEN Tail(q.cmds) ELSE q.cmds
    /\ q2.pop = (granted /\ n > 1)
    /\ q2.lane = IF granted THEN l ELSE IF last THEN None ELSE q.lane
    /\ q2.grant_mask = granted

LEMMA PortMoved ==
  ASSUME NEW n \in Nat \ {0}, NEW p, NEW q, PortInv(q, n, p), NEW q2,
         NEW granted \in BOOLEAN, NEW l, NEW last, NEW push \in BOOLEAN, NEW c,
         PortNext(q, n, q2, granted, l, last, push, c),
         granted => ~q.grant_mask /\ l \in 0..p.lanes-1 /\ (n > 1 => q.cmds # <<>>),
         push => c \in 0..n-1
  PROVE  /\ PortInv(q2, n, p)
         /\ Waiting(q2) = Moved(Waiting(q), granted /\ n > 1, push, c)
         /\ Len(q2.cmds) <= Len(q.cmds) + (IF push THEN 1 ELSE 0)
<1> DEFINE w == Waiting(q)
           drop == granted /\ n > 1
<1>1. /\ q.cmds \in Seq(0..n-1) /\ Len(q.cmds) \in Nat
      /\ q.grant_mask \in BOOLEAN /\ q.pop = (q.grant_mask /\ n > 1)
      /\ q.pop => q.cmds # <<>>
  BY LenProperties DEF PortInv
<1>2. w \in Seq(0..n-1) /\ Len(w) \in Nat /\ Len(w) <= Len(q.cmds)
  <2> DEFINE r == q.cmds
  <2>1. w = IF q.pop THEN Tail(r) ELSE r
    BY DEF Waiting
  <2>2. r \in Seq(0..n-1) /\ Len(r) \in Nat /\ (q.pop => r # <<>>)
    BY <1>1
  <2> HIDE DEF r, w
  <2>3. CASE q.pop
    <3>1. Tail(r) \in Seq(0..n-1) /\ Len(Tail(r)) = Len(r) - 1 /\ Len(r) > 0
      BY <2>2, <2>3, HeadTailProperties, EmptySeq
    <3> QED BY <2>1, <2>2, <2>3, <3>1 DEF r
  <2>4. CASE ~q.pop
    BY <2>1, <2>2, <2>4 DEF r
  <2> QED BY <2>3, <2>4
<1>3. drop => w # <<>>
  BY <1>1 DEF Waiting
<1>4. q2.cmds = (IF push THEN Append(w, c) ELSE w) /\ q2.pop = drop /\ q2.grant_mask = granted
  BY DEF PortNext, Waiting
<1> HIDE DEF w
<1>5. push => /\ Append(w, c) \in Seq(0..n-1) /\ Len(Append(w, c)) = Len(w) + 1
              /\ Append(w, c) # <<>> /\ Append(w, c) = w \o <<c>>
  BY <1>2, AppendProperties, AppendIsConcat
<1>6. push /\ drop => /\ Tail(Append(w, c)) = Append(Tail(w), c)
                      /\ Append(Tail(w), c) = Tail(w) \o <<c>>
  <2> SUFFICES ASSUME push, drop
               PROVE  /\ Tail(Append(w, c)) = Append(Tail(w), c)
                      /\ Append(Tail(w), c) = Tail(w) \o <<c>>
    OBVIOUS
  <2>1. w # <<>> /\ c \in 0..n-1
    BY <1>3
  <2>2. Tail(w) \in Seq(0..n-1)
    BY <1>2, <2>1, HeadTailProperties
  <2>3. Tail(Append(w, c)) = Append(Tail(w), c)
    BY <1>2, <2>1, HeadTailAppend
  <2>4. Append(Tail(w), c) = Tail(w) \o <<c>>
    BY <2>1, <2>2, AppendIsConcat
  <2> QED BY <2>3, <2>4
<1>7. q2.cmds \in Seq(0..n-1) /\ Len(q2.cmds) <= Len(q.cmds) + (IF push THEN 1 ELSE 0)
  <2> DEFINE r2 == q2.cmds
             a == Append(w, c)
             m == Len(q.cmds)
             k == Len(w)
             S == Seq(0..n-1)
  <2>1. r2 = (IF push THEN a ELSE w) /\ (push => a \in S /\ Len(a) = k + 1)
    BY <1>4, <1>5
  <2>2. m \in Nat /\ k \in Nat /\ k <= m /\ k = Len(w) /\ w \in S
    BY <1>1, <1>2
  <2> HIDE DEF r2, a, m, k, S
  <2>3. r2 \in S /\ Len(r2) <= m + (IF push THEN 1 ELSE 0)
    <3>1. CASE push
      BY <2>1, <2>2, <3>1
    <3>2. CASE ~push
      BY <2>1, <2>2, <3>2
    <3> QED BY <3>1, <3>2
  <2> QED BY <2>3 DEF r2, m, S
<1>8. q2.pop => q2.cmds # <<>>
  BY <1>3, <1>4, <1>5
<1>9. q2.lane \in 0..p.lanes-1 \cup {None}
  BY DEF PortNext, PortInv
<1>10. PortInv(q2, n, p)
  BY <1>4, <1>7, <1>8, <1>9 DEF PortNext, PortInv
<1>11. w \o <<>> = w /\ (drop => Tail(w) \o <<>> = Tail(w))
  BY <1>2, <1>3, HeadTailProperties, ConcatEmptySeq
<1>12. Waiting(q2) = IF drop THEN IF push THEN Tail(Append(w, c)) ELSE Tail(w)
                     ELSE IF push THEN Append(w, c) ELSE w
  BY <1>4 DEF Waiting
<1>13. Waiting(q2) = Moved(w, drop, push, c)
  <2> HIDE DEF drop
  <2>1. CASE push
    BY <1>5, <1>6, <1>12, <2>1, Zenon DEF Moved
  <2>2. CASE ~push
    BY <1>11, <1>12, <2>2, Zenon DEF Moved
  <2> QED BY <2>1, <2>2
<1> QED BY <1>7, <1>10, <1>13 DEF w
--------------------------------------------------------------------------------
(* The grant of a cycle: a request, its sink, an idle lane. *)
GrantOf(p, x, offer, ready, g) ==
    g # None =>
        /\ g.source \in Ch(p, x)!Requests(offer, ready)
        /\ g.sink = Ch(p, x)!arb_req_sink(g.source)
        /\ g.lane \in 0..p.lanes-1 /\ Ch(p, x)!LaneIdle(g.lane, offer, ready)

(* The cycle of a channel, with the command c pushed in it. *)
ChannelStep(p, x, x2, c, offer, ready, g) ==
    /\ GrantOf(p, x, offer, ready, g)
    /\ \A s \in 0..p.sources-1 :
         PortNext(x.source[s], p.sinks, x2.source[s], g # None /\ g.source = s, g.lane,
                  Ch(p, x)!SourceBeat(s, offer, ready) = "last",
                  p.sinks > 1 /\ c # None /\ c.source = s, c.sink)
    /\ \A k \in 0..p.sinks-1 :
         PortNext(x.sink[k], p.sources, x2.sink[k], g # None /\ g.sink = k, g.lane,
                  Ch(p, x)!SinkBeat(k, offer, ready) = "last",
                  p.sources > 1 /\ c # None /\ c.sink = k, c.source)
    /\ \A l \in 0..p.lanes-1 :
         x2.lane[l] = IF g # None /\ g.lane = l THEN [source |-> g.source, sink |-> g.sink]
                      ELSE IF Ch(p, x)!LaneIdle(l, offer, ready) THEN None ELSE x.lane[l]

Ports(p, x) ==
    /\ \A s \in 0..p.sources-1 : PortInv(x.source[s], p.sinks, p)
    /\ \A k \in 0..p.sinks-1 : PortInv(x.sink[k], p.sources, p)

(* Source, lane and sink of a burst agree on it. *)
Connected(p, x) ==
    /\ \A s \in 0..p.sources-1 : x.source[s].lane # None =>
         x.lane[x.source[s].lane] # None /\ x.lane[x.source[s].lane].source = s
    /\ \A k \in 0..p.sinks-1 : x.sink[k].lane # None =>
         x.lane[x.sink[k].lane] # None /\ x.lane[x.sink[k].lane].sink = k
    /\ \A l \in 0..p.lanes-1 : x.lane[l] # None =>
         /\ x.lane[l].source \in 0..p.sources-1 /\ x.lane[l].sink \in 0..p.sinks-1
         /\ x.source[x.lane[l].source].lane = l /\ x.sink[x.lane[l].sink].lane = l

(* What passes a lane leaves its source and enters its sink. *)
LEMMA LaneBeats ==
  ASSUME NEW p, Params(p), NEW x, Ports(p, x), Connected(p, x), NEW offer, NEW ready,
         NEW l \in 0..p.lanes-1, x.lane[l] # None
  PROVE  /\ Ch(p, x)!SourceBeat(x.lane[l].source, offer, ready) = Ch(p, x)!LaneBeat(l, offer, ready)
         /\ Ch(p, x)!SinkBeat(x.lane[l].sink, offer, ready) = Ch(p, x)!LaneBeat(l, offer, ready)
<1>1. /\ x.source[x.lane[l].source].lane = l /\ x.sink[x.lane[l].sink].lane = l /\ l # None
  BY DEF Connected, Params
<1> QED BY <1>1 DEF Ch!SourceBeat, Ch!SinkBeat, Ch!LaneBeat, Ch!InReady, Ch!OutBeat

LEMMA BeatOnLane ==
  ASSUME NEW p, Params(p), NEW x, NEW offer, NEW ready
  PROVE  /\ \A s : Ch(p, x)!SourceBeat(s, offer, ready) # None => x.source[s].lane # None
         /\ \A k : Ch(p, x)!SinkBeat(k, offer, ready) # None => x.sink[k].lane # None
BY DEF Ch!SourceBeat, Ch!SinkBeat

(* A grant is for the burst that is the oldest of both ports, and neither  *)
(* port goes on with another.                                              *)
GrantFits(p, x, offer, ready, g) ==
    /\ g.source \in 0..p.sources-1 /\ g.sink \in 0..p.sinks-1 /\ g.lane \in 0..p.lanes-1
    /\ ~x.source[g.source].grant_mask /\ ~x.sink[g.sink].grant_mask
    /\ \/ x.source[g.source].lane = None
       \/ Ch(p, x)!SourceBeat(g.source, offer, ready) = "last"
    /\ \/ x.sink[g.sink].lane = None
       \/ Ch(p, x)!SinkBeat(g.sink, offer, ready) = "last"
    /\ p.sinks > 1 => /\ x.source[g.source].cmds # <<>>
                      /\ Head(x.source[g.source].cmds) = g.sink
    /\ p.sources > 1 => /\ x.sink[g.sink].cmds # <<>>
                        /\ Head(x.sink[g.sink].cmds) = g.source

LEMMA GrantFacts ==
  ASSUME NEW p, Params(p), NEW x, Ports(p, x), NEW offer, NEW ready, NEW g, g # None,
         GrantOf(p, x, offer, ready, g)
  PROVE  GrantFits(p, x, offer, ready, g)
<1>1. /\ g.source \in 0..p.sources-1
      /\ Ch(p, x)!SourceIdle(g.source, offer, ready) /\ ~Ch(p, x)!SourceEmpty(g.source)
      /\ Ch(p, x)!SinkIdle(g.sink, offer, ready) /\ ~Ch(p, x)!SinkEmpty(g.sink)
      /\ Ch(p, x)!arb_source(g.sink) = g.source
      /\ g.sink = Ch(p, x)!arb_req_sink(g.source)
      /\ g.lane \in 0..p.lanes-1
  BY DEF GrantOf, Ch!Requests, Ch!Sources
<1>2. p.sinks > 1 => /\ x.source[g.source].cmds # <<>> /\ Head(x.source[g.source].cmds) = g.sink
  BY <1>1 DEF Ch!SourceEmpty, Ch!arb_req_sink
<1>3. p.sources > 1 => /\ x.sink[g.sink].cmds # <<>> /\ Head(x.sink[g.sink].cmds) = g.source
  BY <1>1 DEF Ch!SinkEmpty, Ch!arb_source
<1>4. g.sink \in 0..p.sinks-1
  <2>1. CASE p.sinks > 1
    <3>1. x.source[g.source].cmds \in Seq(0..p.sinks-1)
      BY <1>1 DEF Ports, PortInv
    <3> QED BY <1>2, <2>1, <3>1, HeadTailProperties
  <2>2. CASE p.sinks = 1
    BY <1>1, <2>2 DEF Ch!arb_req_sink
  <2> QED BY <2>1, <2>2 DEF Params
<1> QED BY <1>1, <1>2, <1>3, <1>4 DEF GrantFits, Ch!SourceIdle, Ch!SinkIdle
--------------------------------------------------------------------------------
(* The command that is pushed next has room in the queues of its ports. *)
Pending(p, x, c) == c # None =>
    /\ c.source \in 0..p.sources-1 /\ c.sink \in 0..p.sinks-1
    /\ p.sinks > 1 => Len(x.source[c.source].cmds) < p.mot
    /\ p.sources > 1 => Len(x.sink[c.sink].cmds) < p.mot

Bounded(p, x) ==
    /\ \A s \in 0..p.sources-1 : Len(x.source[s].cmds) <= p.mot
    /\ \A k \in 0..p.sinks-1 : Len(x.sink[k].cmds) <= p.mot

(* What a cycle does to the ports of either side. *)
SourceMoved(p, x, x2, c, g, s) ==
    /\ PortInv(x2.source[s], p.sinks, p)
    /\ Waiting(x2.source[s]) =
         Moved(Waiting(x.source[s]), (g # None /\ g.source = s) /\ p.sinks > 1,
               p.sinks > 1 /\ c # None /\ c.source = s, c.sink)
    /\ Len(x2.source[s].cmds) <= Len(x.source[s].cmds)
                                   + (IF p.sinks > 1 /\ c # None /\ c.source = s THEN 1 ELSE 0)
SinkMoved(p, x, x2, c, g, k) ==
    /\ PortInv(x2.sink[k], p.sources, p)
    /\ Waiting(x2.sink[k]) =
         Moved(Waiting(x.sink[k]), (g # None /\ g.sink = k) /\ p.sources > 1,
               p.sources > 1 /\ c # None /\ c.sink = k, c.source)
    /\ Len(x2.sink[k].cmds) <= Len(x.sink[k].cmds)
                                 + (IF p.sources > 1 /\ c # None /\ c.sink = k THEN 1 ELSE 0)

LEMMA PortsMoved ==
  ASSUME NEW p, Params(p), NEW x, Ports(p, x), NEW c, Pending(p, x, c),
         NEW x2, NEW offer, NEW ready, NEW g, ChannelStep(p, x, x2, c, offer, ready, g)
  PROVE  /\ \A s \in 0..p.sources-1 : SourceMoved(p, x, x2, c, g, s)
         /\ \A k \in 0..p.sinks-1 : SinkMoved(p, x, x2, c, g, k)
<1>1. g # None => GrantFits(p, x, offer, ready, g)
  BY GrantFacts DEF ChannelStep
<1>2. ASSUME NEW s \in 0..p.sources-1 PROVE SourceMoved(p, x, x2, c, g, s)
  <2> DEFINE granted == g # None /\ g.source = s
             push == p.sinks > 1 /\ c # None /\ c.source = s
             last == Ch(p, x)!SourceBeat(s, offer, ready) = "last"
  <2>1. p.sinks \in Nat \ {0} /\ granted \in BOOLEAN /\ push \in BOOLEAN
    BY DEF Params
  <2>2. PortInv(x.source[s], p.sinks, p)
    BY DEF Ports
  <2>3. PortNext(x.source[s], p.sinks, x2.source[s], granted, g.lane, last, push, c.sink)
    BY DEF ChannelStep
  <2>4. granted => /\ ~x.source[s].grant_mask /\ g.lane \in 0..p.lanes-1
                   /\ p.sinks > 1 => x.source[s].cmds # <<>>
    BY <1>1 DEF GrantFits
  <2>5. push => c.sink \in 0..p.sinks-1
    BY DEF Pending
  <2> HIDE DEF granted, push, last
  <2>6. /\ PortInv(x2.source[s], p.sinks, p)
        /\ Waiting(x2.source[s]) = Moved(Waiting(x.source[s]), granted /\ p.sinks > 1, push, c.sink)
        /\ Len(x2.source[s].cmds) <= Len(x.source[s].cmds) + (IF push THEN 1 ELSE 0)
    BY <2>1, <2>2, <2>3, <2>4, <2>5, PortMoved
  <2> QED BY <2>6 DEF SourceMoved, granted, push
<1>3. ASSUME NEW k \in 0..p.sinks-1 PROVE SinkMoved(p, x, x2, c, g, k)
  <2> DEFINE granted == g # None /\ g.sink = k
             push == p.sources > 1 /\ c # None /\ c.sink = k
             last == Ch(p, x)!SinkBeat(k, offer, ready) = "last"
  <2>1. p.sources \in Nat \ {0} /\ granted \in BOOLEAN /\ push \in BOOLEAN
    BY DEF Params
  <2>2. PortInv(x.sink[k], p.sources, p)
    BY DEF Ports
  <2>3. PortNext(x.sink[k], p.sources, x2.sink[k], granted, g.lane, last, push, c.source)
    BY DEF ChannelStep
  <2>4. granted => /\ ~x.sink[k].grant_mask /\ g.lane \in 0..p.lanes-1
                   /\ p.sources > 1 => x.sink[k].cmds # <<>>
    BY <1>1 DEF GrantFits
  <2>5. push => c.source \in 0..p.sources-1
    BY DEF Pending
  <2> HIDE DEF granted, push, last
  <2>6. /\ PortInv(x2.sink[k], p.sources, p)
        /\ Waiting(x2.sink[k]) = Moved(Waiting(x.sink[k]), granted /\ p.sources > 1, push, c.source)
        /\ Len(x2.sink[k].cmds) <= Len(x.sink[k].cmds) + (IF push THEN 1 ELSE 0)
    BY <2>1, <2>2, <2>3, <2>4, <2>5, PortMoved
  <2> QED BY <2>6 DEF SinkMoved, granted, push
<1> QED BY <1>2, <1>3

LEMMA RoomKept ==
  ASSUME NEW p, Params(p), NEW x, Ports(p, x), NEW c, Pending(p, x, c), Bounded(p, x), NEW x2,
         NEW g,
         \A s \in 0..p.sources-1 : SourceMoved(p, x, x2, c, g, s),
         \A k \in 0..p.sinks-1 : SinkMoved(p, x, x2, c, g, k),
         NEW c2,
         c2 # None =>
             /\ c2.source \in 0..p.sources-1 /\ c2.sink \in 0..p.sinks-1
             /\ ~Ch(p, x)!cmd_full_source(c2.source) /\ ~Ch(p, x)!cmd_full_sink(c2.sink)
  PROVE  Bounded(p, x2) /\ Pending(p, x2, c2)
<1>1. p.mot \in Nat /\ p.mot >= 2
  BY DEF Params
<1>2. ASSUME NEW s \in 0..p.sources-1
      PROVE  /\ Len(x2.source[s].cmds) <= p.mot
             /\ ~Ch(p, x)!cmd_full_source(s) /\ p.sinks > 1 => Len(x2.source[s].cmds) < p.mot
  <2> DEFINE n == Len(x.source[s].cmds)
             n2 == Len(x2.source[s].cmds)
             push == p.sinks > 1 /\ c # None /\ c.source = s
             m == p.mot
  <2>1. n \in Nat /\ n2 \in Nat
    <3>1. x.source[s].cmds \in Seq(0..p.sinks-1) /\ x2.source[s].cmds \in Seq(0..p.sinks-1)
      BY DEF Ports, PortInv, SourceMoved
    <3> QED BY <3>1, LenProperties
  <2>2. n <= m /\ (push => n < m) /\ n2 <= n + (IF push THEN 1 ELSE 0)
    BY DEF Bounded, Pending, SourceMoved
  <2>3. ~Ch(p, x)!cmd_full_source(s) /\ p.sinks > 1 => ~(n >= m - 1)
    BY DEF Ch!cmd_full_source
  <2>4. m \in Nat /\ m >= 2
    BY <1>1
  <2> HIDE DEF n, n2, push, m
  <2>5. n2 <= m
    BY <2>1, <2>2, <2>4
  <2>6. ~(n >= m - 1) => n2 < m
    BY <2>1, <2>2, <2>4
  <2> QED BY <2>3, <2>5, <2>6 DEF n2, m
<1>3. ASSUME NEW k \in 0..p.sinks-1
      PROVE  /\ Len(x2.sink[k].cmds) <= p.mot
             /\ ~Ch(p, x)!cmd_full_sink(k) /\ p.sources > 1 => Len(x2.sink[k].cmds) < p.mot
  <2> DEFINE n == Len(x.sink[k].cmds)
             n2 == Len(x2.sink[k].cmds)
             push == p.sources > 1 /\ c # None /\ c.sink = k
             m == p.mot
  <2>1. n \in Nat /\ n2 \in Nat
    <3>1. x.sink[k].cmds \in Seq(0..p.sources-1) /\ x2.sink[k].cmds \in Seq(0..p.sources-1)
      BY DEF Ports, PortInv, SinkMoved
    <3> QED BY <3>1, LenProperties
  <2>2. n <= m /\ (push => n < m) /\ n2 <= n + (IF push THEN 1 ELSE 0)
    BY DEF Bounded, Pending, SinkMoved
  <2>3. ~Ch(p, x)!cmd_full_sink(k) /\ p.sources > 1 => ~(n >= m - 1)
    BY DEF Ch!cmd_full_sink
  <2>4. m \in Nat /\ m >= 2
    BY <1>1
  <2> HIDE DEF n, n2, push, m
  <2>5. n2 <= m
    BY <2>1, <2>2, <2>4
  <2>6. ~(n >= m - 1) => n2 < m
    BY <2>1, <2>2, <2>4
  <2> QED BY <2>3, <2>5, <2>6 DEF n2, m
<1> QED BY <1>2, <1>3 DEF Bounded, Pending
--------------------------------------------------------------------------------
(* A lane whose burst goes on is kept by both its ports. *)
LEMMA LanesKept ==
  ASSUME NEW p, Params(p), NEW x, Ports(p, x), Connected(p, x), NEW x2, NEW c, NEW offer,
         NEW ready, NEW g, ChannelStep(p, x, x2, c, offer, ready, g),
         NEW l \in 0..p.lanes-1, x.lane[l] # None, Ch(p, x)!LaneBeat(l, offer, ready) # "last"
  PROVE  /\ x2.lane[l] = x.lane[l] /\ ~(g # None /\ g.lane = l)
         /\ ~(g # None /\ g.source = x.lane[l].source) /\ ~(g # None /\ g.sink = x.lane[l].sink)
         /\ x2.source[x.lane[l].source].lane = l /\ x2.sink[x.lane[l].sink].lane = l
<1> DEFINE s == x.lane[l].source
           k == x.lane[l].sink
<1>1. g # None => GrantFits(p, x, offer, ready, g) /\ Ch(p, x)!LaneIdle(g.lane, offer, ready)
  BY GrantFacts DEF ChannelStep, GrantOf
<1>2. /\ Ch(p, x)!SourceBeat(s, offer, ready) # "last"
      /\ Ch(p, x)!SinkBeat(k, offer, ready) # "last"
  BY LaneBeats
<1>3. ~Ch(p, x)!LaneIdle(l, offer, ready)
  BY DEF Ch!LaneIdle
<1>4. s \in 0..p.sources-1 /\ k \in 0..p.sinks-1 /\ x.source[s].lane = l /\ x.sink[k].lane = l
      /\ l # None
  BY DEF Connected, Params
<1>5. ~(g # None /\ g.lane = l)
  BY <1>1, <1>3
<1>6. x2.lane[l] = x.lane[l]
  BY <1>3, <1>5 DEF ChannelStep
<1>7. ~(g # None /\ g.source = s) /\ ~(g # None /\ g.sink = k)
  BY <1>1, <1>2, <1>4 DEF GrantFits
<1>8. PortNext(x.source[s], p.sinks, x2.source[s], g # None /\ g.source = s, g.lane,
               Ch(p, x)!SourceBeat(s, offer, ready) = "last",
               p.sinks > 1 /\ c # None /\ c.source = s, c.sink)
  BY <1>4 DEF ChannelStep
<1>9. PortNext(x.sink[k], p.sources, x2.sink[k], g # None /\ g.sink = k, g.lane,
               Ch(p, x)!SinkBeat(k, offer, ready) = "last",
               p.sources > 1 /\ c # None /\ c.sink = k, c.source)
  BY <1>4 DEF ChannelStep
<1>10. x2.source[s].lane = l
  BY <1>2, <1>4, <1>7, <1>8 DEF PortNext
<1>11. x2.sink[k].lane = l
  BY <1>2, <1>4, <1>7, <1>9 DEF PortNext
<1> QED BY <1>5, <1>6, <1>7, <1>10, <1>11

(* A port after the cycle is on the lane of its grant, on none, or goes on *)
(* with its burst.                                                         *)
LEMMA ConnectedStep ==
  ASSUME NEW p, Params(p), NEW x, Ports(p, x), Connected(p, x), NEW x2, NEW c, NEW offer,
         NEW ready, NEW g, ChannelStep(p, x, x2, c, offer, ready, g)
  PROVE  Connected(p, x2)
<1>1. g # None => /\ GrantFits(p, x, offer, ready, g)
                  /\ g.lane \in 0..p.lanes-1 /\ g.lane # None
                  /\ x2.lane[g.lane] = [source |-> g.source, sink |-> g.sink]
                  /\ x2.lane[g.lane] # None
  <2> SUFFICES ASSUME g # None PROVE GrantFits(p, x, offer, ready, g)
                  /\ g.lane \in 0..p.lanes-1 /\ g.lane # None
                  /\ x2.lane[g.lane] = [source |-> g.source, sink |-> g.sink]
                  /\ x2.lane[g.lane] # None
    OBVIOUS
  <2>1. GrantFits(p, x, offer, ready, g)
    BY GrantFacts DEF ChannelStep
  <2>2. g.lane \in 0..p.lanes-1 /\ g.lane # None /\ g.source \in 0..p.sources-1
        /\ g.sink \in 0..p.sinks-1
    BY <2>1 DEF GrantFits, Params
  <2>3. x2.lane[g.lane] = [source |-> g.source, sink |-> g.sink]
    BY <2>2 DEF ChannelStep
  <2>4. [source |-> g.source, sink |-> g.sink] \in [source : 0..p.sources-1, sink : 0..p.sinks-1]
    BY <2>2
  <2>5. x2.lane[g.lane] # None
    BY <2>3, <2>4 DEF Params
  <2> QED BY <2>1, <2>2, <2>3, <2>5
<1>2. ASSUME NEW s \in 0..p.sources-1, x2.source[s].lane # None
      PROVE  x2.lane[x2.source[s].lane] # None /\ x2.lane[x2.source[s].lane].source = s
  <2>1. PortNext(x.source[s], p.sinks, x2.source[s], g # None /\ g.source = s, g.lane,
                 Ch(p, x)!SourceBeat(s, offer, ready) = "last",
                 p.sinks > 1 /\ c # None /\ c.source = s, c.sink)
    BY DEF ChannelStep
  <2>2. CASE g # None /\ g.source = s
    BY <1>1, <2>1, <2>2 DEF PortNext
  <2>3. CASE ~(g # None /\ g.source = s)
    <3> DEFINE l == x.source[s].lane
    <3>1. /\ Ch(p, x)!SourceBeat(s, offer, ready) # "last" /\ x2.source[s].lane = l /\ l # None
      BY <1>2, <2>1, <2>3 DEF PortNext
    <3>2. l \in 0..p.lanes-1 /\ x.lane[l] # None /\ x.lane[l].source = s
      BY <3>1 DEF Ports, PortInv, Connected
    <3>3. Ch(p, x)!LaneBeat(l, offer, ready) # "last"
      BY <3>1, <3>2, LaneBeats
    <3> HIDE DEF l
    <3>4. x2.lane[l] = x.lane[l]
      BY <3>2, <3>3, LanesKept
    <3> QED BY <3>1, <3>2, <3>4
  <2> QED BY <2>2, <2>3
<1>3. ASSUME NEW k \in 0..p.sinks-1, x2.sink[k].lane # None
      PROVE  x2.lane[x2.sink[k].lane] # None /\ x2.lane[x2.sink[k].lane].sink = k
  <2>1. PortNext(x.sink[k], p.sources, x2.sink[k], g # None /\ g.sink = k, g.lane,
                 Ch(p, x)!SinkBeat(k, offer, ready) = "last",
                 p.sources > 1 /\ c # None /\ c.sink = k, c.source)
    BY DEF ChannelStep
  <2>2. CASE g # None /\ g.sink = k
    BY <1>1, <2>1, <2>2 DEF PortNext
  <2>3. CASE ~(g # None /\ g.sink = k)
    <3> DEFINE l == x.sink[k].lane
    <3>1. /\ Ch(p, x)!SinkBeat(k, offer, ready) # "last" /\ x2.sink[k].lane = l /\ l # None
      BY <1>3, <2>1, <2>3 DEF PortNext
    <3>2. l \in 0..p.lanes-1 /\ x.lane[l] # None /\ x.lane[l].sink = k
      BY <3>1 DEF Ports, PortInv, Connected
    <3>3. Ch(p, x)!LaneBeat(l, offer, ready) # "last"
      BY <3>1, <3>2, LaneBeats
    <3> HIDE DEF l
    <3>4. x2.lane[l] = x.lane[l]
      BY <3>2, <3>3, LanesKept
    <3> QED BY <3>1, <3>2, <3>4
  <2> QED BY <2>2, <2>3
<1>4. ASSUME NEW l \in 0..p.lanes-1, x2.lane[l] # None
      PROVE  /\ x2.lane[l].source \in 0..p.sources-1 /\ x2.lane[l].sink \in 0..p.sinks-1
             /\ x2.source[x2.lane[l].source].lane = l /\ x2.sink[x2.lane[l].sink].lane = l
  <2>1. CASE g # None /\ g.lane = l
    <3>1. g.source \in 0..p.sources-1 /\ g.sink \in 0..p.sinks-1
      BY <1>1, <2>1 DEF GrantFits
    <3>2. x2.source[g.source].lane = l /\ x2.sink[g.sink].lane = l
      BY <2>1, <3>1 DEF ChannelStep, PortNext
    <3> QED BY <1>1, <2>1, <3>1, <3>2
  <2>2. CASE ~(g # None /\ g.lane = l)
    <3>1. ~Ch(p, x)!LaneIdle(l, offer, ready)
      BY <1>4, <2>2 DEF ChannelStep
    <3>2. x.lane[l] # None /\ Ch(p, x)!LaneBeat(l, offer, ready) # "last"
      BY <3>1 DEF Ch!LaneIdle
    <3>3. /\ x2.lane[l] = x.lane[l]
          /\ x2.source[x.lane[l].source].lane = l /\ x2.sink[x.lane[l].sink].lane = l
      BY <3>2, LanesKept
    <3>4. x.lane[l].source \in 0..p.sources-1 /\ x.lane[l].sink \in 0..p.sinks-1
      BY <3>2 DEF Connected
    <3> QED BY <3>3, <3>4
  <2> QED BY <2>1, <2>2
<1> QED BY <1>2, <1>3, <1>4 DEF Connected
--------------------------------------------------------------------------------
(* The queues of the two sides hold the same commands. *)
Balanced(p, x) ==
    p.sources > 1 /\ p.sinks > 1 =>
        \A s \in 0..p.sources-1, k \in 0..p.sinks-1 :
            Count(k, Waiting(x.source[s])) = Count(s, Waiting(x.sink[k]))

LEMMA BalancedStep ==
  ASSUME NEW p, Params(p), NEW x, Ports(p, x), Balanced(p, x), NEW c, Pending(p, x, c),
         NEW x2, NEW offer, NEW ready, NEW g, g # None => GrantFits(p, x, offer, ready, g),
         \A s \in 0..p.sources-1 : SourceMoved(p, x, x2, c, g, s),
         \A k \in 0..p.sinks-1 : SinkMoved(p, x, x2, c, g, k)
  PROVE  Balanced(p, x2)
<1> SUFFICES ASSUME p.sources > 1, p.sinks > 1,
                    NEW s \in 0..p.sources-1, NEW k \in 0..p.sinks-1
             PROVE  Count(k, Waiting(x2.source[s])) = Count(s, Waiting(x2.sink[k]))
  BY DEF Balanced
<1> DEFINE a == Waiting(x.source[s])
           b == Waiting(x.sink[k])
           da == (g # None /\ g.source = s) /\ p.sinks > 1
           db == (g # None /\ g.sink = k) /\ p.sources > 1
           pa == p.sinks > 1 /\ c # None /\ c.source = s
           pb == p.sources > 1 /\ c # None /\ c.sink = k
<1>1. a \in Seq(0..p.sinks-1) /\ b \in Seq(0..p.sources-1)
  BY WaitingFacts DEF Ports
<1>2. Waiting(x2.source[s]) = Moved(a, da, pa, c.sink)
  BY DEF SourceMoved
<1>3. Waiting(x2.sink[k]) = Moved(b, db, pb, c.source)
  BY DEF SinkMoved
<1>4. da => a # <<>> /\ Head(a) = g.sink
  <2>1. PortInv(x.source[s], p.sinks, p)
    BY DEF Ports
  <2> QED BY <2>1, WaitingFacts DEF GrantFits
<1>5. db => b # <<>> /\ Head(b) = g.source
  <2>1. PortInv(x.sink[k], p.sources, p)
    BY DEF Ports
  <2> QED BY <2>1, WaitingFacts DEF GrantFits
<1>6. Count(k, a) = Count(s, b)
  BY DEF Balanced
<1>7. /\ da \in BOOLEAN /\ pa \in BOOLEAN /\ (pa => c.sink \in 0..p.sinks-1)
      /\ db \in BOOLEAN /\ pb \in BOOLEAN /\ (pb => c.source \in 0..p.sources-1)
  BY DEF Pending
<1>8. /\ da /\ Head(a) = k <=> db /\ Head(b) = s
      /\ pa /\ c.sink = k <=> pb /\ c.source = s
  BY <1>4, <1>5
<1> HIDE DEF a, b, da, db, pa, pb
<1>9. MovedCounts(a, da, pa, c.sink)
  <2>1. MovedWell(0..p.sinks-1, a, da, pa, c.sink)
    BY <1>1, <1>4, <1>7, MovedFacts
  <2> QED BY <2>1 DEF MovedWell
<1>10. MovedCounts(b, db, pb, c.source)
  <2>1. MovedWell(0..p.sources-1, b, db, pb, c.source)
    BY <1>1, <1>5, <1>7, MovedFacts
  <2> QED BY <2>1 DEF MovedWell
<1>11. Count(k, Moved(a, da, pa, c.sink)) =
          Count(k, a) + (IF pa /\ c.sink = k THEN 1 ELSE 0) - (IF da /\ Head(a) = k THEN 1 ELSE 0)
  BY <1>9 DEF MovedCounts
<1>12. Count(s, Moved(b, db, pb, c.source)) =
          Count(s, b) + (IF pb /\ c.source = s THEN 1 ELSE 0) - (IF db /\ Head(b) = s THEN 1 ELSE 0)
  BY <1>10 DEF MovedCounts
<1> QED BY <1>2, <1>3, <1>6, <1>8, <1>11, <1>12
--------------------------------------------------------------------------------
SourceQueues(p, x) == [s \in 0..p.sources-1 |-> Waiting(x.source[s])]
SinkQueues(p, x) == [k \in 0..p.sinks-1 |-> Waiting(x.sink[k])]

(* The burst a port is in the middle of, by its port on the other side. *)
SourceBurst(x, s) ==
    IF x.source[s].lane = None THEN <<>> ELSE <<x.lane[x.source[s].lane].sink>>
SinkBurst(x, k) ==
    IF x.sink[k].lane = None THEN <<>> ELSE <<x.lane[x.sink[k].lane].source>>

(* What the pending command means for a port. *)
ForSource(c, s) == IF c # None /\ c.source = s THEN <<c.sink>> ELSE <<>>
ForSink(c, k) == IF c # None /\ c.sink = k THEN <<c.source>> ELSE <<>>

(* The bursts a port waits for, oldest first: the one on its lane, those   *)
(* in its queue, the pending command e and those still to come, v.         *)
SourceWaits(p, x, s, e, v) ==
    SourceBurst(x, s) \o (Awaits(p.sinks, SourceQueues(p, x), SinkQueues(p, x), s) \o (e \o v))
SinkWaits(p, x, k, e, v) ==
    SinkBurst(x, k) \o (Awaits(p.sources, SinkQueues(p, x), SourceQueues(p, x), k) \o (e \o v))

LEMMA SourceBurstMoved ==
  ASSUME NEW p, Params(p), NEW x, Ports(p, x), Connected(p, x), NEW x2, NEW c, NEW offer,
         NEW ready, NEW g, ChannelStep(p, x, x2, c, offer, ready, g), NEW s \in 0..p.sources-1
  PROVE  /\ SourceBurst(x, s) \in Seq(0..p.sinks-1) /\ Len(SourceBurst(x, s)) <= 1
         /\ Ch(p, x)!SourceBeat(s, offer, ready) = "last" => SourceBurst(x, s) # <<>>
         /\ g # None /\ g.source = s =>
                SourceBurst(x, s) = <<>> \/ Ch(p, x)!SourceBeat(s, offer, ready) = "last"
         /\ SourceBurst(x2, s) =
                IF g # None /\ g.source = s THEN <<g.sink>>
                ELSE IF Ch(p, x)!SourceBeat(s, offer, ready) = "last" THEN <<>>
                ELSE SourceBurst(x, s)
<1> DEFINE l == x.source[s].lane
           last == Ch(p, x)!SourceBeat(s, offer, ready) = "last"
<1>1. g # None => GrantFits(p, x, offer, ready, g)
  BY GrantFacts DEF ChannelStep
<1>2. l # None => /\ l \in 0..p.lanes-1 /\ x.lane[l] # None /\ x.lane[l].source = s
                  /\ x.lane[l].sink \in 0..p.sinks-1
  BY DEF Connected, Ports, PortInv
<1>3. PortNext(x.source[s], p.sinks, x2.source[s], g # None /\ g.source = s, g.lane,
               last, p.sinks > 1 /\ c # None /\ c.source = s, c.sink)
  BY DEF ChannelStep
<1>4. last => l # None
  BY BeatOnLane DEF Params
<1>5. SourceBurst(x, s) = IF l = None THEN <<>> ELSE <<x.lane[l].sink>>
  BY DEF SourceBurst
<1>6. g # None /\ g.source = s => l = None \/ last
  BY <1>1 DEF GrantFits
<1>7. SourceBurst(x2, s) = IF g # None /\ g.source = s THEN <<g.sink>>
                         ELSE IF last THEN <<>> ELSE SourceBurst(x, s)
  <2>1. CASE g # None /\ g.source = s
    <3>1. x2.source[s].lane = g.lane /\ g.lane \in 0..p.lanes-1 /\ g.lane # None
      BY <1>1, <1>3, <2>1 DEF PortNext, GrantFits, Params
    <3>2. x2.lane[g.lane] = [source |-> g.source, sink |-> g.sink]
      BY <2>1, <3>1 DEF ChannelStep
    <3> QED BY <2>1, <3>1, <3>2 DEF SourceBurst
  <2>2. CASE ~(g # None /\ g.source = s) /\ last
    BY <1>3, <2>2 DEF PortNext, SourceBurst
  <2>3. CASE ~(g # None /\ g.source = s) /\ ~last
    <3>1. x2.source[s].lane = l
      BY <1>3, <2>3 DEF PortNext
    <3>2. CASE l = None
      BY <2>3, <3>1, <3>2 DEF SourceBurst
    <3>3. CASE l # None
      <4>1. Ch(p, x)!LaneBeat(l, offer, ready) # "last"
        BY <1>2, <2>3, <3>3, LaneBeats
      <4>2. x2.lane[l] = x.lane[l]
        BY <1>2, <3>3, <4>1, LanesKept
      <4> QED BY <2>3, <3>1, <3>3, <4>2 DEF SourceBurst
    <3> QED BY <3>2, <3>3
  <2> QED BY <2>1, <2>2, <2>3
<1>8. SourceBurst(x, s) \in Seq(0..p.sinks-1) /\ Len(SourceBurst(x, s)) <= 1
  <2> DEFINE y == x.lane[l].sink
             S == 0..p.sinks-1
  <2>1. (l # None => y \in S) /\ SourceBurst(x, s) = IF l = None THEN <<>> ELSE <<y>>
    BY <1>2, <1>5
  <2> HIDE DEF l, y, S
  <2>2. CASE l = None
    BY <2>1, <2>2 DEF S
  <2>3. CASE l # None
    <3>1. <<y>> \in Seq(S) /\ Len(<<y>>) = 1
      BY <2>1, <2>3
    <3> QED BY <2>1, <2>3, <3>1 DEF S
  <2> QED BY <2>2, <2>3
<1> HIDE DEF l
<1> QED BY <1>4, <1>5, <1>6, <1>7, <1>8

(* What source s waits for follows what arrives and what ends.             *)
SourceFollows(p, x, x2, c, offer, ready, s, v, n, e2, v2) ==
    SourceWaits(p, x2, s, e2, v2) =
        (IF Ch(p, x)!SourceBeat(s, offer, ready) = "last"
         THEN Tail(SourceWaits(p, x, s, ForSource(c, s), v))
         ELSE SourceWaits(p, x, s, ForSource(c, s), v)) \o n

LEMMA SourceHistory ==
  ASSUME NEW p, Params(p), NEW x, Ports(p, x), Connected(p, x), NEW c, Pending(p, x, c),
         NEW x2, NEW offer, NEW ready, NEW g, ChannelStep(p, x, x2, c, offer, ready, g),
         NEW s \in 0..p.sources-1,
         NEW v \in Seq(0..p.sinks-1), NEW n \in Seq(0..p.sinks-1), NEW e2, NEW v2,
         e2 \o v2 = v \o n
  PROVE  SourceFollows(p, x, x2, c, offer, ready, s, v, n, e2, v2)
<1> DEFINE S == 0..p.sinks-1
           a == SourceQueues(p, x)
           b == SinkQueues(p, x)
           a2 == SourceQueues(p, x2)
           b2 == SinkQueues(p, x2)
           drop == g # None
           add == c # None
           q == Awaits(p.sinks, a, b, s)
           q2 == Awaits(p.sinks, a2, b2, s)
           burst == SourceBurst(x, s)
           burst2 == SourceBurst(x2, s)
           grant == drop /\ g.source = s
           last == Ch(p, x)!SourceBeat(s, offer, ready) = "last"
           e == ForSource(c, s)
<1>1. g # None => GrantFits(p, x, offer, ready, g)
  BY GrantFacts DEF ChannelStep
<1>2. /\ \A i \in 0..p.sources-1 : SourceMoved(p, x, x2, c, g, i)
      /\ \A k \in 0..p.sinks-1 : SinkMoved(p, x, x2, c, g, k)
  BY PortsMoved
<1>3. /\ q \in Seq(S)
      /\ grant => q # <<>> /\ Head(q) = g.sink
      /\ q2 = Moved(q, grant, add /\ c.source = s, c.sink)
  <2>1. /\ p.sources \in Nat \ {0} /\ p.sinks \in Nat \ {0} /\ p.sources + p.sinks > 2
    BY DEF Params
  <2>2. /\ drop \in BOOLEAN /\ add \in BOOLEAN
        /\ drop => g.source \in 0..p.sources-1 /\ g.sink \in 0..p.sinks-1
        /\ add => c.source \in 0..p.sources-1 /\ c.sink \in 0..p.sinks-1
    BY <1>1 DEF GrantFits, Pending
  <2>3. p.sinks > 1 => \A i \in 0..p.sources-1 :
          /\ a[i] \in Seq(S)
          /\ a2[i] = Moved(a[i], drop /\ g.source = i, add /\ c.source = i, c.sink)
    <3> SUFFICES ASSUME p.sinks > 1, NEW i \in 0..p.sources-1
                 PROVE  /\ a[i] \in Seq(S)
                        /\ a2[i] = Moved(a[i], drop /\ g.source = i, add /\ c.source = i, c.sink)
      OBVIOUS
    <3>1. a[i] = Waiting(x.source[i]) /\ a2[i] = Waiting(x2.source[i])
      BY DEF SourceQueues
    <3>2. PortInv(x.source[i], p.sinks, p)
      BY DEF Ports
    <3>3. a[i] \in Seq(S)
      BY <3>1, <3>2, WaitingFacts
    <3>4. Waiting(x2.source[i]) = Moved(Waiting(x.source[i]),
                                     (g # None /\ g.source = i) /\ p.sinks > 1,
                                     p.sinks > 1 /\ c # None /\ c.source = i, c.sink)
      BY <1>2 DEF SourceMoved
    <3>5. /\ ((g # None /\ g.source = i) /\ p.sinks > 1) = (drop /\ g.source = i)
          /\ (p.sinks > 1 /\ c # None /\ c.source = i) = (add /\ c.source = i)
      OBVIOUS
    <3> HIDE DEF a, a2, drop, add
    <3> QED BY <3>1, <3>3, <3>4, <3>5
  <2>4. p.sinks > 1 /\ drop => a[g.source] # <<>> /\ Head(a[g.source]) = g.sink
    <3> SUFFICES ASSUME p.sinks > 1, drop PROVE a[g.source] # <<>> /\ Head(a[g.source]) = g.sink
      OBVIOUS
    <3>1. g.source \in 0..p.sources-1 /\ ~x.source[g.source].grant_mask
          /\ x.source[g.source].cmds # <<>> /\ Head(x.source[g.source].cmds) = g.sink
      BY <1>1 DEF GrantFits
    <3>2. PortInv(x.source[g.source], p.sinks, p)
      BY <3>1 DEF Ports
    <3>3. a[g.source] = x.source[g.source].cmds
      BY <3>1, <3>2, WaitingFacts DEF SourceQueues
    <3> QED BY <3>1, <3>3
  <2>5. p.sinks = 1 => b[0] \in Seq(0..p.sources-1) /\ b2[0] = Moved(b[0], drop, add, c.source)
    <3> SUFFICES ASSUME p.sinks = 1
                 PROVE  b[0] \in Seq(0..p.sources-1) /\ b2[0] = Moved(b[0], drop, add, c.source)
      OBVIOUS
    <3>0. 0 \in 0..p.sinks-1 /\ p.sources > 1 /\ \A k \in 0..p.sinks-1 : k = 0
      BY <2>1
    <3>1. b[0] = Waiting(x.sink[0]) /\ b2[0] = Waiting(x2.sink[0])
      BY <3>0 DEF SinkQueues
    <3>2. PortInv(x.sink[0], p.sources, p)
      BY <3>0 DEF Ports
    <3>3. b[0] \in Seq(0..p.sources-1)
      BY <3>1, <3>2, WaitingFacts
    <3>4. Waiting(x2.sink[0]) = Moved(Waiting(x.sink[0]),
                                     (g # None /\ g.sink = 0) /\ p.sources > 1,
                                     p.sources > 1 /\ c # None /\ c.sink = 0, c.source)
      BY <1>2, <3>0 DEF SinkMoved
    <3>5. /\ ((g # None /\ g.sink = 0) /\ p.sources > 1) = drop
          /\ (p.sources > 1 /\ c # None /\ c.sink = 0) = add
      BY <2>2, <3>0
    <3> HIDE DEF b, b2, drop, add
    <3> QED BY <3>1, <3>3, <3>4, <3>5
  <2>6. p.sinks = 1 /\ drop => b[0] # <<>> /\ Head(b[0]) = g.source
    <3> SUFFICES ASSUME p.sinks = 1, drop PROVE b[0] # <<>> /\ Head(b[0]) = g.source
      OBVIOUS
    <3>0. 0 \in 0..p.sinks-1 /\ p.sources > 1 /\ \A k \in 0..p.sinks-1 : k = 0
      BY <2>1
    <3>1. g.sink = 0 /\ ~x.sink[0].grant_mask
          /\ x.sink[0].cmds # <<>> /\ Head(x.sink[0].cmds) = g.source
      BY <1>1, <3>0 DEF GrantFits
    <3>2. PortInv(x.sink[0], p.sources, p)
      BY <3>0 DEF Ports
    <3>3. b[0] = x.sink[0].cmds
      BY <3>0, <3>1, <3>2, WaitingFacts DEF SinkQueues
    <3> QED BY <3>1, <3>3
  <2> HIDE DEF a, b, a2, b2, drop, add, S
  <2>7. SideMoves(p.sources, p.sinks, a, b, a2, b2, drop, g.source, g.sink, add, c.source, c.sink)
    BY <2>2, <2>3, <2>4, <2>5, <2>6, Zenon DEF SideMoves, S
  <2>8. AwaitsMoved(p.sinks, a, b, a2, b2, drop, g.source, g.sink, add, c.source, c.sink, s)
    BY <2>1, <2>7, SideMoved
  <2> QED BY <2>8, Zenon DEF AwaitsMoved, S
<1>4. /\ burst \in Seq(S) /\ Len(burst) <= 1 /\ (last => burst # <<>>)
      /\ grant => burst = <<>> \/ last
      /\ burst2 = IF grant THEN <<g.sink>> ELSE IF last THEN <<>> ELSE burst
  BY SourceBurstMoved
<1>5. e \in Seq(S) /\ e = IF add /\ c.source = s THEN <<c.sink>> ELSE <<>>
  <2>1. e = IF add /\ c.source = s THEN <<c.sink>> ELSE <<>>
    BY DEF ForSource
  <2>2. add => c.sink \in S
    BY DEF Pending
  <2> HIDE DEF e, add, S
  <2>3. <<>> \in Seq(S) /\ (add => <<c.sink>> \in Seq(S))
    BY <2>2
  <2> QED BY <2>1, <2>3
<1>6. /\ SourceWaits(p, x, s, e, v) = burst \o (q \o (e \o v))
      /\ SourceWaits(p, x2, s, e2, v2) = burst2 \o (q2 \o (e2 \o v2))
  BY DEF SourceWaits
<1>7. grant \in BOOLEAN /\ last \in BOOLEAN /\ v \in Seq(S) /\ n \in Seq(S)
  OBVIOUS
<1> HIDE DEF S, a, b, a2, b2, q, q2, burst, burst2, last, e
<1>8. q2 = (IF grant THEN Tail(q) ELSE q) \o e
  BY <1>3, <1>5, Zenon DEF Moved
<1>9. burst2 = IF grant THEN <<Head(q)>> ELSE IF last THEN <<>> ELSE burst
  BY <1>3, <1>4
<1> HIDE DEF grant
<1>10. HistoryKept(burst, q, e, v, n, last, grant)
  <2>1. burst \in Seq(S) /\ q \in Seq(S) /\ e \in Seq(S) /\ v \in Seq(S) /\ n \in Seq(S)
    BY <1>3, <1>4, <1>5, <1>7, Zenon
  <2>2. last \in BOOLEAN /\ grant \in BOOLEAN /\ (last => burst # <<>>) /\ Len(burst) <= 1
    BY <1>4, <1>7, Zenon
  <2>3. grant => q # <<>> /\ (burst = <<>> \/ last)
    BY <1>3, <1>4, Zenon
  <2> QED BY <2>1, <2>2, <2>3, HistoryMoved
<1>11. SourceWaits(p, x2, s, e2, v2)
          = (IF last THEN Tail(burst \o (q \o (e \o v))) ELSE burst \o (q \o (e \o v))) \o n
  BY <1>6, <1>8, <1>9, <1>10, Zenon DEF HistoryKept
<1>12. SourceWaits(p, x2, s, e2, v2)
          = (IF last THEN Tail(SourceWaits(p, x, s, e, v)) ELSE SourceWaits(p, x, s, e, v)) \o n
  BY <1>6, <1>11, Zenon
<1> QED BY <1>12, Zenon DEF SourceFollows, last, e

LEMMA SinkBurstMoved ==
  ASSUME NEW p, Params(p), NEW x, Ports(p, x), Connected(p, x), NEW x2, NEW c, NEW offer,
         NEW ready, NEW g, ChannelStep(p, x, x2, c, offer, ready, g), NEW s \in 0..p.sinks-1
  PROVE  /\ SinkBurst(x, s) \in Seq(0..p.sources-1) /\ Len(SinkBurst(x, s)) <= 1
         /\ Ch(p, x)!SinkBeat(s, offer, ready) = "last" => SinkBurst(x, s) # <<>>
         /\ g # None /\ g.sink = s =>
                SinkBurst(x, s) = <<>> \/ Ch(p, x)!SinkBeat(s, offer, ready) = "last"
         /\ SinkBurst(x2, s) =
                IF g # None /\ g.sink = s THEN <<g.source>>
                ELSE IF Ch(p, x)!SinkBeat(s, offer, ready) = "last" THEN <<>>
                ELSE SinkBurst(x, s)
<1> DEFINE l == x.sink[s].lane
           last == Ch(p, x)!SinkBeat(s, offer, ready) = "last"
<1>1. g # None => GrantFits(p, x, offer, ready, g)
  BY GrantFacts DEF ChannelStep
<1>2. l # None => /\ l \in 0..p.lanes-1 /\ x.lane[l] # None /\ x.lane[l].sink = s
                  /\ x.lane[l].source \in 0..p.sources-1
  BY DEF Connected, Ports, PortInv
<1>3. PortNext(x.sink[s], p.sources, x2.sink[s], g # None /\ g.sink = s, g.lane,
               last, p.sources > 1 /\ c # None /\ c.sink = s, c.source)
  BY DEF ChannelStep
<1>4. last => l # None
  BY BeatOnLane DEF Params
<1>5. SinkBurst(x, s) = IF l = None THEN <<>> ELSE <<x.lane[l].source>>
  BY DEF SinkBurst
<1>6. g # None /\ g.sink = s => l = None \/ last
  BY <1>1 DEF GrantFits
<1>7. SinkBurst(x2, s) = IF g # None /\ g.sink = s THEN <<g.source>>
                         ELSE IF last THEN <<>> ELSE SinkBurst(x, s)
  <2>1. CASE g # None /\ g.sink = s
    <3>1. x2.sink[s].lane = g.lane /\ g.lane \in 0..p.lanes-1 /\ g.lane # None
      BY <1>1, <1>3, <2>1 DEF PortNext, GrantFits, Params
    <3>2. x2.lane[g.lane] = [source |-> g.source, sink |-> g.sink]
      BY <2>1, <3>1 DEF ChannelStep
    <3> QED BY <2>1, <3>1, <3>2 DEF SinkBurst
  <2>2. CASE ~(g # None /\ g.sink = s) /\ last
    BY <1>3, <2>2 DEF PortNext, SinkBurst
  <2>3. CASE ~(g # None /\ g.sink = s) /\ ~last
    <3>1. x2.sink[s].lane = l
      BY <1>3, <2>3 DEF PortNext
    <3>2. CASE l = None
      BY <2>3, <3>1, <3>2 DEF SinkBurst
    <3>3. CASE l # None
      <4>1. Ch(p, x)!LaneBeat(l, offer, ready) # "last"
        BY <1>2, <2>3, <3>3, LaneBeats
      <4>2. x2.lane[l] = x.lane[l]
        BY <1>2, <3>3, <4>1, LanesKept
      <4> QED BY <2>3, <3>1, <3>3, <4>2 DEF SinkBurst
    <3> QED BY <3>2, <3>3
  <2> QED BY <2>1, <2>2, <2>3
<1>8. SinkBurst(x, s) \in Seq(0..p.sources-1) /\ Len(SinkBurst(x, s)) <= 1
  <2> DEFINE y == x.lane[l].source
             S == 0..p.sources-1
  <2>1. (l # None => y \in S) /\ SinkBurst(x, s) = IF l = None THEN <<>> ELSE <<y>>
    BY <1>2, <1>5
  <2> HIDE DEF l, y, S
  <2>2. CASE l = None
    BY <2>1, <2>2 DEF S
  <2>3. CASE l # None
    <3>1. <<y>> \in Seq(S) /\ Len(<<y>>) = 1
      BY <2>1, <2>3
    <3> QED BY <2>1, <2>3, <3>1 DEF S
  <2> QED BY <2>2, <2>3
<1> HIDE DEF l
<1> QED BY <1>4, <1>5, <1>6, <1>7, <1>8

(* What sink s waits for follows what arrives and what ends.             *)
SinkFollows(p, x, x2, c, offer, ready, s, v, n, e2, v2) ==
    SinkWaits(p, x2, s, e2, v2) =
        (IF Ch(p, x)!SinkBeat(s, offer, ready) = "last"
         THEN Tail(SinkWaits(p, x, s, ForSink(c, s), v))
         ELSE SinkWaits(p, x, s, ForSink(c, s), v)) \o n

LEMMA SinkHistory ==
  ASSUME NEW p, Params(p), NEW x, Ports(p, x), Connected(p, x), NEW c, Pending(p, x, c),
         NEW x2, NEW offer, NEW ready, NEW g, ChannelStep(p, x, x2, c, offer, ready, g),
         NEW s \in 0..p.sinks-1,
         NEW v \in Seq(0..p.sources-1), NEW n \in Seq(0..p.sources-1), NEW e2, NEW v2,
         e2 \o v2 = v \o n
  PROVE  SinkFollows(p, x, x2, c, offer, ready, s, v, n, e2, v2)
<1> DEFINE S == 0..p.sources-1
           a == SinkQueues(p, x)
           b == SourceQueues(p, x)
           a2 == SinkQueues(p, x2)
           b2 == SourceQueues(p, x2)
           drop == g # None
           add == c # None
           q == Awaits(p.sources, a, b, s)
           q2 == Awaits(p.sources, a2, b2, s)
           burst == SinkBurst(x, s)
           burst2 == SinkBurst(x2, s)
           grant == drop /\ g.sink = s
           last == Ch(p, x)!SinkBeat(s, offer, ready) = "last"
           e == ForSink(c, s)
<1>1. g # None => GrantFits(p, x, offer, ready, g)
  BY GrantFacts DEF ChannelStep
<1>2. /\ \A i \in 0..p.sources-1 : SourceMoved(p, x, x2, c, g, i)
      /\ \A k \in 0..p.sinks-1 : SinkMoved(p, x, x2, c, g, k)
  BY PortsMoved
<1>3. /\ q \in Seq(S)
      /\ grant => q # <<>> /\ Head(q) = g.source
      /\ q2 = Moved(q, grant, add /\ c.sink = s, c.source)
  <2>1. /\ p.sinks \in Nat \ {0} /\ p.sources \in Nat \ {0} /\ p.sources + p.sinks > 2
    BY DEF Params
  <2>2. /\ drop \in BOOLEAN /\ add \in BOOLEAN
        /\ drop => g.sink \in 0..p.sinks-1 /\ g.source \in 0..p.sources-1
        /\ add => c.sink \in 0..p.sinks-1 /\ c.source \in 0..p.sources-1
    BY <1>1 DEF GrantFits, Pending
  <2>3. p.sources > 1 => \A i \in 0..p.sinks-1 :
          /\ a[i] \in Seq(S)
          /\ a2[i] = Moved(a[i], drop /\ g.sink = i, add /\ c.sink = i, c.source)
    <3> SUFFICES ASSUME p.sources > 1, NEW i \in 0..p.sinks-1
                 PROVE  /\ a[i] \in Seq(S)
                        /\ a2[i] = Moved(a[i], drop /\ g.sink = i, add /\ c.sink = i, c.source)
      OBVIOUS
    <3>1. a[i] = Waiting(x.sink[i]) /\ a2[i] = Waiting(x2.sink[i])
      BY DEF SinkQueues
    <3>2. PortInv(x.sink[i], p.sources, p)
      BY DEF Ports
    <3>3. a[i] \in Seq(S)
      BY <3>1, <3>2, WaitingFacts
    <3>4. Waiting(x2.sink[i]) = Moved(Waiting(x.sink[i]),
                                     (g # None /\ g.sink = i) /\ p.sources > 1,
                                     p.sources > 1 /\ c # None /\ c.sink = i, c.source)
      BY <1>2 DEF SinkMoved
    <3>5. /\ ((g # None /\ g.sink = i) /\ p.sources > 1) = (drop /\ g.sink = i)
          /\ (p.sources > 1 /\ c # None /\ c.sink = i) = (add /\ c.sink = i)
      OBVIOUS
    <3> HIDE DEF a, a2, drop, add
    <3> QED BY <3>1, <3>3, <3>4, <3>5
  <2>4. p.sources > 1 /\ drop => a[g.sink] # <<>> /\ Head(a[g.sink]) = g.source
    <3> SUFFICES ASSUME p.sources > 1, drop PROVE a[g.sink] # <<>> /\ Head(a[g.sink]) = g.source
      OBVIOUS
    <3>1. g.sink \in 0..p.sinks-1 /\ ~x.sink[g.sink].grant_mask
          /\ x.sink[g.sink].cmds # <<>> /\ Head(x.sink[g.sink].cmds) = g.source
      BY <1>1 DEF GrantFits
    <3>2. PortInv(x.sink[g.sink], p.sources, p)
      BY <3>1 DEF Ports
    <3>3. a[g.sink] = x.sink[g.sink].cmds
      BY <3>1, <3>2, WaitingFacts DEF SinkQueues
    <3> QED BY <3>1, <3>3
  <2>5. p.sources = 1 => b[0] \in Seq(0..p.sinks-1) /\ b2[0] = Moved(b[0], drop, add, c.sink)
    <3> SUFFICES ASSUME p.sources = 1
                 PROVE  b[0] \in Seq(0..p.sinks-1) /\ b2[0] = Moved(b[0], drop, add, c.sink)
      OBVIOUS
    <3>0. 0 \in 0..p.sources-1 /\ p.sinks > 1 /\ \A k \in 0..p.sources-1 : k = 0
      BY <2>1
    <3>1. b[0] = Waiting(x.source[0]) /\ b2[0] = Waiting(x2.source[0])
      BY <3>0 DEF SourceQueues
    <3>2. PortInv(x.source[0], p.sinks, p)
      BY <3>0 DEF Ports
    <3>3. b[0] \in Seq(0..p.sinks-1)
      BY <3>1, <3>2, WaitingFacts
    <3>4. Waiting(x2.source[0]) = Moved(Waiting(x.source[0]),
                                     (g # None /\ g.source = 0) /\ p.sinks > 1,
                                     p.sinks > 1 /\ c # None /\ c.source = 0, c.sink)
      BY <1>2, <3>0 DEF SourceMoved
    <3>5. /\ ((g # None /\ g.source = 0) /\ p.sinks > 1) = drop
          /\ (p.sinks > 1 /\ c # None /\ c.source = 0) = add
      BY <2>2, <3>0
    <3> HIDE DEF b, b2, drop, add
    <3> QED BY <3>1, <3>3, <3>4, <3>5
  <2>6. p.sources = 1 /\ drop => b[0] # <<>> /\ Head(b[0]) = g.sink
    <3> SUFFICES ASSUME p.sources = 1, drop PROVE b[0] # <<>> /\ Head(b[0]) = g.sink
      OBVIOUS
    <3>0. 0 \in 0..p.sources-1 /\ p.sinks > 1 /\ \A k \in 0..p.sources-1 : k = 0
      BY <2>1
    <3>1. g.source = 0 /\ ~x.source[0].grant_mask
          /\ x.source[0].cmds # <<>> /\ Head(x.source[0].cmds) = g.sink
      BY <1>1, <3>0 DEF GrantFits
    <3>2. PortInv(x.source[0], p.sinks, p)
      BY <3>0 DEF Ports
    <3>3. b[0] = x.source[0].cmds
      BY <3>0, <3>1, <3>2, WaitingFacts DEF SourceQueues
    <3> QED BY <3>1, <3>3
  <2> HIDE DEF a, b, a2, b2, drop, add, S
  <2>7. SideMoves(p.sinks, p.sources, a, b, a2, b2, drop, g.sink, g.source, add, c.sink, c.source)
    BY <2>2, <2>3, <2>4, <2>5, <2>6, Zenon DEF SideMoves, S
  <2>8. AwaitsMoved(p.sources, a, b, a2, b2, drop, g.sink, g.source, add, c.sink, c.source, s)
    BY <2>1, <2>7, SideMoved
  <2> QED BY <2>8, Zenon DEF AwaitsMoved, S
<1>4. /\ burst \in Seq(S) /\ Len(burst) <= 1 /\ (last => burst # <<>>)
      /\ grant => burst = <<>> \/ last
      /\ burst2 = IF grant THEN <<g.source>> ELSE IF last THEN <<>> ELSE burst
  BY SinkBurstMoved
<1>5. e \in Seq(S) /\ e = IF add /\ c.sink = s THEN <<c.source>> ELSE <<>>
  <2>1. e = IF add /\ c.sink = s THEN <<c.source>> ELSE <<>>
    BY DEF ForSink
  <2>2. add => c.source \in S
    BY DEF Pending
  <2> HIDE DEF e, add, S
  <2>3. <<>> \in Seq(S) /\ (add => <<c.source>> \in Seq(S))
    BY <2>2
  <2> QED BY <2>1, <2>3
<1>6. /\ SinkWaits(p, x, s, e, v) = burst \o (q \o (e \o v))
      /\ SinkWaits(p, x2, s, e2, v2) = burst2 \o (q2 \o (e2 \o v2))
  BY DEF SinkWaits
<1>7. grant \in BOOLEAN /\ last \in BOOLEAN /\ v \in Seq(S) /\ n \in Seq(S)
  OBVIOUS
<1> HIDE DEF S, a, b, a2, b2, q, q2, burst, burst2, last, e
<1>8. q2 = (IF grant THEN Tail(q) ELSE q) \o e
  BY <1>3, <1>5, Zenon DEF Moved
<1>9. burst2 = IF grant THEN <<Head(q)>> ELSE IF last THEN <<>> ELSE burst
  BY <1>3, <1>4
<1> HIDE DEF grant
<1>10. HistoryKept(burst, q, e, v, n, last, grant)
  <2>1. burst \in Seq(S) /\ q \in Seq(S) /\ e \in Seq(S) /\ v \in Seq(S) /\ n \in Seq(S)
    BY <1>3, <1>4, <1>5, <1>7, Zenon
  <2>2. last \in BOOLEAN /\ grant \in BOOLEAN /\ (last => burst # <<>>) /\ Len(burst) <= 1
    BY <1>4, <1>7, Zenon
  <2>3. grant => q # <<>> /\ (burst = <<>> \/ last)
    BY <1>3, <1>4, Zenon
  <2> QED BY <2>1, <2>2, <2>3, HistoryMoved
<1>11. SinkWaits(p, x2, s, e2, v2)
          = (IF last THEN Tail(burst \o (q \o (e \o v))) ELSE burst \o (q \o (e \o v))) \o n
  BY <1>6, <1>8, <1>9, <1>10, Zenon DEF HistoryKept
<1>12. SinkWaits(p, x2, s, e2, v2)
          = (IF last THEN Tail(SinkWaits(p, x, s, e, v)) ELSE SinkWaits(p, x, s, e, v)) \o n
  BY <1>6, <1>11, Zenon
<1> QED BY <1>12, Zenon DEF SinkFollows, last, e
--------------------------------------------------------------------------------
(* The channels of a unit. *)
RP(u) == [sources |-> u.outputs, sinks |-> u.inputs, lanes |-> IF u.write THEN 1 ELSE u.lanes,
          mot |-> u.mot, buffer |-> u.buffer]
RX == [source |-> r_source, sink |-> r_sink, lane |-> r_lane, pri |-> r_pri, rst |-> rst]
WP(u) == [sources |-> u.inputs, sinks |-> u.outputs, lanes |-> u.lanes,
          mot |-> u.mot, buffer |-> u.buffer]
WX == [source |-> w_source, sink |-> w_sink, lane |-> w_lane, pri |-> w_pri, rst |-> rst]

(* A function to the naturals is least somewhere. *)
LEMMA LeastImage ==
  ASSUME NEW S, S # {}, NEW f \in [S -> Nat]
  PROVE  \E t \in S : \A v \in S : f[t] <= f[v]
<1> DEFINE image == {f[t] : t \in S}
<1>1. image \in SUBSET Nat /\ image # {}
  OBVIOUS
<1> DEFINE Less == OpToRel(<, Nat)
<1>2. PICK m \in image : \A n \in image : <<n, m>> \notin Less
  <2> HIDE DEF image, Less
  <2>1. \E m \in image : \A n \in image : ~(<<n, m>> \in Less)
    <3>1. IsWellFoundedOn(Less, Nat)
      BY NatLessThanWellFounded DEF Less
    <3> QED BY <1>1, <3>1, WFMin, Zenon
  <2> QED BY <2>1
<1>3. \A n \in image : m <= n
  <2> SUFFICES ASSUME NEW n \in image PROVE m <= n
    OBVIOUS
  <2>1. m \in Nat /\ n \in Nat
    BY <1>1
  <2>2. n < m => <<n, m>> \in Less
    BY <2>1 DEF OpToRel
  <2> HIDE DEF image, Less
  <2> QED BY <1>2, <2>1, <2>2
<1>4. PICK t \in S : f[t] = m
  OBVIOUS
<1> QED BY <1>3, <1>4

LEMMA RBeats ==
  ASSUME NEW u, NEW offer, NEW ready
  PROVE  /\ \A s : Router(u)!R!InBeat(s, offer) = Ch(RP(u), RX)!InBeat(s, offer)
         /\ \A k : Router(u)!R!OutReady(k, ready) = Ch(RP(u), RX)!OutReady(k, ready)
         /\ \A l : Router(u)!R!OutBeat(l, offer) = Ch(RP(u), RX)!OutBeat(l, offer)
         /\ \A l : Router(u)!R!InReady(l, ready) = Ch(RP(u), RX)!InReady(l, ready)
         /\ \A s : Router(u)!R!SourceBeat(s, offer, ready)
                    = Ch(RP(u), RX)!SourceBeat(s, offer, ready)
         /\ \A k : Router(u)!R!SinkBeat(k, offer, ready) = Ch(RP(u), RX)!SinkBeat(k, offer, ready)
         /\ \A l : Router(u)!R!LaneBeat(l, offer, ready) = Ch(RP(u), RX)!LaneBeat(l, offer, ready)
<1>1. /\ RX.source = r_source /\ RX.sink = r_sink /\ RX.lane = r_lane /\ RX.rst = rst
      /\ RP(u).buffer = u.buffer
  BY DEF RX, RP
<1>2. \A s : Router(u)!R!InBeat(s, offer) = Ch(RP(u), RX)!InBeat(s, offer)
  BY <1>1 DEF Router!R!InBeat, Ch!InBeat
<1>3. \A k : Router(u)!R!OutReady(k, ready) = Ch(RP(u), RX)!OutReady(k, ready)
  BY <1>1 DEF Router!R!OutReady, Ch!OutReady, Router!R!DEPTH, Ch!DEPTH
<1>4. \A l : Router(u)!R!OutBeat(l, offer) = Ch(RP(u), RX)!OutBeat(l, offer)
  BY <1>1, <1>2 DEF Router!R!OutBeat, Ch!OutBeat
<1>5. \A l : Router(u)!R!InReady(l, ready) = Ch(RP(u), RX)!InReady(l, ready)
  BY <1>1, <1>3 DEF Router!R!InReady, Ch!InReady
<1>6. \A s : Router(u)!R!SourceBeat(s, offer, ready) = Ch(RP(u), RX)!SourceBeat(s, offer, ready)
  BY <1>1, <1>2, <1>5 DEF Router!R!SourceBeat, Ch!SourceBeat
<1>7. \A k : Router(u)!R!SinkBeat(k, offer, ready) = Ch(RP(u), RX)!SinkBeat(k, offer, ready)
  BY <1>1, <1>3, <1>4 DEF Router!R!SinkBeat, Ch!SinkBeat
<1>8. \A l : Router(u)!R!LaneBeat(l, offer, ready) = Ch(RP(u), RX)!LaneBeat(l, offer, ready)
  BY <1>4, <1>5 DEF Router!R!LaneBeat, Ch!LaneBeat
<1> QED BY <1>2, <1>3, <1>4, <1>5, <1>6, <1>7, <1>8

LEMMA RIdle ==
  ASSUME NEW u, NEW offer, NEW ready
  PROVE  /\ \A l : Router(u)!R!LaneIdle(l, offer, ready) = Ch(RP(u), RX)!LaneIdle(l, offer, ready)
         /\ \A s : Router(u)!R!arb_req_sink(s) = Ch(RP(u), RX)!arb_req_sink(s)
         /\ \A s : s \in Router(u)!R!Requests(offer, ready)
                      <=> s \in Ch(RP(u), RX)!Requests(offer, ready)
<1>1. /\ RX.source = r_source /\ RX.sink = r_sink /\ RX.lane = r_lane /\ RX.rst = rst
      /\ RP(u).buffer = u.buffer /\ RP(u).sources = u.outputs /\ RP(u).sinks = u.inputs
  BY DEF RX, RP
<1>2. \A l : Router(u)!R!LaneIdle(l, offer, ready) = Ch(RP(u), RX)!LaneIdle(l, offer, ready)
  BY <1>1, RBeats DEF Router!R!LaneIdle, Ch!LaneIdle
<1>3. \A s : Router(u)!R!arb_req_sink(s) = Ch(RP(u), RX)!arb_req_sink(s)
  BY <1>1 DEF Router!R!arb_req_sink, Ch!arb_req_sink
<1>4. \A k : Router(u)!R!arb_source(k) = Ch(RP(u), RX)!arb_source(k)
  BY <1>1 DEF Router!R!arb_source, Ch!arb_source
<1>5. \A k : Router(u)!R!SinkIdle(k, offer, ready) = Ch(RP(u), RX)!SinkIdle(k, offer, ready)
  BY <1>1, RBeats DEF Router!R!SinkIdle, Ch!SinkIdle, Router!R!DEPTH, Ch!DEPTH
<1>6. \A s : Router(u)!R!SourceIdle(s, offer, ready) = Ch(RP(u), RX)!SourceIdle(s, offer, ready)
  BY <1>1, RBeats DEF Router!R!SourceIdle, Ch!SourceIdle
<1>7. \A s : Router(u)!R!SourceEmpty(s) = Ch(RP(u), RX)!SourceEmpty(s)
  BY <1>1 DEF Router!R!SourceEmpty, Ch!SourceEmpty
<1>8. \A k : Router(u)!R!SinkEmpty(k) = Ch(RP(u), RX)!SinkEmpty(k)
  BY <1>1 DEF Router!R!SinkEmpty, Ch!SinkEmpty
<1>9. Router(u)!R!Sources = Ch(RP(u), RX)!Sources
  BY <1>1 DEF Router!R!Sources, Ch!Sources
<1>10. \A s : Router(u)!R!InBeat(s, offer) = Ch(RP(u), RX)!InBeat(s, offer)
  BY RBeats
<1>11. ASSUME NEW s PROVE s \in Router(u)!R!Requests(offer, ready)
                            <=> s \in Ch(RP(u), RX)!Requests(offer, ready)
  BY <1>3, <1>4, <1>5, <1>6, <1>7, <1>8, <1>9, <1>10 DEF Router!R!Requests, Ch!Requests
<1> QED BY <1>2, <1>3, <1>11

LEMMA RGranted ==
  ASSUME NEW u, NEW offer, NEW ready, Params(RP(u)), r_pri \in 0..u.outputs-1
  PROVE  GrantOf(RP(u), RX, offer, ready, Router(u)!R!Grant(offer, ready))
<1> DEFINE g == Router(u)!R!Grant(offer, ready)
           requests == Router(u)!R!Requests(offer, ready)
           lanes == {l \in Router(u)!R!Lanes : Router(u)!R!LaneIdle(l, offer, ready)}
           Nearest(t) == \A v \in requests : Router(u)!R!Distance(t) <= Router(u)!R!Distance(v)
           s == CHOOSE t \in requests : Nearest(t)
           Lowest(l) == \A m \in lanes : l <= m
           l1 == CHOOSE l \in lanes : Lowest(l)
<1> SUFFICES ASSUME g # None
             PROVE  /\ g.source \in requests /\ g.sink = Router(u)!R!arb_req_sink(g.source)
                    /\ g.lane \in lanes
  <2>1. \A l \in lanes : l \in 0..RP(u).lanes-1 /\ Ch(RP(u), RX)!LaneIdle(l, offer, ready)
    BY RIdle DEF Router!R!Lanes, RP
  <2>2. \A t \in requests : t \in Ch(RP(u), RX)!Requests(offer, ready)
    BY RIdle
  <2>3. \A t : Router(u)!R!arb_req_sink(t) = Ch(RP(u), RX)!arb_req_sink(t)
    BY RIdle
  <2> HIDE DEF g, requests, lanes
  <2> QED BY <2>1, <2>2, <2>3 DEF GrantOf, g
<1>1. /\ requests # {} /\ lanes # {}
      /\ g = [source |-> s, sink |-> Router(u)!R!arb_req_sink(s), lane |-> l1]
  BY Zenon DEF Router!R!Grant
<1>2. s \in requests
  <2>1. \A t \in requests : Router(u)!R!Distance(t) \in Nat
    <3> SUFFICES ASSUME NEW t \in requests PROVE Router(u)!R!Distance(t) \in Nat
      OBVIOUS
    <3>1. t \in 0..u.outputs-1
      BY DEF Router!R!Requests, Router!R!Sources
    <3>2. RP(u).sources = u.outputs
      BY DEF RP
    <3>3. u.outputs \in Nat \ {0}
      BY <3>2 DEF Params
    <3>4. t + u.outputs - r_pri \in Nat
      BY <3>1, <3>3
    <3>5. Router(u)!R!Distance(t) = (t + u.outputs - r_pri) % u.outputs
      BY DEF Router!R!Distance
    <3> QED BY <3>3, <3>4, <3>5
  <2> DEFINE f == [t \in requests |-> Router(u)!R!Distance(t)]
  <2>2. f \in [requests -> Nat]
    BY <2>1
  <2>3. \E t \in requests : \A v \in requests : f[t] <= f[v]
    <3> HIDE DEF f, requests
    <3> QED BY <1>1, <2>2, LeastImage
  <2>4. \E t \in requests : Nearest(t)
    BY <2>3
  <2> HIDE DEF requests, Nearest
  <2> QED BY <2>4
<1>3. l1 \in lanes
  <2> DEFINE f == [l \in lanes |-> l]
  <2>2. \A l \in lanes : l \in Nat
    BY DEF Router!R!Lanes
  <2>3. f \in [lanes -> Nat]
    BY <2>2
  <2>4. \E t \in lanes : \A v \in lanes : f[t] <= f[v]
    <3> HIDE DEF f, lanes
    <3> QED BY <1>1, <2>3, LeastImage
  <2>5. \E t \in lanes : Lowest(t)
    BY <2>4
  <2> HIDE DEF lanes, Lowest
  <2> QED BY <2>5
<1> HIDE DEF g, requests, lanes, s, l1
<1> QED BY <1>1, <1>2, <1>3

LEMMA RStep ==
  ASSUME NEW u, NEW offer, NEW ready, NEW c, Params(RP(u)), r_pri \in 0..u.outputs-1,
         Ports(RP(u), RX), Router(u)!R!Clk(c, offer, ready)
  PROVE  /\ \E g : ChannelStep(RP(u), RX, RX', c, offer, ready, g)
         /\ r_pri' \in 0..u.outputs-1
<1> DEFINE g == Router(u)!R!Grant(offer, ready)
<1>1. GrantOf(RP(u), RX, offer, ready, g)
  BY RGranted
<1>2. /\ RX.source = r_source /\ RX.sink = r_sink /\ RX.lane = r_lane
      /\ RX'.source = r_source' /\ RX'.sink = r_sink' /\ RX'.lane = r_lane'
      /\ RP(u).sources = u.outputs /\ RP(u).sinks = u.inputs
  BY DEF RX, RP
<1>3. /\ r_source' = [s \in 0..u.outputs-1 |-> Router(u)!R!SourceNext(s, c, offer, ready, g)]
      /\ r_sink' = [k \in 0..u.inputs-1 |-> Router(u)!R!SinkNext(k, c, offer, ready, g)]
      /\ r_lane' = [l \in 0..RP(u).lanes-1 |-> Router(u)!R!LaneNext(l, offer, ready, g)]
      /\ r_pri' = IF g = None THEN r_pri ELSE (r_pri + 1) % u.outputs
  BY DEF Router!R!Clk, Router!R!Sources, Router!R!Sinks, Router!R!Lanes, RP
<1> HIDE DEF g
<1>4. ASSUME NEW s \in 0..u.outputs-1
      PROVE  PortNext(r_source[s], u.inputs, r_source'[s], g # None /\ g.source = s, g.lane,
                      Ch(RP(u), RX)!SourceBeat(s, offer, ready) = "last",
                      u.inputs > 1 /\ c # None /\ c.source = s, c.sink)
  <2>1. r_source'[s] = Router(u)!R!SourceNext(s, c, offer, ready, g)
    BY <1>3
  <2>2. Router(u)!R!SourceBeat(s, offer, ready) = Ch(RP(u), RX)!SourceBeat(s, offer, ready)
    BY RBeats
  <2>3. PortInv(r_source[s], u.inputs, RP(u))
    BY <1>2 DEF Ports
  <2> DEFINE q == r_source[s]
  <2>4. q = [cmds |-> q.cmds, pop |-> q.pop, buf |-> q.buf, lane |-> q.lane,
             grant_mask |-> q.grant_mask]
    BY <2>3 DEF PortInv
  <2> QED BY <2>1, <2>2, <2>4 DEF PortNext, Router!R!SourceNext, Router!R!Connect, Router!R!Queue
<1>5. ASSUME NEW k \in 0..u.inputs-1
      PROVE  PortNext(r_sink[k], u.outputs, r_sink'[k], g # None /\ g.sink = k, g.lane,
                      Ch(RP(u), RX)!SinkBeat(k, offer, ready) = "last",
                      u.outputs > 1 /\ c # None /\ c.sink = k, c.source)
  <2>1. r_sink'[k] = Router(u)!R!SinkNext(k, c, offer, ready, g)
    BY <1>3
  <2>2. Router(u)!R!SinkBeat(k, offer, ready) = Ch(RP(u), RX)!SinkBeat(k, offer, ready)
    BY RBeats
  <2>3. PortInv(r_sink[k], u.outputs, RP(u))
    BY <1>2 DEF Ports
  <2> DEFINE q == r_sink[k]
  <2>4. q = [cmds |-> q.cmds, pop |-> q.pop, buf |-> q.buf, lane |-> q.lane,
             grant_mask |-> q.grant_mask]
    BY <2>3 DEF PortInv
  <2> QED BY <2>1, <2>2, <2>4 DEF PortNext, Router!R!SinkNext, Router!R!Connect, Router!R!Queue
<1>6. ASSUME NEW l \in 0..RP(u).lanes-1
      PROVE  r_lane'[l] = IF g # None /\ g.lane = l THEN [source |-> g.source, sink |-> g.sink]
                           ELSE IF Ch(RP(u), RX)!LaneIdle(l, offer, ready) THEN None ELSE r_lane[l]
  <2>1. r_lane'[l] = Router(u)!R!LaneNext(l, offer, ready, g)
    BY <1>3
  <2>2. Router(u)!R!LaneIdle(l, offer, ready) = Ch(RP(u), RX)!LaneIdle(l, offer, ready)
    BY RIdle
  <2> QED BY <2>1, <2>2 DEF Router!R!LaneNext
<1>7. ChannelStep(RP(u), RX, RX', c, offer, ready, g)
  BY <1>1, <1>2, <1>4, <1>5, <1>6 DEF ChannelStep
<1>8. r_pri' \in 0..u.outputs-1
  <2>1. u.outputs \in Nat \ {0}
    BY <1>2 DEF Params
  <2> DEFINE n == u.outputs
  <2>2. \A i \in 0..n-1 : ((i + 1) % n) \in 0..n-1
    <3> HIDE DEF n
    <3> QED BY <2>1 DEF n
  <2> QED BY <1>3, <2>2
<1> QED BY <1>7, <1>8

LEMMA WBeats ==
  ASSUME NEW u, NEW offer, NEW ready
  PROVE  /\ \A s : Router(u)!W!InBeat(s, offer) = Ch(WP(u), WX)!InBeat(s, offer)
         /\ \A k : Router(u)!W!OutReady(k, ready) = Ch(WP(u), WX)!OutReady(k, ready)
         /\ \A l : Router(u)!W!OutBeat(l, offer) = Ch(WP(u), WX)!OutBeat(l, offer)
         /\ \A l : Router(u)!W!InReady(l, ready) = Ch(WP(u), WX)!InReady(l, ready)
         /\ \A s : Router(u)!W!SourceBeat(s, offer, ready)
                    = Ch(WP(u), WX)!SourceBeat(s, offer, ready)
         /\ \A k : Router(u)!W!SinkBeat(k, offer, ready) = Ch(WP(u), WX)!SinkBeat(k, offer, ready)
         /\ \A l : Router(u)!W!LaneBeat(l, offer, ready) = Ch(WP(u), WX)!LaneBeat(l, offer, ready)
<1>1. /\ WX.source = w_source /\ WX.sink = w_sink /\ WX.lane = w_lane /\ WX.rst = rst
      /\ WP(u).buffer = u.buffer
  BY DEF WX, WP
<1>2. \A s : Router(u)!W!InBeat(s, offer) = Ch(WP(u), WX)!InBeat(s, offer)
  BY <1>1 DEF Router!W!InBeat, Ch!InBeat
<1>3. \A k : Router(u)!W!OutReady(k, ready) = Ch(WP(u), WX)!OutReady(k, ready)
  BY <1>1 DEF Router!W!OutReady, Ch!OutReady, Router!W!DEPTH, Ch!DEPTH
<1>4. \A l : Router(u)!W!OutBeat(l, offer) = Ch(WP(u), WX)!OutBeat(l, offer)
  BY <1>1, <1>2 DEF Router!W!OutBeat, Ch!OutBeat
<1>5. \A l : Router(u)!W!InReady(l, ready) = Ch(WP(u), WX)!InReady(l, ready)
  BY <1>1, <1>3 DEF Router!W!InReady, Ch!InReady
<1>6. \A s : Router(u)!W!SourceBeat(s, offer, ready) = Ch(WP(u), WX)!SourceBeat(s, offer, ready)
  BY <1>1, <1>2, <1>5 DEF Router!W!SourceBeat, Ch!SourceBeat
<1>7. \A k : Router(u)!W!SinkBeat(k, offer, ready) = Ch(WP(u), WX)!SinkBeat(k, offer, ready)
  BY <1>1, <1>3, <1>4 DEF Router!W!SinkBeat, Ch!SinkBeat
<1>8. \A l : Router(u)!W!LaneBeat(l, offer, ready) = Ch(WP(u), WX)!LaneBeat(l, offer, ready)
  BY <1>4, <1>5 DEF Router!W!LaneBeat, Ch!LaneBeat
<1> QED BY <1>2, <1>3, <1>4, <1>5, <1>6, <1>7, <1>8

LEMMA WIdle ==
  ASSUME NEW u, NEW offer, NEW ready
  PROVE  /\ \A l : Router(u)!W!LaneIdle(l, offer, ready) = Ch(WP(u), WX)!LaneIdle(l, offer, ready)
         /\ \A s : Router(u)!W!arb_req_sink(s) = Ch(WP(u), WX)!arb_req_sink(s)
         /\ \A s : s \in Router(u)!W!Requests(offer, ready)
                      <=> s \in Ch(WP(u), WX)!Requests(offer, ready)
<1>1. /\ WX.source = w_source /\ WX.sink = w_sink /\ WX.lane = w_lane /\ WX.rst = rst
      /\ WP(u).buffer = u.buffer /\ WP(u).sources = u.inputs /\ WP(u).sinks = u.outputs
  BY DEF WX, WP
<1>2. \A l : Router(u)!W!LaneIdle(l, offer, ready) = Ch(WP(u), WX)!LaneIdle(l, offer, ready)
  BY <1>1, WBeats DEF Router!W!LaneIdle, Ch!LaneIdle
<1>3. \A s : Router(u)!W!arb_req_sink(s) = Ch(WP(u), WX)!arb_req_sink(s)
  BY <1>1 DEF Router!W!arb_req_sink, Ch!arb_req_sink
<1>4. \A k : Router(u)!W!arb_source(k) = Ch(WP(u), WX)!arb_source(k)
  BY <1>1 DEF Router!W!arb_source, Ch!arb_source
<1>5. \A k : Router(u)!W!SinkIdle(k, offer, ready) = Ch(WP(u), WX)!SinkIdle(k, offer, ready)
  BY <1>1, WBeats DEF Router!W!SinkIdle, Ch!SinkIdle, Router!W!DEPTH, Ch!DEPTH
<1>6. \A s : Router(u)!W!SourceIdle(s, offer, ready) = Ch(WP(u), WX)!SourceIdle(s, offer, ready)
  BY <1>1, WBeats DEF Router!W!SourceIdle, Ch!SourceIdle
<1>7. \A s : Router(u)!W!SourceEmpty(s) = Ch(WP(u), WX)!SourceEmpty(s)
  BY <1>1 DEF Router!W!SourceEmpty, Ch!SourceEmpty
<1>8. \A k : Router(u)!W!SinkEmpty(k) = Ch(WP(u), WX)!SinkEmpty(k)
  BY <1>1 DEF Router!W!SinkEmpty, Ch!SinkEmpty
<1>9. Router(u)!W!Sources = Ch(WP(u), WX)!Sources
  BY <1>1 DEF Router!W!Sources, Ch!Sources
<1>10. \A s : Router(u)!W!InBeat(s, offer) = Ch(WP(u), WX)!InBeat(s, offer)
  BY WBeats
<1>11. ASSUME NEW s PROVE s \in Router(u)!W!Requests(offer, ready)
                            <=> s \in Ch(WP(u), WX)!Requests(offer, ready)
  BY <1>3, <1>4, <1>5, <1>6, <1>7, <1>8, <1>9, <1>10 DEF Router!W!Requests, Ch!Requests
<1> QED BY <1>2, <1>3, <1>11

LEMMA WGranted ==
  ASSUME NEW u, NEW offer, NEW ready, Params(WP(u)), w_pri \in 0..u.inputs-1
  PROVE  GrantOf(WP(u), WX, offer, ready, Router(u)!W!Grant(offer, ready))
<1> DEFINE g == Router(u)!W!Grant(offer, ready)
           requests == Router(u)!W!Requests(offer, ready)
           lanes == {l \in Router(u)!W!Lanes : Router(u)!W!LaneIdle(l, offer, ready)}
           Nearest(t) == \A v \in requests : Router(u)!W!Distance(t) <= Router(u)!W!Distance(v)
           s == CHOOSE t \in requests : Nearest(t)
           Lowest(l) == \A m \in lanes : l <= m
           l1 == CHOOSE l \in lanes : Lowest(l)
<1> SUFFICES ASSUME g # None
             PROVE  /\ g.source \in requests /\ g.sink = Router(u)!W!arb_req_sink(g.source)
                    /\ g.lane \in lanes
  <2>1. \A l \in lanes : l \in 0..WP(u).lanes-1 /\ Ch(WP(u), WX)!LaneIdle(l, offer, ready)
    BY WIdle DEF Router!W!Lanes, WP
  <2>2. \A t \in requests : t \in Ch(WP(u), WX)!Requests(offer, ready)
    BY WIdle
  <2>3. \A t : Router(u)!W!arb_req_sink(t) = Ch(WP(u), WX)!arb_req_sink(t)
    BY WIdle
  <2> HIDE DEF g, requests, lanes
  <2> QED BY <2>1, <2>2, <2>3 DEF GrantOf, g
<1>1. /\ requests # {} /\ lanes # {}
      /\ g = [source |-> s, sink |-> Router(u)!W!arb_req_sink(s), lane |-> l1]
  BY Zenon DEF Router!W!Grant
<1>2. s \in requests
  <2>1. \A t \in requests : Router(u)!W!Distance(t) \in Nat
    <3> SUFFICES ASSUME NEW t \in requests PROVE Router(u)!W!Distance(t) \in Nat
      OBVIOUS
    <3>1. t \in 0..u.inputs-1
      BY DEF Router!W!Requests, Router!W!Sources
    <3>2. WP(u).sources = u.inputs
      BY DEF WP
    <3>3. u.inputs \in Nat \ {0}
      BY <3>2 DEF Params
    <3>4. t + u.inputs - w_pri \in Nat
      BY <3>1, <3>3
    <3>5. Router(u)!W!Distance(t) = (t + u.inputs - w_pri) % u.inputs
      BY DEF Router!W!Distance
    <3> QED BY <3>3, <3>4, <3>5
  <2> DEFINE f == [t \in requests |-> Router(u)!W!Distance(t)]
  <2>2. f \in [requests -> Nat]
    BY <2>1
  <2>3. \E t \in requests : \A v \in requests : f[t] <= f[v]
    <3> HIDE DEF f, requests
    <3> QED BY <1>1, <2>2, LeastImage
  <2>4. \E t \in requests : Nearest(t)
    BY <2>3
  <2> HIDE DEF requests, Nearest
  <2> QED BY <2>4
<1>3. l1 \in lanes
  <2> DEFINE f == [l \in lanes |-> l]
  <2>2. \A l \in lanes : l \in Nat
    BY DEF Router!W!Lanes
  <2>3. f \in [lanes -> Nat]
    BY <2>2
  <2>4. \E t \in lanes : \A v \in lanes : f[t] <= f[v]
    <3> HIDE DEF f, lanes
    <3> QED BY <1>1, <2>3, LeastImage
  <2>5. \E t \in lanes : Lowest(t)
    BY <2>4
  <2> HIDE DEF lanes, Lowest
  <2> QED BY <2>5
<1> HIDE DEF g, requests, lanes, s, l1
<1> QED BY <1>1, <1>2, <1>3

LEMMA WStep ==
  ASSUME NEW u, NEW offer, NEW ready, NEW c, Params(WP(u)), w_pri \in 0..u.inputs-1,
         Ports(WP(u), WX), Router(u)!W!Clk(c, offer, ready)
  PROVE  /\ \E g : ChannelStep(WP(u), WX, WX', c, offer, ready, g)
         /\ w_pri' \in 0..u.inputs-1
<1> DEFINE g == Router(u)!W!Grant(offer, ready)
<1>1. GrantOf(WP(u), WX, offer, ready, g)
  BY WGranted
<1>2. /\ WX.source = w_source /\ WX.sink = w_sink /\ WX.lane = w_lane
      /\ WX'.source = w_source' /\ WX'.sink = w_sink' /\ WX'.lane = w_lane'
      /\ WP(u).sources = u.inputs /\ WP(u).sinks = u.outputs
  BY DEF WX, WP
<1>3. /\ w_source' = [s \in 0..u.inputs-1 |-> Router(u)!W!SourceNext(s, c, offer, ready, g)]
      /\ w_sink' = [k \in 0..u.outputs-1 |-> Router(u)!W!SinkNext(k, c, offer, ready, g)]
      /\ w_lane' = [l \in 0..WP(u).lanes-1 |-> Router(u)!W!LaneNext(l, offer, ready, g)]
      /\ w_pri' = IF g = None THEN w_pri ELSE (w_pri + 1) % u.inputs
  BY DEF Router!W!Clk, Router!W!Sources, Router!W!Sinks, Router!W!Lanes, WP
<1> HIDE DEF g
<1>4. ASSUME NEW s \in 0..u.inputs-1
      PROVE  PortNext(w_source[s], u.outputs, w_source'[s], g # None /\ g.source = s, g.lane,
                      Ch(WP(u), WX)!SourceBeat(s, offer, ready) = "last",
                      u.outputs > 1 /\ c # None /\ c.source = s, c.sink)
  <2>1. w_source'[s] = Router(u)!W!SourceNext(s, c, offer, ready, g)
    BY <1>3
  <2>2. Router(u)!W!SourceBeat(s, offer, ready) = Ch(WP(u), WX)!SourceBeat(s, offer, ready)
    BY WBeats
  <2>3. PortInv(w_source[s], u.outputs, WP(u))
    BY <1>2 DEF Ports
  <2> DEFINE q == w_source[s]
  <2>4. q = [cmds |-> q.cmds, pop |-> q.pop, buf |-> q.buf, lane |-> q.lane,
             grant_mask |-> q.grant_mask]
    BY <2>3 DEF PortInv
  <2> QED BY <2>1, <2>2, <2>4 DEF PortNext, Router!W!SourceNext, Router!W!Connect, Router!W!Queue
<1>5. ASSUME NEW k \in 0..u.outputs-1
      PROVE  PortNext(w_sink[k], u.inputs, w_sink'[k], g # None /\ g.sink = k, g.lane,
                      Ch(WP(u), WX)!SinkBeat(k, offer, ready) = "last",
                      u.inputs > 1 /\ c # None /\ c.sink = k, c.source)
  <2>1. w_sink'[k] = Router(u)!W!SinkNext(k, c, offer, ready, g)
    BY <1>3
  <2>2. Router(u)!W!SinkBeat(k, offer, ready) = Ch(WP(u), WX)!SinkBeat(k, offer, ready)
    BY WBeats
  <2>3. PortInv(w_sink[k], u.inputs, WP(u))
    BY <1>2 DEF Ports
  <2> DEFINE q == w_sink[k]
  <2>4. q = [cmds |-> q.cmds, pop |-> q.pop, buf |-> q.buf, lane |-> q.lane,
             grant_mask |-> q.grant_mask]
    BY <2>3 DEF PortInv
  <2> QED BY <2>1, <2>2, <2>4 DEF PortNext, Router!W!SinkNext, Router!W!Connect, Router!W!Queue
<1>6. ASSUME NEW l \in 0..WP(u).lanes-1
      PROVE  w_lane'[l] = IF g # None /\ g.lane = l THEN [source |-> g.source, sink |-> g.sink]
                           ELSE IF Ch(WP(u), WX)!LaneIdle(l, offer, ready) THEN None ELSE w_lane[l]
  <2>1. w_lane'[l] = Router(u)!W!LaneNext(l, offer, ready, g)
    BY <1>3
  <2>2. Router(u)!W!LaneIdle(l, offer, ready) = Ch(WP(u), WX)!LaneIdle(l, offer, ready)
    BY WIdle
  <2> QED BY <2>1, <2>2 DEF Router!W!LaneNext
<1>7. ChannelStep(WP(u), WX, WX', c, offer, ready, g)
  BY <1>1, <1>2, <1>4, <1>5, <1>6 DEF ChannelStep
<1>8. w_pri' \in 0..u.inputs-1
  <2>1. u.inputs \in Nat \ {0}
    BY <1>2 DEF Params
  <2> DEFINE n == u.inputs
  <2>2. \A i \in 0..n-1 : ((i + 1) % n) \in 0..n-1
    <3> HIDE DEF n
    <3> QED BY <2>1 DEF n
  <2> QED BY <1>3, <2>2
<1> QED BY <1>7, <1>8
--------------------------------------------------------------------------------
(* What holds of a channel in every state, c being the pending command. *)
ChannelInv(p, x, c) ==
    /\ Ports(p, x) /\ Connected(p, x)
    /\ Bounded(p, x) /\ Balanced(p, x) /\ Pending(p, x, c)

LEMMA ChannelInvStep ==
  ASSUME NEW p, Params(p), NEW x, NEW c, ChannelInv(p, x, c), NEW x2, NEW offer, NEW ready,
         NEW g, ChannelStep(p, x, x2, c, offer, ready, g), NEW c2,
         c2 # None =>
             /\ c2.source \in 0..p.sources-1 /\ c2.sink \in 0..p.sinks-1
             /\ ~Ch(p, x)!cmd_full_source(c2.source) /\ ~Ch(p, x)!cmd_full_sink(c2.sink)
  PROVE  ChannelInv(p, x2, c2)
<1>1. Ports(p, x) /\ Connected(p, x) /\ Bounded(p, x) /\ Balanced(p, x) /\ Pending(p, x, c)
  BY DEF ChannelInv
<1>2. /\ \A s \in 0..p.sources-1 : SourceMoved(p, x, x2, c, g, s)
      /\ \A k \in 0..p.sinks-1 : SinkMoved(p, x, x2, c, g, k)
  BY <1>1, PortsMoved
<1>3. g # None => GrantFits(p, x, offer, ready, g)
  BY <1>1, GrantFacts DEF ChannelStep
<1>4. Ports(p, x2)
  BY <1>2 DEF Ports, SourceMoved, SinkMoved
<1>5. Connected(p, x2)
  BY <1>1, ConnectedStep
<1>6. Bounded(p, x2) /\ Pending(p, x2, c2)
  BY <1>1, <1>2, RoomKept
<1>7. Balanced(p, x2)
  BY <1>1, <1>2, <1>3, BalancedStep
<1> QED BY <1>4, <1>5, <1>6, <1>7 DEF ChannelInv

(* What arrived and what is new, e2 and v2, were on their way, v, or come  *)
(* in.                                                                     *)
MovesOn(e2, v2, v, new, y) == e2 \o v2 = v \o (IF new THEN <<y>> ELSE <<>>)

(* Advance of AxiRouter. *)
AdvancesTo(h, done, new, y, h2) ==
    h2 = LET rest == IF done THEN Tail(h) ELSE h IN IF new THEN Append(rest, y) ELSE rest

(* A port on a lane waits for the burst of the lane first. *)
LEMMA SourceWaitsFor ==
  ASSUME NEW p, Params(p), NEW x, NEW c, ChannelInv(p, x, c), NEW s \in 0..p.sources-1,
         NEW v \in Seq(0..p.sinks-1)
  PROVE  /\ SourceWaits(p, x, s, ForSource(c, s), v) \in Seq(0..p.sinks-1)
         /\ x.source[s].lane # None =>
                /\ SourceWaits(p, x, s, ForSource(c, s), v) # <<>>
                /\ Head(SourceWaits(p, x, s, ForSource(c, s), v)) = x.lane[x.source[s].lane].sink
<1> DEFINE S == 0..p.sinks-1
           q == Awaits(p.sinks, SourceQueues(p, x), SinkQueues(p, x), s)
           e == ForSource(c, s)
           l == x.source[s].lane
           y == x.lane[l].sink
           rest == q \o (e \o v)
<1>1. Ports(p, x) /\ Connected(p, x) /\ Pending(p, x, c)
  BY DEF ChannelInv
<1>2. q \in Seq(S)
  <2>1. CASE p.sinks > 1
    <3>1. q = Waiting(x.source[s])
      BY <2>1 DEF Awaits, SourceQueues
    <3>2. PortInv(x.source[s], p.sinks, p)
      BY <1>1 DEF Ports
    <3> QED BY <3>1, <3>2, WaitingFacts
  <2>2. CASE p.sinks = 1
    <3>1. 0 \in 0..p.sinks-1 /\ S = {0}
      BY <2>2
    <3> DEFINE r == Waiting(x.sink[0])
    <3>2. PortInv(x.sink[0], p.sources, p)
      BY <1>1, <3>1 DEF Ports
    <3>3. r \in Seq(0..p.sources-1)
      BY <3>2, WaitingFacts
    <3>4. q = Zeros(Count(s, r))
      BY <2>2, <3>1 DEF Awaits, SinkQueues
    <3> HIDE DEF q, r, S
    <3>5. Count(s, r) \in Nat
      BY <3>3, CountType
    <3> QED BY <3>1, <3>4, <3>5, ZerosFacts
  <2> QED BY <2>1, <2>2 DEF Params
<1>3. e \in Seq(S)
  <2>1. e = IF c # None /\ c.source = s THEN <<c.sink>> ELSE <<>>
    BY DEF ForSource
  <2>2. c # None => c.sink \in S
    BY <1>1 DEF Pending
  <2> HIDE DEF e, S
  <2> QED BY <2>1, <2>2
<1>4. l # None => y \in S
  BY <1>1 DEF Ports, PortInv, Connected
<1>5. SourceBurst(x, s) = IF l = None THEN <<>> ELSE <<y>>
  BY DEF SourceBurst
<1>6. SourceWaits(p, x, s, e, v) = SourceBurst(x, s) \o rest
  BY DEF SourceWaits
<1> HIDE DEF q, e
<1>7. rest \in Seq(S)
  BY <1>2, <1>3, ConcatProperties
<1> HIDE DEF rest, S, l, y
<1>8. CASE l = None
  <2>1. <<>> \o rest = rest
    BY <1>7, ConcatEmptySeq
  <2> QED BY <1>5, <1>6, <1>7, <1>8, <2>1 DEF S, l, e
<1>9. CASE l # None
  <2>1. <<y>> \in Seq(S) /\ <<y>> # <<>> /\ Head(<<y>>) = y
    BY <1>4, <1>9
  <2>2. <<y>> \o rest \in Seq(S)
    BY <1>7, <2>1, ConcatProperties
  <2>3. <<y>> \o rest # <<>> /\ Head(<<y>> \o rest) = Head(<<y>>)
    BY <1>7, <2>1, ConcatFront
  <2>4. SourceWaits(p, x, s, e, v) = <<y>> \o rest
    BY <1>5, <1>6, <1>9
  <2> QED BY <2>1, <2>2, <2>3, <2>4 DEF S, l, y, e
<1> QED BY <1>8, <1>9

(* The count of the bursts source s waits for keeps up with the channel. *)
LEMMA SourceAdvances ==
  ASSUME NEW p, Params(p), NEW x, NEW c, ChannelInv(p, x, c), NEW x2, NEW offer, NEW ready,
         NEW g, ChannelStep(p, x, x2, c, offer, ready, g), NEW s \in 0..p.sources-1,
         NEW v \in Seq(0..p.sinks-1), NEW e2, NEW v2,
         NEW new \in BOOLEAN, NEW y, new => y \in 0..p.sinks-1,
         MovesOn(e2, v2, v, new, y),
         NEW h, h = SourceWaits(p, x, s, ForSource(c, s), v)
  PROVE  AdvancesTo(h, Ch(p, x)!SourceBeat(s, offer, ready) = "last", new, y,
                    SourceWaits(p, x2, s, e2, v2))
<1> DEFINE S == 0..p.sinks-1
           n == IF new THEN <<y>> ELSE <<>>
           last == Ch(p, x)!SourceBeat(s, offer, ready) = "last"
           h2 == SourceWaits(p, x2, s, e2, v2)
           rest == IF last THEN Tail(h) ELSE h
<1>1. Ports(p, x) /\ Connected(p, x) /\ Pending(p, x, c)
  BY DEF ChannelInv
<1>2. h \in Seq(S) /\ (x.source[s].lane # None => h # <<>>)
  BY SourceWaitsFor
<1>3. last => x.source[s].lane # None
  BY BeatOnLane DEF Params
<1>4. n \in Seq(S)
  <2> HIDE DEF S
  <2>1. new => y \in S
    BY DEF S
  <2> QED BY <2>1
<1>5. h2 = rest \o n
  <2>1. e2 \o v2 = v \o n
    BY DEF MovesOn
  <2>2. n \in Seq(0..p.sinks-1)
    BY <1>4
  <2> HIDE DEF n, h2, rest
  <2>3. SourceFollows(p, x, x2, c, offer, ready, s, v, n, e2, v2)
    BY <1>1, <2>1, <2>2, SourceHistory
  <2> QED BY <2>3, Zenon DEF SourceFollows, h2, rest, last
<1>6. rest \in Seq(S)
  <2> HIDE DEF S, last
  <2> QED BY <1>2, <1>3, HeadTailProperties
<1>7. new => y \in S
  OBVIOUS
<1> HIDE DEF S, h2, rest, last
<1>8. rest \o n = IF new THEN Append(rest, y) ELSE rest
  <2>1. CASE new
    BY <1>6, <1>7, <2>1, AppendIsConcat
  <2>2. CASE ~new
    BY <1>6, <2>2, ConcatEmptySeq
  <2> QED BY <2>1, <2>2
<1> QED BY <1>5, <1>8 DEF AdvancesTo, rest, h2, last

(* A port on a lane waits for the burst of the lane first. *)
LEMMA SinkWaitsFor ==
  ASSUME NEW p, Params(p), NEW x, NEW c, ChannelInv(p, x, c), NEW s \in 0..p.sinks-1,
         NEW v \in Seq(0..p.sources-1)
  PROVE  /\ SinkWaits(p, x, s, ForSink(c, s), v) \in Seq(0..p.sources-1)
         /\ x.sink[s].lane # None =>
                /\ SinkWaits(p, x, s, ForSink(c, s), v) # <<>>
                /\ Head(SinkWaits(p, x, s, ForSink(c, s), v)) = x.lane[x.sink[s].lane].source
<1> DEFINE S == 0..p.sources-1
           q == Awaits(p.sources, SinkQueues(p, x), SourceQueues(p, x), s)
           e == ForSink(c, s)
           l == x.sink[s].lane
           y == x.lane[l].source
           rest == q \o (e \o v)
<1>1. Ports(p, x) /\ Connected(p, x) /\ Pending(p, x, c)
  BY DEF ChannelInv
<1>2. q \in Seq(S)
  <2>1. CASE p.sources > 1
    <3>1. q = Waiting(x.sink[s])
      BY <2>1 DEF Awaits, SinkQueues
    <3>2. PortInv(x.sink[s], p.sources, p)
      BY <1>1 DEF Ports
    <3> QED BY <3>1, <3>2, WaitingFacts
  <2>2. CASE p.sources = 1
    <3>1. 0 \in 0..p.sources-1 /\ S = {0}
      BY <2>2
    <3> DEFINE r == Waiting(x.source[0])
    <3>2. PortInv(x.source[0], p.sinks, p)
      BY <1>1, <3>1 DEF Ports
    <3>3. r \in Seq(0..p.sinks-1)
      BY <3>2, WaitingFacts
    <3>4. q = Zeros(Count(s, r))
      BY <2>2, <3>1 DEF Awaits, SourceQueues
    <3> HIDE DEF q, r, S
    <3>5. Count(s, r) \in Nat
      BY <3>3, CountType
    <3> QED BY <3>1, <3>4, <3>5, ZerosFacts
  <2> QED BY <2>1, <2>2 DEF Params
<1>3. e \in Seq(S)
  <2>1. e = IF c # None /\ c.sink = s THEN <<c.source>> ELSE <<>>
    BY DEF ForSink
  <2>2. c # None => c.source \in S
    BY <1>1 DEF Pending
  <2> HIDE DEF e, S
  <2> QED BY <2>1, <2>2
<1>4. l # None => y \in S
  BY <1>1 DEF Ports, PortInv, Connected
<1>5. SinkBurst(x, s) = IF l = None THEN <<>> ELSE <<y>>
  BY DEF SinkBurst
<1>6. SinkWaits(p, x, s, e, v) = SinkBurst(x, s) \o rest
  BY DEF SinkWaits
<1> HIDE DEF q, e
<1>7. rest \in Seq(S)
  BY <1>2, <1>3, ConcatProperties
<1> HIDE DEF rest, S, l, y
<1>8. CASE l = None
  <2>1. <<>> \o rest = rest
    BY <1>7, ConcatEmptySeq
  <2> QED BY <1>5, <1>6, <1>7, <1>8, <2>1 DEF S, l, e
<1>9. CASE l # None
  <2>1. <<y>> \in Seq(S) /\ <<y>> # <<>> /\ Head(<<y>>) = y
    BY <1>4, <1>9
  <2>2. <<y>> \o rest \in Seq(S)
    BY <1>7, <2>1, ConcatProperties
  <2>3. <<y>> \o rest # <<>> /\ Head(<<y>> \o rest) = Head(<<y>>)
    BY <1>7, <2>1, ConcatFront
  <2>4. SinkWaits(p, x, s, e, v) = <<y>> \o rest
    BY <1>5, <1>6, <1>9
  <2> QED BY <2>1, <2>2, <2>3, <2>4 DEF S, l, y, e
<1> QED BY <1>8, <1>9

(* The count of the bursts sink s waits for keeps up with the channel. *)
LEMMA SinkAdvances ==
  ASSUME NEW p, Params(p), NEW x, NEW c, ChannelInv(p, x, c), NEW x2, NEW offer, NEW ready,
         NEW g, ChannelStep(p, x, x2, c, offer, ready, g), NEW s \in 0..p.sinks-1,
         NEW v \in Seq(0..p.sources-1), NEW e2, NEW v2,
         NEW new \in BOOLEAN, NEW y, new => y \in 0..p.sources-1,
         MovesOn(e2, v2, v, new, y),
         NEW h, h = SinkWaits(p, x, s, ForSink(c, s), v)
  PROVE  AdvancesTo(h, Ch(p, x)!SinkBeat(s, offer, ready) = "last", new, y,
                    SinkWaits(p, x2, s, e2, v2))
<1> DEFINE S == 0..p.sources-1
           n == IF new THEN <<y>> ELSE <<>>
           last == Ch(p, x)!SinkBeat(s, offer, ready) = "last"
           h2 == SinkWaits(p, x2, s, e2, v2)
           rest == IF last THEN Tail(h) ELSE h
<1>1. Ports(p, x) /\ Connected(p, x) /\ Pending(p, x, c)
  BY DEF ChannelInv
<1>2. h \in Seq(S) /\ (x.sink[s].lane # None => h # <<>>)
  BY SinkWaitsFor
<1>3. last => x.sink[s].lane # None
  BY BeatOnLane DEF Params
<1>4. n \in Seq(S)
  <2> HIDE DEF S
  <2>1. new => y \in S
    BY DEF S
  <2> QED BY <2>1
<1>5. h2 = rest \o n
  <2>1. e2 \o v2 = v \o n
    BY DEF MovesOn
  <2>2. n \in Seq(0..p.sources-1)
    BY <1>4
  <2> HIDE DEF n, h2, rest
  <2>3. SinkFollows(p, x, x2, c, offer, ready, s, v, n, e2, v2)
    BY <1>1, <2>1, <2>2, SinkHistory
  <2> QED BY <2>3, Zenon DEF SinkFollows, h2, rest, last
<1>6. rest \in Seq(S)
  <2> HIDE DEF S, last
  <2> QED BY <1>2, <1>3, HeadTailProperties
<1>7. new => y \in S
  OBVIOUS
<1> HIDE DEF S, h2, rest, last
<1>8. rest \o n = IF new THEN Append(rest, y) ELSE rest
  <2>1. CASE new
    BY <1>6, <1>7, <2>1, AppendIsConcat
  <2>2. CASE ~new
    BY <1>6, <2>2, ConcatEmptySeq
  <2> QED BY <2>1, <2>2
<1> QED BY <1>5, <1>8 DEF AdvancesTo, rest, h2, last

(* A channel after its reset. *)
IdleChannel(p, x) ==
    /\ x.source = [s \in 0..p.sources-1 |-> Ch(p, x)!IdlePort]
    /\ x.sink = [k \in 0..p.sinks-1 |-> Ch(p, x)!IdlePort]
    /\ x.lane = [l \in 0..p.lanes-1 |-> None]

LEMMA Idle ==
  ASSUME NEW p, Params(p), NEW x, IdleChannel(p, x)
  PROVE  /\ ChannelInv(p, x, None)
         /\ \A s \in 0..p.sources-1 : SourceWaits(p, x, s, <<>>, <<>>) = <<>>
         /\ \A k \in 0..p.sinks-1 : SinkWaits(p, x, k, <<>>, <<>>) = <<>>
<1> DEFINE idle == [cmds |-> <<>>, pop |-> FALSE, buf |-> <<>>, lane |-> None, grant_mask |-> FALSE]
<1>1. /\ \A s \in 0..p.sources-1 : x.source[s] = idle
      /\ \A k \in 0..p.sinks-1 : x.sink[k] = idle
      /\ \A l \in 0..p.lanes-1 : x.lane[l] = None
  BY DEF IdleChannel, Ch!IdlePort
<1>2. Waiting(idle) = <<>> /\ Len(idle.cmds) = 0 /\ idle.lane = None
  BY DEF Waiting
<1>3. \A n : PortInv(idle, n, p)
  <2> SUFFICES ASSUME NEW n PROVE PortInv(idle, n, p)
    OBVIOUS
  <2>1. <<>> \in Seq(0..n-1)
    OBVIOUS
  <2> QED BY <2>1 DEF PortInv
<1> HIDE DEF idle
<1>4. Ports(p, x)
  BY <1>1, <1>3 DEF Ports
<1>5. Connected(p, x)
  BY <1>1, <1>2 DEF Connected
<1>6. Bounded(p, x) /\ Pending(p, x, None)
  BY <1>1, <1>2 DEF Bounded, Pending, Params
<1>7. \A y : Count(y, <<>>) = 0
  BY CountEmpty
<1>8. Balanced(p, x)
  BY <1>1, <1>2, <1>7 DEF Balanced
<1>9. <<>> \o <<>> = <<>>
  OBVIOUS
<1>10. Zeros(0) = <<>>
  <2>1. Zeros(0) \in Seq({0}) /\ Len(Zeros(0)) = 0
    BY ZerosFacts
  <2> QED BY <2>1, EmptySeq
<1>11. ASSUME NEW s \in 0..p.sources-1 PROVE SourceWaits(p, x, s, <<>>, <<>>) = <<>>
  <2>1. Awaits(p.sinks, SourceQueues(p, x), SinkQueues(p, x), s) = <<>>
    <3>1. CASE p.sinks > 1
      BY <1>1, <1>2, <3>1 DEF Awaits, SourceQueues
    <3>2. CASE p.sinks = 1
      <4>1. SinkQueues(p, x)[0] = <<>>
        BY <1>1, <1>2, <3>2 DEF SinkQueues
      <4> QED BY <1>7, <1>10, <3>2, <4>1 DEF Awaits
    <3> QED BY <3>1, <3>2 DEF Params
  <2>2. SourceBurst(x, s) = <<>>
    BY <1>1, <1>2 DEF SourceBurst
  <2> QED BY <1>9, <2>1, <2>2 DEF SourceWaits
<1>12. ASSUME NEW k \in 0..p.sinks-1 PROVE SinkWaits(p, x, k, <<>>, <<>>) = <<>>
  <2>1. Awaits(p.sources, SinkQueues(p, x), SourceQueues(p, x), k) = <<>>
    <3>1. CASE p.sources > 1
      BY <1>1, <1>2, <3>1 DEF Awaits, SinkQueues
    <3>2. CASE p.sources = 1
      <4>1. SourceQueues(p, x)[0] = <<>>
        BY <1>1, <1>2, <3>2 DEF SourceQueues
      <4> QED BY <1>7, <1>10, <3>2, <4>1 DEF Awaits
    <3> QED BY <3>1, <3>2 DEF Params
  <2>2. SinkBurst(x, k) = <<>>
    BY <1>1, <1>2 DEF SinkBurst
  <2> QED BY <1>9, <2>1, <2>2 DEF SinkWaits
<1> QED BY <1>4, <1>5, <1>6, <1>8, <1>11, <1>12 DEF ChannelInv
--------------------------------------------------------------------------------
(* The command path.  What the arbiter chooses has a command or had one    *)
(* until this cycle; in the second case the output is not free, so what is *)
(* forwarded is a command that is there.                                   *)
Buffered(j) == IF valid[j] THEN <<addr[j]>> ELSE <<>>

LEMMA WinnerRequests ==
  ASSUME NEW u, u.inputs \in Nat \ {0}, Router(u)!Cmd!IInv, NEW requests,
         requests \subseteq 0..u.inputs-1, requests # {}
  PROVE  Router(u)!Cmd!Winner(requests) \in requests
<1> DEFINE Nearest(t) == \A v \in requests : Router(u)!Cmd!Distance(t) <= Router(u)!Cmd!Distance(v)
           f == [t \in requests |-> Router(u)!Cmd!Distance(t)]
<1>1. \A t \in requests : Router(u)!Cmd!Distance(t) \in Nat
  <2> SUFFICES ASSUME NEW t \in requests PROVE Router(u)!Cmd!Distance(t) \in Nat
    OBVIOUS
  <2>1. t \in 0..u.inputs-1 /\ pri \in 0..u.inputs-1
    BY DEF Router!Cmd!IInv, Router!Cmd!Inputs
  <2>2. t + u.inputs - pri \in Nat
    BY <2>1
  <2>3. Router(u)!Cmd!Distance(t) = (t + u.inputs - pri) % u.inputs
    BY DEF Router!Cmd!Distance
  <2> QED BY <2>2, <2>3
<1>2. f \in [requests -> Nat]
  BY <1>1
<1>3. \E t \in requests : \A v \in requests : f[t] <= f[v]
  <2> HIDE DEF f
  <2> QED BY <1>2, LeastImage
<1>4. \E t \in requests : Nearest(t)
  BY <1>3
<1>5. Router(u)!Cmd!Winner(requests) = CHOOSE t \in requests : Nearest(t)
  BY Zenon DEF Router!Cmd!Winner
<1> HIDE DEF Nearest
<1> QED BY <1>4, <1>5

IsBuffered(u, fwd, fi, fo) ==
    fwd # None =>
        /\ arb_out \in 0..u.inputs-1 /\ addr[arb_out] \in 0..u.outputs-1
        /\ fwd = [input |-> arb_out, output |-> addr[arb_out]]
        /\ valid[arb_out] = TRUE
        /\ arb_out \notin fi /\ addr[arb_out] \notin fo

LEMMA ForwardedFacts ==
  ASSUME NEW u, Router(u)!Cmd!IInv, NEW aw_ready, NEW fi, NEW fo
  PROVE  IsBuffered(u, Router(u)!Cmd!Forwarded(aw_ready, fi, fo), fi, fo)
BY DEF IsBuffered, Router!Cmd!Forwarded, Router!Cmd!OutBufReady, Router!Cmd!IInv,
       Router!Cmd!Inputs, Router!Cmd!Outputs

LEMMA CommandInvStep ==
  ASSUME NEW u, u.inputs \in Nat \ {0}, Router(u)!Cmd!IInv,
         NEW in_addr \in [0..u.inputs-1 -> 0..u.outputs-1 \cup {None}],
         NEW aw_ready, NEW fi, NEW fo, Router(u)!Cmd!Clk(in_addr, aw_ready, fi, fo)
  PROVE  Router(u)!Cmd!IInv'
<1> DEFINE fwd == Router(u)!Cmd!Forwarded(aw_ready, fi, fo)
           accepted == Router(u)!Cmd!Accepted(in_addr)
           requests == Router(u)!Cmd!InBufValid(in_addr)
<1>1. /\ valid' = [j \in 0..u.inputs-1 |->
              j \in accepted \/ (valid[j] /\ (fwd # None => fwd.input # j))]
      /\ addr' = [j \in 0..u.inputs-1 |-> IF j \in accepted THEN in_addr[j] ELSE addr[j]]
      /\ arb_out' = Router(u)!Cmd!Winner(requests)
      /\ pri' = IF requests = {} THEN pri ELSE (pri + 1) % u.inputs
      /\ cmd' = fwd
      /\ out_valid' = [k \in 0..u.outputs-1 |->
              (fwd # None /\ fwd.output = k) \/ (out_valid[k] /\ k \notin aw_ready)]
  BY DEF Router!Cmd!Clk, Router!Cmd!Inputs, Router!Cmd!Outputs
<1>2. /\ valid \in [0..u.inputs-1 -> BOOLEAN] /\ addr \in [0..u.inputs-1 -> 0..u.outputs-1]
      /\ pri \in 0..u.inputs-1
  BY DEF Router!Cmd!IInv, Router!Cmd!Inputs, Router!Cmd!Outputs
<1>3. /\ accepted \subseteq 0..u.inputs-1 /\ requests \subseteq 0..u.inputs-1
      /\ \A j \in 0..u.inputs-1 : /\ j \in accepted <=> ~valid[j] /\ in_addr[j] # None
                                  /\ j \in requests <=> valid[j] \/ in_addr[j] # None
  BY DEF Router!Cmd!Accepted, Router!Cmd!InBufValid, Router!Cmd!Inputs
<1>4. requests # {} => arb_out' \in requests
  BY <1>1, <1>3, WinnerRequests
<1>5. requests = {} => arb_out' = None
  BY <1>1 DEF Router!Cmd!Winner
<1>6. fwd # None => /\ arb_out \in 0..u.inputs-1 /\ addr[arb_out] \in 0..u.outputs-1
                    /\ fwd = [input |-> arb_out, output |-> addr[arb_out]] /\ valid[arb_out] = TRUE
  <2>1. IsBuffered(u, fwd, fi, fo)
    BY ForwardedFacts
  <2> HIDE DEF fwd
  <2> QED BY <2>1 DEF IsBuffered
<1> HIDE DEF fwd, accepted, requests
<1>7. valid' \in [0..u.inputs-1 -> BOOLEAN]
  BY <1>1, <1>2
<1>8. addr' \in [0..u.inputs-1 -> 0..u.outputs-1]
  <2>1. \A j \in accepted : in_addr[j] \in 0..u.outputs-1
    BY <1>3
  <2> QED BY <1>1, <1>2, <2>1
<1>9. pri' \in 0..u.inputs-1
  <2> DEFINE n == u.inputs
  <2>1. \A i \in 0..n-1 : ((i + 1) % n) \in 0..n-1
    <3>1. n \in Nat \ {0}
      OBVIOUS
    <3> HIDE DEF n
    <3> QED BY <3>1
  <2> QED BY <1>1, <1>2, <2>1
<1>10. arb_out' \in 0..u.inputs-1 \cup {None}
  BY <1>3, <1>4, <1>5
<1>11. cmd' \in Router(u)!Cmd!Command \cup {None}
  BY <1>1, <1>6 DEF Router!Cmd!Command, Router!Cmd!Inputs, Router!Cmd!Outputs
<1>12. out_valid' \in [0..u.outputs-1 -> BOOLEAN]
  <2>1. out_valid \in [0..u.outputs-1 -> BOOLEAN]
    BY DEF Router!Cmd!IInv, Router!Cmd!Outputs
  <2> QED BY <1>1, <2>1
<1>13. cmd' # None => out_valid'[cmd'.output]
  <2>1. fwd # None => fwd.output \in 0..u.outputs-1
    BY <1>6
  <2> QED BY <1>1, <2>1
<1>14. ASSUME arb_out' # None, ~valid'[arb_out'] PROVE out_valid'[addr'[arb_out']]
  <2> DEFINE j == arb_out'
  <2>1. j \in 0..u.inputs-1 /\ j \in requests
    BY <1>3, <1>4, <1>5, <1>14
  <2> HIDE DEF j
  <2>2. ~(j \in accepted \/ (valid[j] /\ (fwd # None => fwd.input # j)))
    BY <1>1, <1>14, <2>1 DEF j
  <2>3. valid[j] /\ j \notin accepted
    BY <1>3, <2>1, <2>2
  <2>4. fwd # None /\ fwd.input = j
    BY <2>2, <2>3
  <2>5. fwd.output = addr[j] /\ addr[j] \in 0..u.outputs-1 /\ addr'[j] = addr[j]
    BY <1>1, <1>6, <2>1, <2>3, <2>4
  <2>6. out_valid'[addr[j]]
    BY <1>1, <2>4, <2>5
  <2> QED BY <2>5, <2>6 DEF j
<1> QED BY <1>7, <1>8, <1>9, <1>10, <1>11, <1>12, <1>13, <1>14
        DEF Router!Cmd!IInv, Router!Cmd!Inputs, Router!Cmd!Outputs

(* A command moves from the buffer of its input to the channels; new       *)
(* commands come in behind.                                                *)
BufferMoves(u, in_addr, aw_ready, fi, fo, j) ==
    LET fwd == Router(u)!Cmd!Forwarded(aw_ready, fi, fo)
        new == j \in Router(u)!Cmd!Accepted(in_addr)
    IN  (IF fwd # None /\ fwd.input = j THEN <<fwd.output>> ELSE <<>>) \o Buffered(j)'
            = Buffered(j) \o (IF new THEN <<in_addr[j]>> ELSE <<>>)

LEMMA BufferStep ==
  ASSUME NEW u, Router(u)!Cmd!IInv,
         NEW in_addr \in [0..u.inputs-1 -> 0..u.outputs-1 \cup {None}],
         NEW aw_ready, NEW fi, NEW fo, Router(u)!Cmd!Clk(in_addr, aw_ready, fi, fo),
         NEW j \in 0..u.inputs-1
  PROVE  /\ BufferMoves(u, in_addr, aw_ready, fi, fo, j)
         /\ j \in Router(u)!Cmd!Accepted(in_addr) => in_addr[j] \in 0..u.outputs-1
         /\ Buffered(j) \in Seq(0..u.outputs-1)
<1> DEFINE fwd == Router(u)!Cmd!Forwarded(aw_ready, fi, fo)
           accepted == Router(u)!Cmd!Accepted(in_addr)
           S == 0..u.outputs-1
<1>1. /\ valid'[j] = (j \in accepted \/ (valid[j] /\ (fwd # None => fwd.input # j)))
      /\ addr'[j] = IF j \in accepted THEN in_addr[j] ELSE addr[j]
  BY DEF Router!Cmd!Clk, Router!Cmd!Inputs
<1>2. valid[j] \in BOOLEAN /\ addr[j] \in S
  BY DEF Router!Cmd!IInv, Router!Cmd!Inputs, Router!Cmd!Outputs
<1>3. j \in accepted <=> ~valid[j] /\ in_addr[j] # None
  BY DEF Router!Cmd!Accepted, Router!Cmd!Inputs
<1>4. fwd # None => fwd = [input |-> arb_out, output |-> addr[arb_out]] /\ valid[arb_out] = TRUE
  <2>1. IsBuffered(u, fwd, fi, fo)
    BY ForwardedFacts
  <2> HIDE DEF fwd
  <2> QED BY <2>1 DEF IsBuffered
<1> HIDE DEF fwd, accepted, S
<1>5. j \in accepted => in_addr[j] \in S
  BY <1>3 DEF S
<1>6. Buffered(j)' = IF valid'[j] THEN <<addr'[j]>> ELSE <<>>
  BY DEF Buffered
<1>7. \A y \in S : <<y>> \in Seq(S) /\ <<y>> \o <<>> = <<y>> /\ <<>> \o <<y>> = <<y>>
  BY ConcatEmptySeq
<1>8. <<>> \o <<>> = <<>>
  OBVIOUS
<1> DEFINE l == IF fwd # None /\ fwd.input = j THEN <<fwd.output>> ELSE <<>>
           n == IF j \in accepted THEN <<in_addr[j]>> ELSE <<>>
<1>9. l \o Buffered(j)' = Buffered(j) \o n
  <2>1. CASE fwd # None /\ fwd.input = j
    <3>1. valid[j] = TRUE /\ fwd.output = addr[j]
      BY <1>4, <2>1
    <3>3. j \notin accepted
      BY <1>3, <3>1
    <3>4. valid'[j] = FALSE
      BY <1>1, <2>1, <3>3
    <3>2. l = <<addr[j]>> /\ n = <<>> /\ Buffered(j)' = <<>> /\ Buffered(j) = <<addr[j]>>
      BY <1>6, <2>1, <3>1, <3>3, <3>4 DEF Buffered
    <3> QED BY <3>2
  <2>2. CASE ~(fwd # None /\ fwd.input = j) /\ j \in accepted
    <3>1. ~valid[j] /\ valid'[j] /\ addr'[j] = in_addr[j]
      BY <1>1, <1>3, <2>2
    <3>2. l = <<>> /\ n = <<in_addr[j]>> /\ Buffered(j)' = <<in_addr[j]>> /\ Buffered(j) = <<>>
      BY <1>6, <2>2, <3>1 DEF Buffered
    <3> QED BY <3>2
  <2>3. CASE ~(fwd # None /\ fwd.input = j) /\ j \notin accepted
    <3>1. valid'[j] = valid[j] /\ addr'[j] = addr[j]
      BY <1>1, <1>2, <2>3
    <3>2. l = <<>> /\ n = <<>> /\ Buffered(j)' = Buffered(j)
      BY <1>6, <2>3, <3>1 DEF Buffered
    <3>3. CASE valid[j]
      BY <1>2, <1>7, <3>2, <3>3 DEF Buffered
    <3>4. CASE ~valid[j]
      BY <1>8, <3>2, <3>4 DEF Buffered
    <3> QED BY <3>3, <3>4
  <2> QED BY <2>1, <2>2, <2>3
<1>10. BufferMoves(u, in_addr, aw_ready, fi, fo, j)
  BY <1>9, Zenon DEF BufferMoves, l, n, fwd, accepted
<1>11. Buffered(j) \in Seq(S)
  BY <1>2, <1>7 DEF Buffered
<1> QED BY <1>5, <1>10, <1>11 DEF accepted, S
--------------------------------------------------------------------------------
(* A unit.  Every burst is in one place: a command counts for its input    *)
(* from the buffer on, for its output from the queues on.                  *)
Answers(u) ==
    /\ r_pri \in 0..u.outputs-1
    /\ ChannelInv(RP(u), RX, Router(u)!Answering)
    /\ \A k \in 0..u.outputs-1 :
         owes[k] = SourceWaits(RP(u), RX, k, ForSource(Router(u)!Answering, k), <<>>)
    /\ \A j \in 0..u.inputs-1 :
         due[j] = SinkWaits(RP(u), RX, j, ForSink(Router(u)!Answering, j), Buffered(j))
Data(u) ==
    /\ w_pri \in 0..u.inputs-1
    /\ ChannelInv(WP(u), WX, Router(u)!Writing)
    /\ \A k \in 0..u.outputs-1 :
         w_owes[k] = SinkWaits(WP(u), WX, k, ForSink(Router(u)!Writing, k), <<>>)
    /\ \A j \in 0..u.inputs-1 :
         w_due[j] = SourceWaits(WP(u), WX, j, ForSource(Router(u)!Writing, j), Buffered(j))

UnitInv(u) ==
    /\ Router(u)!Cmd!IInv /\ Answers(u)
    /\ u.write => Data(u)

Sizes(u) ==
    /\ u.inputs \in Nat \ {0} /\ u.outputs \in Nat \ {0}
    /\ Params(RP(u)) /\ Params(WP(u))

LEMMA UnitSizes ==
  ASSUME NEW u \in Units
  PROVE  Sizes(u)
<1>1. Router(u)!AxiRouterAssumption
  BY UnitsAllowed DEF UnitsAssumption
<1>2. /\ Router(u)!Cmd!AxiRouterCommandAssumption
      /\ Router(u)!R!AxiRouterChannelAssumption /\ Router(u)!W!AxiRouterChannelAssumption
  BY <1>1 DEF Router!AxiRouterAssumption
<1>3. u.inputs \in Nat \ {0} /\ u.outputs \in Nat \ {0}
  BY <1>2 DEF Router!Cmd!AxiRouterCommandAssumption
<1>4. Params(RP(u))
  BY <1>2 DEF Params, RP, Router!R!AxiRouterChannelAssumption, Router!R!Beat, Router!R!Lanes,
              Router!R!Command, Router!R!Sources, Router!R!Sinks
<1>5. Params(WP(u))
  BY <1>2 DEF Params, WP, Router!W!AxiRouterChannelAssumption, Router!W!Beat, Router!W!Lanes,
              Router!W!Command, Router!W!Sources, Router!W!Sinks
<1> QED BY <1>3, <1>4, <1>5 DEF Sizes

LEMMA AnswersStep ==
  ASSUME NEW u, Sizes(u), Router(u)!Cmd!IInv, Answers(u),
         NEW in_addr \in [0..u.inputs-1 -> 0..u.outputs-1 \cup {None}],
         NEW aw_ready, NEW ready, NEW fi, NEW fo,
         Router(u)!Cmd!Clk(in_addr, aw_ready, fi, fo),
         \A j : Router(u)!R!cmd_full_sink(j) /\ j \in 0..u.inputs-1 => j \in fi,
         \A k : Router(u)!R!cmd_full_source(k) /\ k \in 0..u.outputs-1 => k \in fo,
         Router(u)!R!Clk(Router(u)!Answering, Router(u)!Valid(r_offer), ready),
         Router(u)!CountAnswers(in_addr, ready, Router(u)!Cmd!Forwarded(aw_ready, fi, fo))
  PROVE  Answers(u)'
<1> DEFINE p == RP(u)
           c == Router(u)!Answering
           c2 == Router(u)!Answering'
           offer == Router(u)!Valid(r_offer)
           fwd == Router(u)!Cmd!Forwarded(aw_ready, fi, fo)
           accepted == Router(u)!Cmd!Accepted(in_addr)
<1>1. /\ Params(p) /\ p.sources = u.outputs /\ p.sinks = u.inputs
      /\ u.inputs \in Nat \ {0} /\ u.outputs \in Nat \ {0}
  BY DEF Sizes, RP
<1>2. ChannelInv(p, RX, c) /\ r_pri \in 0..p.sources-1
  BY <1>1 DEF Answers
<1>3. PICK g : ChannelStep(p, RX, RX', c, offer, ready, g)
  <2>1. Ports(p, RX) /\ r_pri \in 0..u.outputs-1
    BY <1>2 DEF ChannelInv, Answers
  <2> QED BY <1>1, <2>1, RStep
<1>4. r_pri' \in 0..u.outputs-1
  <2>1. Ports(p, RX) /\ r_pri \in 0..u.outputs-1
    BY <1>2 DEF ChannelInv, Answers
  <2> QED BY <1>1, <2>1, RStep
<1>5. /\ \A k : Router(u)!R!SourceBeat(k, offer, ready) = Ch(p, RX)!SourceBeat(k, offer, ready)
      /\ \A k : Router(u)!R!SinkBeat(k, offer, ready) = Ch(p, RX)!SinkBeat(k, offer, ready)
  BY RBeats
<1>6. IsBuffered(u, fwd, fi, fo)
  BY ForwardedFacts
<1>7. c2 = IF fwd = None THEN None ELSE [source |-> fwd.output, sink |-> fwd.input]
  BY DEF Router!Cmd!Clk, Router!Answering
<1> DEFINE in == fwd.input
           out == fwd.output
<1>8. fwd # None => /\ in \in 0..u.inputs-1 /\ out \in 0..u.outputs-1
                    /\ in \notin fi /\ out \notin fo
                    /\ c2 # None /\ c2.source = out /\ c2.sink = in
  <2> HIDE DEF fwd, c2
  <2>1. fwd # None => /\ in \in 0..u.inputs-1 /\ out \in 0..u.outputs-1
                      /\ in \notin fi /\ out \notin fo
    BY <1>6 DEF IsBuffered
  <2> HIDE DEF in, out
  <2>2. fwd # None => c2 = [source |-> out, sink |-> in]
    BY <1>7 DEF in, out
  <2>3. fwd # None => c2 \in [source : 0..p.sources-1, sink : 0..p.sinks-1]
    BY <1>1, <2>1, <2>2
  <2>4. fwd # None => c2 # None
    BY <1>1, <2>3 DEF Params
  <2> QED BY <2>1, <2>2, <2>4
<1>9. ChannelInv(p, RX', c2)
  <2>1. c2 # None => fwd # None
    BY <1>7
  <2> HIDE DEF c2, fwd, in, out
  <2>2. c2 # None =>
           /\ c2.source \in 0..p.sources-1 /\ c2.sink \in 0..p.sinks-1
           /\ ~Ch(p, RX)!cmd_full_source(c2.source) /\ ~Ch(p, RX)!cmd_full_sink(c2.sink)
    <3> SUFFICES ASSUME c2 # None
                 PROVE  /\ c2.source \in 0..p.sources-1 /\ c2.sink \in 0..p.sinks-1
                        /\ ~Ch(p, RX)!cmd_full_source(c2.source)
                        /\ ~Ch(p, RX)!cmd_full_sink(c2.sink)
      OBVIOUS
    <3>1. \A k : Ch(p, RX)!cmd_full_source(k) = Router(u)!R!cmd_full_source(k)
      BY DEF RX, RP, Ch!cmd_full_source, Router!R!cmd_full_source
    <3>2. \A j : Ch(p, RX)!cmd_full_sink(j) = Router(u)!R!cmd_full_sink(j)
      BY DEF RX, RP, Ch!cmd_full_sink, Router!R!cmd_full_sink
    <3>3. in \in 0..u.inputs-1 /\ out \in 0..u.outputs-1 /\ in \notin fi /\ out \notin fo
          /\ c2.source = out /\ c2.sink = in
      BY <1>8, <2>1
    <3> QED BY <1>1, <3>1, <3>2, <3>3
  <2> HIDE DEF p, c, offer
  <2> QED BY <1>1, <1>2, <1>3, <2>2, ChannelInvStep
<1>10. ASSUME NEW k \in 0..u.outputs-1
       PROVE  owes'[k] = SourceWaits(p, RX', k, ForSource(c2, k), <<>>)
  <2> DEFINE new == fwd # None /\ out = k
             n == IF new THEN <<in>> ELSE <<>>
             h == owes[k]
             last == Ch(p, RX)!SourceBeat(k, offer, ready) = "last"
             e2 == ForSource(c2, k)
  <2>1. owes'[k] = Router(u)!Advance(h, last, new, in)
    BY <1>5 DEF Router!CountAnswers, Router!Outputs, Router!Cmd!Outputs
  <2>2. h = SourceWaits(p, RX, k, ForSource(c, k), <<>>)
    BY DEF Answers
  <2>3. e2 = n
    <3> HIDE DEF c2, fwd, in, out
    <3>1. c2 # None => fwd # None
      BY <1>7
    <3> QED BY <1>8, <3>1 DEF ForSource
  <2>4. new \in BOOLEAN /\ (new => in \in 0..p.sinks-1)
    BY <1>1, <1>8
  <2> HIDE DEF in, out
  <2>5. n \in Seq(0..p.sinks-1)
    <3> DEFINE S == 0..p.sinks-1
    <3>1. new => in \in S
      BY <2>4
    <3> HIDE DEF S, new
    <3>2. n \in Seq(S)
      BY <3>1
    <3> QED BY <3>2 DEF S
  <2>6. MovesOn(e2, <<>>, <<>>, new, in)
    <3>1. e2 \o <<>> = <<>> \o n
      <4> HIDE DEF n, e2
      <4> QED BY <2>3, <2>5, ConcatEmptySeq
    <3> HIDE DEF e2, new
    <3> QED BY <3>1 DEF MovesOn
  <2>7. k \in 0..p.sources-1 /\ <<>> \in Seq(0..p.sinks-1)
    BY <1>1
  <2> DEFINE none == <<>>
  <2>9. /\ none \in Seq(0..p.sinks-1) /\ MovesOn(e2, none, none, new, in)
        /\ h = SourceWaits(p, RX, k, ForSource(c, k), none)
    BY <2>2, <2>6, <2>7
  <2> HIDE DEF p, c, c2, offer, fwd, new, h, e2, none
  <2>8. AdvancesTo(h, Ch(p, RX)!SourceBeat(k, offer, ready) = "last", new, in,
                   SourceWaits(p, RX', k, e2, none))
    BY <1>1, <1>2, <1>3, <2>4, <2>7, <2>9, SourceAdvances
  <2> QED BY <2>1, <2>8 DEF AdvancesTo, Router!Advance, e2, none
<1>11. ASSUME NEW j \in 0..u.inputs-1
       PROVE  due'[j] = SinkWaits(p, RX', j, ForSink(c2, j), Buffered(j)')
  <2> DEFINE new == j \in accepted
             y == in_addr[j]
             n == IF new THEN <<y>> ELSE <<>>
             h == due[j]
             last == Ch(p, RX)!SinkBeat(j, offer, ready) = "last"
             e2 == ForSink(c2, j)
             v == Buffered(j)
             v2 == Buffered(j)'
  <2>1. due'[j] = Router(u)!Advance(h, last, new, y)
    BY <1>5 DEF Router!CountAnswers, Router!Inputs, Router!Cmd!Inputs
  <2>2. h = SinkWaits(p, RX, j, ForSink(c, j), v)
    BY DEF Answers
  <2>3. e2 = IF fwd # None /\ in = j THEN <<out>> ELSE <<>>
    <3> HIDE DEF c2, fwd, in, out
    <3>1. c2 # None => fwd # None
      BY <1>7
    <3> QED BY <1>8, <3>1 DEF ForSink
  <2>4. /\ BufferMoves(u, in_addr, aw_ready, fi, fo, j)
        /\ new => y \in 0..u.outputs-1
        /\ v \in Seq(0..u.outputs-1)
    BY BufferStep
  <2>5. MovesOn(e2, v2, v, new, y)
    BY <2>3, <2>4, Zenon DEF BufferMoves, MovesOn
  <2>6. /\ j \in 0..p.sinks-1 /\ v \in Seq(0..p.sources-1) /\ new \in BOOLEAN
        /\ new => y \in 0..p.sources-1
    BY <1>1, <2>4
  <2> HIDE DEF p, c, c2, offer, fwd, new, y, h, e2, v, v2
  <2>7. AdvancesTo(h, Ch(p, RX)!SinkBeat(j, offer, ready) = "last", new, y,
                   SinkWaits(p, RX', j, e2, v2))
    BY <1>1, <1>2, <1>3, <2>2, <2>5, <2>6, SinkAdvances
  <2> QED BY <2>1, <2>7 DEF AdvancesTo, Router!Advance, e2, v2
<1> QED BY <1>4, <1>9, <1>10, <1>11 DEF Answers

LEMMA DataStep ==
  ASSUME NEW u, Sizes(u), Router(u)!Cmd!IInv, Data(u),
         NEW in_addr \in [0..u.inputs-1 -> 0..u.outputs-1 \cup {None}],
         NEW aw_ready, NEW ready, NEW fi, NEW fo,
         Router(u)!Cmd!Clk(in_addr, aw_ready, fi, fo),
         \A j : Router(u)!W!cmd_full_source(j) /\ j \in 0..u.inputs-1 => j \in fi,
         \A k : Router(u)!W!cmd_full_sink(k) /\ k \in 0..u.outputs-1 => k \in fo,
         Router(u)!W!Clk(Router(u)!Writing, Router(u)!Valid(w_offer), ready),
         Router(u)!CountData(in_addr, ready, Router(u)!Cmd!Forwarded(aw_ready, fi, fo))
  PROVE  Data(u)'
<1> DEFINE p == WP(u)
           c == Router(u)!Writing
           c2 == Router(u)!Writing'
           offer == Router(u)!Valid(w_offer)
           fwd == Router(u)!Cmd!Forwarded(aw_ready, fi, fo)
           accepted == Router(u)!Cmd!Accepted(in_addr)
<1>1. /\ Params(p) /\ p.sinks = u.outputs /\ p.sources = u.inputs
      /\ u.inputs \in Nat \ {0} /\ u.outputs \in Nat \ {0}
  BY DEF Sizes, WP
<1>2. ChannelInv(p, WX, c) /\ w_pri \in 0..p.sources-1
  BY <1>1 DEF Data
<1>3. PICK g : ChannelStep(p, WX, WX', c, offer, ready, g)
  <2>1. Ports(p, WX) /\ w_pri \in 0..u.inputs-1
    BY <1>2 DEF ChannelInv, Data
  <2> QED BY <1>1, <2>1, WStep
<1>4. w_pri' \in 0..u.inputs-1
  <2>1. Ports(p, WX) /\ w_pri \in 0..u.inputs-1
    BY <1>2 DEF ChannelInv, Data
  <2> QED BY <1>1, <2>1, WStep
<1>5. /\ \A k : Router(u)!W!SourceBeat(k, offer, ready) = Ch(p, WX)!SourceBeat(k, offer, ready)
      /\ \A k : Router(u)!W!SinkBeat(k, offer, ready) = Ch(p, WX)!SinkBeat(k, offer, ready)
  BY WBeats
<1>6. IsBuffered(u, fwd, fi, fo)
  BY ForwardedFacts
<1>7. c2 = IF fwd = None THEN None ELSE [sink |-> fwd.output, source |-> fwd.input]
  BY DEF Router!Cmd!Clk, Router!Writing
<1> DEFINE in == fwd.input
           out == fwd.output
<1>8. fwd # None => /\ in \in 0..u.inputs-1 /\ out \in 0..u.outputs-1
                    /\ in \notin fi /\ out \notin fo
                    /\ c2 # None /\ c2.sink = out /\ c2.source = in
  <2> HIDE DEF fwd, c2
  <2>1. fwd # None => /\ in \in 0..u.inputs-1 /\ out \in 0..u.outputs-1
                      /\ in \notin fi /\ out \notin fo
    BY <1>6 DEF IsBuffered
  <2> HIDE DEF in, out
  <2>2. fwd # None => c2 = [sink |-> out, source |-> in]
    BY <1>7 DEF in, out
  <2>3. fwd # None => c2 \in [source : 0..p.sources-1, sink : 0..p.sinks-1]
    BY <1>1, <2>1, <2>2
  <2>4. fwd # None => c2 # None
    BY <1>1, <2>3 DEF Params
  <2> QED BY <2>1, <2>2, <2>4
<1>9. ChannelInv(p, WX', c2)
  <2>1. c2 # None => fwd # None
    BY <1>7
  <2> HIDE DEF c2, fwd, in, out
  <2>2. c2 # None =>
           /\ c2.source \in 0..p.sources-1 /\ c2.sink \in 0..p.sinks-1
           /\ ~Ch(p, WX)!cmd_full_source(c2.source) /\ ~Ch(p, WX)!cmd_full_sink(c2.sink)
    <3> SUFFICES ASSUME c2 # None
                 PROVE  /\ c2.source \in 0..p.sources-1 /\ c2.sink \in 0..p.sinks-1
                        /\ ~Ch(p, WX)!cmd_full_source(c2.source)
                        /\ ~Ch(p, WX)!cmd_full_sink(c2.sink)
      OBVIOUS
    <3>1. \A k : Ch(p, WX)!cmd_full_sink(k) = Router(u)!W!cmd_full_sink(k)
      BY DEF WX, WP, Ch!cmd_full_sink, Router!W!cmd_full_sink
    <3>2. \A j : Ch(p, WX)!cmd_full_source(j) = Router(u)!W!cmd_full_source(j)
      BY DEF WX, WP, Ch!cmd_full_source, Router!W!cmd_full_source
    <3>3. in \in 0..u.inputs-1 /\ out \in 0..u.outputs-1 /\ in \notin fi /\ out \notin fo
          /\ c2.sink = out /\ c2.source = in
      BY <1>8, <2>1
    <3> QED BY <1>1, <3>1, <3>2, <3>3
  <2> HIDE DEF p, c, offer
  <2> QED BY <1>1, <1>2, <1>3, <2>2, ChannelInvStep
<1>10. ASSUME NEW k \in 0..u.outputs-1
       PROVE  w_owes'[k] = SinkWaits(p, WX', k, ForSink(c2, k), <<>>)
  <2> DEFINE new == fwd # None /\ out = k
             n == IF new THEN <<in>> ELSE <<>>
             h == w_owes[k]
             last == Ch(p, WX)!SinkBeat(k, offer, ready) = "last"
             e2 == ForSink(c2, k)
  <2>1. w_owes'[k] = Router(u)!Advance(h, last, new, in)
    BY <1>5 DEF Router!CountData, Router!Outputs, Router!Cmd!Outputs
  <2>2. h = SinkWaits(p, WX, k, ForSink(c, k), <<>>)
    BY DEF Data
  <2>3. e2 = n
    <3> HIDE DEF c2, fwd, in, out
    <3>1. c2 # None => fwd # None
      BY <1>7
    <3> QED BY <1>8, <3>1 DEF ForSink
  <2>4. new \in BOOLEAN /\ (new => in \in 0..p.sources-1)
    BY <1>1, <1>8
  <2> HIDE DEF in, out
  <2>5. n \in Seq(0..p.sources-1)
    <3> DEFINE S == 0..p.sources-1
    <3>1. new => in \in S
      BY <2>4
    <3> HIDE DEF S, new
    <3>2. n \in Seq(S)
      BY <3>1
    <3> QED BY <3>2 DEF S
  <2>6. MovesOn(e2, <<>>, <<>>, new, in)
    <3>1. e2 \o <<>> = <<>> \o n
      <4> HIDE DEF n, e2
      <4> QED BY <2>3, <2>5, ConcatEmptySeq
    <3> HIDE DEF e2, new
    <3> QED BY <3>1 DEF MovesOn
  <2>7. k \in 0..p.sinks-1 /\ <<>> \in Seq(0..p.sources-1)
    BY <1>1
  <2> DEFINE none == <<>>
  <2>9. /\ none \in Seq(0..p.sources-1) /\ MovesOn(e2, none, none, new, in)
        /\ h = SinkWaits(p, WX, k, ForSink(c, k), none)
    BY <2>2, <2>6, <2>7
  <2> HIDE DEF p, c, c2, offer, fwd, new, h, e2, none
  <2>8. AdvancesTo(h, Ch(p, WX)!SinkBeat(k, offer, ready) = "last", new, in,
                   SinkWaits(p, WX', k, e2, none))
    BY <1>1, <1>2, <1>3, <2>4, <2>7, <2>9, SinkAdvances
  <2> QED BY <2>1, <2>8 DEF AdvancesTo, Router!Advance, e2, none
<1>11. ASSUME NEW j \in 0..u.inputs-1
       PROVE  w_due'[j] = SourceWaits(p, WX', j, ForSource(c2, j), Buffered(j)')
  <2> DEFINE new == j \in accepted
             y == in_addr[j]
             n == IF new THEN <<y>> ELSE <<>>
             h == w_due[j]
             last == Ch(p, WX)!SourceBeat(j, offer, ready) = "last"
             e2 == ForSource(c2, j)
             v == Buffered(j)
             v2 == Buffered(j)'
  <2>1. w_due'[j] = Router(u)!Advance(h, last, new, y)
    BY <1>5 DEF Router!CountData, Router!Inputs, Router!Cmd!Inputs
  <2>2. h = SourceWaits(p, WX, j, ForSource(c, j), v)
    BY DEF Data
  <2>3. e2 = IF fwd # None /\ in = j THEN <<out>> ELSE <<>>
    <3> HIDE DEF c2, fwd, in, out
    <3>1. c2 # None => fwd # None
      BY <1>7
    <3> QED BY <1>8, <3>1 DEF ForSource
  <2>4. /\ BufferMoves(u, in_addr, aw_ready, fi, fo, j)
        /\ new => y \in 0..u.outputs-1
        /\ v \in Seq(0..u.outputs-1)
    BY BufferStep
  <2>5. MovesOn(e2, v2, v, new, y)
    BY <2>3, <2>4, Zenon DEF BufferMoves, MovesOn
  <2>6. /\ j \in 0..p.sources-1 /\ v \in Seq(0..p.sinks-1) /\ new \in BOOLEAN
        /\ new => y \in 0..p.sinks-1
    BY <1>1, <2>4
  <2> HIDE DEF p, c, c2, offer, fwd, new, y, h, e2, v, v2
  <2>7. AdvancesTo(h, Ch(p, WX)!SourceBeat(j, offer, ready) = "last", new, y,
                   SourceWaits(p, WX', j, e2, v2))
    BY <1>1, <1>2, <1>3, <2>2, <2>5, <2>6, SourceAdvances
  <2> QED BY <2>1, <2>7 DEF AdvancesTo, Router!Advance, e2, v2
<1> QED BY <1>4, <1>9, <1>10, <1>11 DEF Data
--------------------------------------------------------------------------------
LEMMA EdgeStep ==
  ASSUME NEW u, Sizes(u), UnitInv(u),
         NEW in_addr \in [0..u.inputs-1 -> 0..u.outputs-1 \cup {None}],
         NEW aw_ready, NEW r_ready, NEW w_ready,
         Router(u)!Clk(in_addr, aw_ready, r_ready, w_ready)
  PROVE  UnitInv(u)'
<1> DEFINE fi == Router(u)!full_input
           fo == Router(u)!full_output
           fwd == Router(u)!Cmd!Forwarded(aw_ready, fi, fo)
<1>1. Router(u)!Cmd!IInv /\ Answers(u) /\ (u.write => Data(u))
  BY DEF UnitInv
<1>2. /\ Router(u)!Cmd!Clk(in_addr, aw_ready, fi, fo)
      /\ Router(u)!AnswerClk(r_ready, in_addr, fwd)
      /\ Router(u)!WriteClk(w_ready, in_addr, fwd)
  BY DEF Router!Clk
<1>3. Router(u)!Cmd!IInv'
  BY <1>1, <1>2, CommandInvStep DEF Sizes
<1>4. /\ Router(u)!R!Clk(Router(u)!Answering, Router(u)!Valid(r_offer), r_ready)
      /\ Router(u)!CountAnswers(in_addr, r_ready, fwd)
  BY <1>2 DEF Router!AnswerClk
<1>5. u.write => /\ Router(u)!W!Clk(Router(u)!Writing, Router(u)!Valid(w_offer), w_ready)
                 /\ Router(u)!CountData(in_addr, w_ready, fwd)
  BY <1>2 DEF Router!WriteClk
<1>6. /\ \A j : Router(u)!R!cmd_full_sink(j) /\ j \in 0..u.inputs-1 => j \in fi
      /\ \A k : Router(u)!R!cmd_full_source(k) /\ k \in 0..u.outputs-1 => k \in fo
      /\ u.write => \A j : Router(u)!W!cmd_full_source(j) /\ j \in 0..u.inputs-1 => j \in fi
      /\ u.write => \A k : Router(u)!W!cmd_full_sink(k) /\ k \in 0..u.outputs-1 => k \in fo
  BY DEF Router!full_input, Router!full_output, Router!Inputs, Router!Outputs,
         Router!Cmd!Inputs, Router!Cmd!Outputs
<1> HIDE DEF fi, fo
<1>7. Answers(u)'
  BY <1>1, <1>2, <1>4, <1>6, AnswersStep
<1>8. u.write => Data(u)'
  BY <1>1, <1>2, <1>5, <1>6, DataStep
<1> QED BY <1>3, <1>7, <1>8 DEF UnitInv

(* Nothing is buffered, queued or on a lane. *)
IdleAnswers(u) ==
    /\ valid = [j \in 0..u.inputs-1 |-> FALSE] /\ cmd = None
    /\ IdleChannel(RP(u), RX) /\ r_pri = 0
    /\ due = [j \in 0..u.inputs-1 |-> <<>>] /\ owes = [k \in 0..u.outputs-1 |-> <<>>]

LEMMA IdleUnit ==
  ASSUME NEW u, Sizes(u)
  PROVE  IdleAnswers(u) => Answers(u)
<1> SUFFICES ASSUME IdleAnswers(u) PROVE Answers(u)
  OBVIOUS
<1> USE DEF IdleAnswers
<1>1. Router(u)!Answering = None
  BY DEF Router!Answering
<1>2. /\ \A k : ForSource(None, k) = <<>> /\ ForSink(None, k) = <<>>
      /\ \A j \in 0..u.inputs-1 : Buffered(j) = <<>>
  BY DEF ForSource, ForSink, Buffered
<1>3. /\ Params(RP(u)) /\ RP(u).sources = u.outputs /\ RP(u).sinks = u.inputs
      /\ 0 \in 0..u.outputs-1
  BY DEF Sizes, RP
<1>4. /\ ChannelInv(RP(u), RX, None)
      /\ \A s \in 0..u.outputs-1 : SourceWaits(RP(u), RX, s, <<>>, <<>>) = <<>>
      /\ \A k \in 0..u.inputs-1 : SinkWaits(RP(u), RX, k, <<>>, <<>>) = <<>>
  BY <1>3, Idle
<1> QED BY <1>1, <1>2, <1>3, <1>4 DEF Answers

IdleData(u) ==
    /\ valid = [j \in 0..u.inputs-1 |-> FALSE] /\ cmd = None
    /\ IdleChannel(WP(u), WX) /\ w_pri = 0
    /\ w_due = [j \in 0..u.inputs-1 |-> <<>>] /\ w_owes = [k \in 0..u.outputs-1 |-> <<>>]

LEMMA IdleWriter ==
  ASSUME NEW u, Sizes(u)
  PROVE  IdleData(u) => Data(u)
<1> SUFFICES ASSUME IdleData(u) PROVE Data(u)
  OBVIOUS
<1> USE DEF IdleData
<1>1. Router(u)!Writing = None
  BY DEF Router!Writing
<1>2. /\ \A k : ForSource(None, k) = <<>> /\ ForSink(None, k) = <<>>
      /\ \A j \in 0..u.inputs-1 : Buffered(j) = <<>>
  BY DEF ForSource, ForSink, Buffered
<1>3. /\ Params(WP(u)) /\ WP(u).sources = u.inputs /\ WP(u).sinks = u.outputs
      /\ 0 \in 0..u.inputs-1
  BY DEF Sizes, WP
<1>4. /\ ChannelInv(WP(u), WX, None)
      /\ \A s \in 0..u.inputs-1 : SourceWaits(WP(u), WX, s, <<>>, <<>>) = <<>>
      /\ \A k \in 0..u.outputs-1 : SinkWaits(WP(u), WX, k, <<>>, <<>>) = <<>>
  BY <1>3, Idle
<1> QED BY <1>1, <1>2, <1>3, <1>4 DEF Data

LEMMA InitUnit ==
  ASSUME NEW u, Sizes(u), Router(u)!Init
  PROVE  UnitInv(u)
<1>1. /\ valid = [j \in 0..u.inputs-1 |-> FALSE] /\ addr \in [0..u.inputs-1 -> 0..u.outputs-1]
      /\ pri = 0 /\ arb_out = None /\ cmd = None
      /\ out_valid = [k \in 0..u.outputs-1 |-> FALSE]
  BY DEF Router!Init, Router!Cmd!Init, Router!Cmd!Inputs, Router!Cmd!Outputs
<1>2. Router(u)!Cmd!IInv
  BY <1>1 DEF Router!Cmd!IInv, Router!Cmd!Inputs, Router!Cmd!Outputs, Sizes
<1>3. IdleChannel(RP(u), RX) /\ r_pri = 0
  BY DEF Router!Init, Router!R!Init, IdleChannel, RP, RX, Router!R!IdlePort, Ch!IdlePort,
         Router!R!Sources, Router!R!Sinks, Router!R!Lanes
<1>4. due = [j \in 0..u.inputs-1 |-> <<>>] /\ owes = [k \in 0..u.outputs-1 |-> <<>>]
  BY DEF Router!Init, Router!NoBursts, Router!Inputs, Router!Outputs, Router!Cmd!Inputs,
         Router!Cmd!Outputs
<1>5. Answers(u)
  BY <1>1, <1>3, <1>4, IdleUnit DEF IdleAnswers
<1>6. ASSUME u.write PROVE Data(u)
  <2>1. IdleChannel(WP(u), WX) /\ w_pri = 0
    BY <1>6 DEF Router!Init, Router!W!Init, IdleChannel, WP, WX, Router!W!IdlePort, Ch!IdlePort,
         Router!W!Sources, Router!W!Sinks, Router!W!Lanes
  <2>2. w_due = [j \in 0..u.inputs-1 |-> <<>>] /\ w_owes = [k \in 0..u.outputs-1 |-> <<>>]
    BY <1>6 DEF Router!Init, Router!NoBursts, Router!Inputs, Router!Outputs, Router!Cmd!Inputs,
         Router!Cmd!Outputs
  <2> QED BY <1>1, <2>1, <2>2, IdleWriter DEF IdleData
<1> QED BY <1>2, <1>5, <1>6 DEF UnitInv

LEMMA ResetUnit ==
  ASSUME NEW u, Sizes(u), UnitInv(u), Router(u)!Reset
  PROVE  UnitInv(u)'
<1>0. addr \in [0..u.inputs-1 -> 0..u.outputs-1]
  BY DEF UnitInv, Router!Cmd!IInv, Router!Cmd!Inputs, Router!Cmd!Outputs
<1>1. /\ valid' = [j \in 0..u.inputs-1 |-> FALSE] /\ addr' \in [0..u.inputs-1 -> 0..u.outputs-1]
      /\ pri' = 0 /\ arb_out' = None /\ cmd' = None
      /\ out_valid' = [k \in 0..u.outputs-1 |-> FALSE]
  BY <1>0 DEF Router!Reset, Router!Cmd!Reset, Router!Cmd!Inputs, Router!Cmd!Outputs
<1>2. Router(u)!Cmd!IInv'
  BY <1>1 DEF Router!Cmd!IInv, Router!Cmd!Inputs, Router!Cmd!Outputs, Sizes
<1>3. IdleChannel(RP(u), RX)' /\ r_pri' = 0
  BY DEF Router!Reset, Router!R!Reset, IdleChannel, RP, RX, Router!R!IdlePort, Ch!IdlePort,
         Router!R!Sources, Router!R!Sinks, Router!R!Lanes
<1>4. due' = [j \in 0..u.inputs-1 |-> <<>>] /\ owes' = [k \in 0..u.outputs-1 |-> <<>>]
  BY DEF Router!Reset, Router!NoBursts, Router!Inputs, Router!Outputs, Router!Cmd!Inputs,
         Router!Cmd!Outputs
<1>5. Answers(u)'
  <2>1. IdleAnswers(u)'
    BY <1>1, <1>3, <1>4 DEF IdleAnswers
  <2> QED BY <2>1, IdleUnit, PTL
<1>6. ASSUME u.write PROVE Data(u)'
  <2>1. IdleChannel(WP(u), WX)' /\ w_pri' = 0
    BY <1>6 DEF Router!Reset, Router!W!Reset, IdleChannel, WP, WX, Router!W!IdlePort, Ch!IdlePort,
         Router!W!Sources, Router!W!Sinks, Router!W!Lanes
  <2>2. w_due' = [j \in 0..u.inputs-1 |-> <<>>] /\ w_owes' = [k \in 0..u.outputs-1 |-> <<>>]
    BY <1>6 DEF Router!Reset, Router!NoBursts, Router!Inputs, Router!Outputs, Router!Cmd!Inputs,
         Router!Cmd!Outputs
  <2>3. IdleData(u)'
    BY <1>1, <2>1, <2>2 DEF IdleData
  <2> QED BY <2>3, IdleWriter, PTL
<1> QED BY <1>2, <1>5, <1>6 DEF UnitInv
--------------------------------------------------------------------------------
(* What the channels promise, in the words of AxiRouterChannel. *)
LEMMA RAgrees ==
  ASSUME NEW u, Sizes(u), NEW c, ChannelInv(RP(u), RX, c)
  PROVE  Router(u)!R!QueuesAgree /\ Router(u)!R!GrantsAgree
<1> DEFINE p == RP(u)
<1>1. /\ p.sources = u.outputs /\ p.sinks = u.inputs /\ p.mot = u.mot
      /\ RX.source = r_source /\ RX.sink = r_sink /\ RX.lane = r_lane
      /\ Router(u)!R!Sources = 0..u.outputs-1 /\ Router(u)!R!Sinks = 0..u.inputs-1
      /\ Router(u)!R!Lanes = 0..p.lanes-1
  BY DEF RP, RX, Router!R!Sources, Router!R!Sinks, Router!R!Lanes
<1>2. Ports(p, RX) /\ Connected(p, RX) /\ Bounded(p, RX) /\ Balanced(p, RX)
  BY DEF ChannelInv
<1> HIDE DEF p
<1>3. /\ \A s \in 0..u.outputs-1 : PortInv(r_source[s], u.inputs, p)
      /\ \A k \in 0..u.inputs-1 : PortInv(r_sink[k], u.outputs, p)
  BY <1>1, <1>2 DEF Ports
<1>4. /\ \A s \in 0..u.outputs-1 : Len(r_source[s].cmds) <= u.mot
      /\ \A k \in 0..u.inputs-1 : Len(r_sink[k].cmds) <= u.mot
  BY <1>1, <1>2 DEF Bounded
<1>5. \A q : Router(u)!R!Waiting(q) = Waiting(q)
  BY DEF Router!R!Waiting, Waiting
<1>9. \A y, q : Router(u)!R!Times(y, q) = Count(y, q)
  <2> TAKE y, q
  <2>1. Router(u)!R!Times(y, q) = Router(u)!R!Cardinality({i \in DOMAIN q : q[i] = y})
    BY DEF Router!R!Times
  <2>2. \A S : Router(u)!R!Cardinality(S) = Cardinality(S)
    BY DEF Router!R!Cardinality, Cardinality
  <2> QED BY <2>1, <2>2 DEF Count
<1>6. u.outputs > 1 /\ u.inputs > 1 =>
        \A s \in 0..u.outputs-1, k \in 0..u.inputs-1 :
            Count(k, Waiting(r_source[s])) = Count(s, Waiting(r_sink[k]))
  BY <1>1, <1>2 DEF Balanced
<1>7. Router(u)!R!QueuesAgree
  <2>1. /\ \A s \in 0..u.outputs-1 : r_source[s].pop => r_source[s].cmds # <<>>
        /\ \A k \in 0..u.inputs-1 : r_sink[k].pop => r_sink[k].cmds # <<>>
    BY <1>3 DEF PortInv
  <2>2. u.outputs > 1 /\ u.inputs > 1 =>
          \A s \in 0..u.outputs-1, k \in 0..u.inputs-1 :
              Router(u)!R!Times(k, Router(u)!R!Waiting(r_source[s]))
                = Router(u)!R!Times(s, Router(u)!R!Waiting(r_sink[k]))
    BY <1>5, <1>6, <1>9
  <2> QED BY <1>1, <1>4, <2>1, <2>2 DEF Router!R!QueuesAgree
<1>8. Router(u)!R!GrantsAgree
  BY <1>1, <1>2 DEF Router!R!GrantsAgree, Connected
<1> QED BY <1>7, <1>8

(* A beat on its way passes the lane that its source and its sink are on.  *)
LEMMA RPasses ==
  ASSUME NEW u, Sizes(u), NEW c, ChannelInv(RP(u), RX, c), NEW offer, NEW ready,
         NEW s \in 0..u.outputs-1, Router(u)!R!SourceBeat(s, offer, ready) # None
  PROVE  LET l == r_source[s].lane
             k == r_lane[l].sink
         IN  /\ k \in 0..u.inputs-1 /\ r_sink[k].lane = l
             /\ l # None /\ r_lane[l].source = s
             /\ Router(u)!R!SinkBeat(k, offer, ready) = Router(u)!R!SourceBeat(s, offer, ready)
<1> DEFINE p == RP(u)
           l == r_source[s].lane
           k == r_lane[l].sink
<1>1. /\ p.sources = u.outputs /\ p.sinks = u.inputs /\ Params(p)
      /\ RX.source = r_source /\ RX.sink = r_sink /\ RX.lane = r_lane
  BY DEF RP, RX, Sizes
<1>2. Ports(p, RX) /\ Connected(p, RX)
  BY DEF ChannelInv
<1>3. Router(u)!R!SourceBeat(s, offer, ready) = Ch(p, RX)!SourceBeat(s, offer, ready)
  BY RBeats
<1>4. \A i : Router(u)!R!SinkBeat(i, offer, ready) = Ch(p, RX)!SinkBeat(i, offer, ready)
  BY RBeats
<1> HIDE DEF p
<1>5. l # None
  <2>1. RX.source[s].lane # None
    BY <1>1, <1>3, BeatOnLane
  <2> QED BY <1>1, <2>1
<1>6. l \in 0..p.lanes-1 /\ r_lane[l] # None /\ r_lane[l].source = s
  BY <1>1, <1>2, <1>5 DEF Ports, PortInv, Connected
<1>7. k \in 0..u.inputs-1 /\ r_sink[k].lane = l
  BY <1>1, <1>2, <1>6 DEF Connected
<1> HIDE DEF l
<1>8. Ch(p, RX)!SinkBeat(k, offer, ready) = Ch(p, RX)!SourceBeat(s, offer, ready)
  <2>1. RX.lane[l] # None /\ RX.lane[l].source = s /\ RX.lane[l].sink = k
    BY <1>1, <1>6
  <2> HIDE DEF k
  <2> QED BY <1>1, <1>2, <1>6, <2>1, LaneBeats
<1>9. Router(u)!R!SinkBeat(k, offer, ready) = Router(u)!R!SourceBeat(s, offer, ready)
  BY <1>3, <1>4, <1>8
<1> QED BY <1>5, <1>6, <1>7, <1>9 DEF l, k

LEMMA WAgrees ==
  ASSUME NEW u, Sizes(u), NEW c, ChannelInv(WP(u), WX, c)
  PROVE  Router(u)!W!QueuesAgree /\ Router(u)!W!GrantsAgree
<1> DEFINE p == WP(u)
<1>1. /\ p.sources = u.inputs /\ p.sinks = u.outputs /\ p.mot = u.mot
      /\ WX.source = w_source /\ WX.sink = w_sink /\ WX.lane = w_lane
      /\ Router(u)!W!Sources = 0..u.inputs-1 /\ Router(u)!W!Sinks = 0..u.outputs-1
      /\ Router(u)!W!Lanes = 0..p.lanes-1
  BY DEF WP, WX, Router!W!Sources, Router!W!Sinks, Router!W!Lanes
<1>2. Ports(p, WX) /\ Connected(p, WX) /\ Bounded(p, WX) /\ Balanced(p, WX)
  BY DEF ChannelInv
<1> HIDE DEF p
<1>3. /\ \A s \in 0..u.inputs-1 : PortInv(w_source[s], u.outputs, p)
      /\ \A k \in 0..u.outputs-1 : PortInv(w_sink[k], u.inputs, p)
  BY <1>1, <1>2 DEF Ports
<1>4. /\ \A s \in 0..u.inputs-1 : Len(w_source[s].cmds) <= u.mot
      /\ \A k \in 0..u.outputs-1 : Len(w_sink[k].cmds) <= u.mot
  BY <1>1, <1>2 DEF Bounded
<1>5. \A q : Router(u)!W!Waiting(q) = Waiting(q)
  BY DEF Router!W!Waiting, Waiting
<1>9. \A y, q : Router(u)!W!Times(y, q) = Count(y, q)
  <2> TAKE y, q
  <2>1. Router(u)!W!Times(y, q) = Router(u)!W!Cardinality({i \in DOMAIN q : q[i] = y})
    BY DEF Router!W!Times
  <2>2. \A S : Router(u)!W!Cardinality(S) = Cardinality(S)
    BY DEF Router!W!Cardinality, Cardinality
  <2> QED BY <2>1, <2>2 DEF Count
<1>6. u.inputs > 1 /\ u.outputs > 1 =>
        \A s \in 0..u.inputs-1, k \in 0..u.outputs-1 :
            Count(k, Waiting(w_source[s])) = Count(s, Waiting(w_sink[k]))
  BY <1>1, <1>2 DEF Balanced
<1>7. Router(u)!W!QueuesAgree
  <2>1. /\ \A s \in 0..u.inputs-1 : w_source[s].pop => w_source[s].cmds # <<>>
        /\ \A k \in 0..u.outputs-1 : w_sink[k].pop => w_sink[k].cmds # <<>>
    BY <1>3 DEF PortInv
  <2>2. u.inputs > 1 /\ u.outputs > 1 =>
          \A s \in 0..u.inputs-1, k \in 0..u.outputs-1 :
              Router(u)!W!Times(k, Router(u)!W!Waiting(w_source[s]))
                = Router(u)!W!Times(s, Router(u)!W!Waiting(w_sink[k]))
    BY <1>5, <1>6, <1>9
  <2> QED BY <1>1, <1>4, <2>1, <2>2 DEF Router!W!QueuesAgree
<1>8. Router(u)!W!GrantsAgree
  BY <1>1, <1>2 DEF Router!W!GrantsAgree, Connected
<1> QED BY <1>7, <1>8

(* A beat on its way passes the lane that its source and its sink are on.  *)
LEMMA WPasses ==
  ASSUME NEW u, Sizes(u), NEW c, ChannelInv(WP(u), WX, c), NEW offer, NEW ready,
         NEW s \in 0..u.inputs-1, Router(u)!W!SourceBeat(s, offer, ready) # None
  PROVE  LET l == w_source[s].lane
             k == w_lane[l].sink
         IN  /\ k \in 0..u.outputs-1 /\ w_sink[k].lane = l
             /\ l # None /\ w_lane[l].source = s
             /\ Router(u)!W!SinkBeat(k, offer, ready) = Router(u)!W!SourceBeat(s, offer, ready)
<1> DEFINE p == WP(u)
           l == w_source[s].lane
           k == w_lane[l].sink
<1>1. /\ p.sources = u.inputs /\ p.sinks = u.outputs /\ Params(p)
      /\ WX.source = w_source /\ WX.sink = w_sink /\ WX.lane = w_lane
  BY DEF WP, WX, Sizes
<1>2. Ports(p, WX) /\ Connected(p, WX)
  BY DEF ChannelInv
<1>3. Router(u)!W!SourceBeat(s, offer, ready) = Ch(p, WX)!SourceBeat(s, offer, ready)
  BY WBeats
<1>4. \A i : Router(u)!W!SinkBeat(i, offer, ready) = Ch(p, WX)!SinkBeat(i, offer, ready)
  BY WBeats
<1> HIDE DEF p
<1>5. l # None
  <2>1. WX.source[s].lane # None
    BY <1>1, <1>3, BeatOnLane
  <2> QED BY <1>1, <2>1
<1>6. l \in 0..p.lanes-1 /\ w_lane[l] # None /\ w_lane[l].source = s
  BY <1>1, <1>2, <1>5 DEF Ports, PortInv, Connected
<1>7. k \in 0..u.outputs-1 /\ w_sink[k].lane = l
  BY <1>1, <1>2, <1>6 DEF Connected
<1> HIDE DEF l
<1>8. Ch(p, WX)!SinkBeat(k, offer, ready) = Ch(p, WX)!SourceBeat(s, offer, ready)
  <2>1. WX.lane[l] # None /\ WX.lane[l].source = s /\ WX.lane[l].sink = k
    BY <1>1, <1>6
  <2> HIDE DEF k
  <2> QED BY <1>1, <1>2, <1>6, <2>1, LaneBeats
<1>9. Router(u)!W!SinkBeat(k, offer, ready) = Router(u)!W!SourceBeat(s, offer, ready)
  BY <1>3, <1>4, <1>8
<1> QED BY <1>5, <1>6, <1>7, <1>9 DEF l, k

LEMMA UnitAgrees ==
  ASSUME NEW u, Sizes(u), UnitInv(u)
  PROVE  Router(u)!IInv
<1>1. Router(u)!Cmd!IInv /\ Answers(u) /\ (u.write => Data(u))
  BY DEF UnitInv
<1>2. Router(u)!R!QueuesAgree /\ Router(u)!R!GrantsAgree
  <2>1. ChannelInv(RP(u), RX, Router(u)!Answering)
    BY <1>1 DEF Answers
  <2> QED BY <2>1, RAgrees
<1>3. u.write => Router(u)!W!QueuesAgree /\ Router(u)!W!GrantsAgree
  <2> SUFFICES ASSUME u.write PROVE Router(u)!W!QueuesAgree /\ Router(u)!W!GrantsAgree
    OBVIOUS
  <2>1. ChannelInv(WP(u), WX, Router(u)!Writing)
    BY <1>1 DEF Data
  <2> QED BY <2>1, WAgrees
<1> QED BY <1>1, <1>2, <1>3 DEF Router!IInv

LEMMA AnswersRouted ==
  ASSUME NEW u, Sizes(u), Router(u)!Cmd!IInv, Answers(u), NEW ready,
         NEW s \in 0..u.outputs-1,
         Router(u)!R!SourceBeat(s, Router(u)!Valid(r_offer), ready) # None
  PROVE  LET k == r_lane[r_source[s].lane].sink IN
           /\ Router(u)!R!SinkBeat(k, Router(u)!Valid(r_offer), ready)
                 = Router(u)!R!SourceBeat(s, Router(u)!Valid(r_offer), ready)
           /\ owes[s] # <<>> /\ Head(owes[s]) = k
           /\ due[k] # <<>> /\ Head(due[k]) = s
<1> DEFINE p == RP(u)
           c == Router(u)!Answering
           offer == Router(u)!Valid(r_offer)
           l == r_source[s].lane
           k == r_lane[l].sink
<1>1. /\ p.sources = u.outputs /\ p.sinks = u.inputs /\ Params(p)
      /\ RX.source = r_source /\ RX.sink = r_sink /\ RX.lane = r_lane
  BY DEF RP, RX, Sizes
<1>2. ChannelInv(p, RX, c)
  BY DEF Answers
<1>3. /\ k \in 0..u.inputs-1 /\ r_sink[k].lane = l
      /\ l # None /\ r_lane[l].source = s
      /\ Router(u)!R!SinkBeat(k, offer, ready) = Router(u)!R!SourceBeat(s, offer, ready)
  <2> HIDE DEF c, offer
  <2>1. Router(u)!R!SourceBeat(s, offer, ready) # None
    BY DEF offer
  <2> QED BY <1>2, <2>1, RPasses
<1>4. \A j \in 0..u.inputs-1 : Buffered(j) \in Seq(0..u.outputs-1)
  <2> SUFFICES ASSUME NEW j \in 0..u.inputs-1 PROVE Buffered(j) \in Seq(0..u.outputs-1)
    OBVIOUS
  <2> DEFINE S == 0..u.outputs-1
  <2>1. addr[j] \in S
    BY DEF Router!Cmd!IInv, Router!Cmd!Inputs, Router!Cmd!Outputs
  <2> HIDE DEF S
  <2>2. Buffered(j) \in Seq(S)
    BY <2>1 DEF Buffered
  <2> QED BY <2>2 DEF S
<1>5. owes[s] # <<>> /\ Head(owes[s]) = k
  <2> DEFINE v == <<>>
  <2>1. v \in Seq(0..p.sinks-1) /\ s \in 0..p.sources-1
    BY <1>1, <1>4
  <2>2. owes[s] = SourceWaits(p, RX, s, ForSource(c, s), v)
    BY DEF Answers
  <2>3. RX.source[s].lane # None /\ RX.lane[RX.source[s].lane].sink = k
    BY <1>1, <1>3
  <2> HIDE DEF p, c, v, k, l
  <2> QED BY <1>1, <1>2, <2>1, <2>2, <2>3, SourceWaitsFor
<1>6. due[k] # <<>> /\ Head(due[k]) = s
  <2> DEFINE v == Buffered(k)
  <2>1. v \in Seq(0..p.sources-1) /\ k \in 0..p.sinks-1
    BY <1>1, <1>3, <1>4
  <2>2. due[k] = SinkWaits(p, RX, k, ForSink(c, k), v)
    BY <1>3 DEF Answers
  <2>3. RX.sink[k].lane # None /\ RX.lane[RX.sink[k].lane].source = s
    BY <1>1, <1>3
  <2> HIDE DEF p, c, v, k, l
  <2> QED BY <1>1, <1>2, <2>1, <2>2, <2>3, SinkWaitsFor
<1> QED BY <1>3, <1>5, <1>6 DEF offer, l, k

LEMMA DataRouted ==
  ASSUME NEW u, Sizes(u), Router(u)!Cmd!IInv, Data(u), NEW ready,
         NEW s \in 0..u.inputs-1,
         Router(u)!W!SourceBeat(s, Router(u)!Valid(w_offer), ready) # None
  PROVE  LET k == w_lane[w_source[s].lane].sink IN
           /\ Router(u)!W!SinkBeat(k, Router(u)!Valid(w_offer), ready)
                 = Router(u)!W!SourceBeat(s, Router(u)!Valid(w_offer), ready)
           /\ w_due[s] # <<>> /\ Head(w_due[s]) = k
           /\ w_owes[k] # <<>> /\ Head(w_owes[k]) = s
<1> DEFINE p == WP(u)
           c == Router(u)!Writing
           offer == Router(u)!Valid(w_offer)
           l == w_source[s].lane
           k == w_lane[l].sink
<1>1. /\ p.sources = u.inputs /\ p.sinks = u.outputs /\ Params(p)
      /\ WX.source = w_source /\ WX.sink = w_sink /\ WX.lane = w_lane
  BY DEF WP, WX, Sizes
<1>2. ChannelInv(p, WX, c)
  BY DEF Data
<1>3. /\ k \in 0..u.outputs-1 /\ w_sink[k].lane = l
      /\ l # None /\ w_lane[l].source = s
      /\ Router(u)!W!SinkBeat(k, offer, ready) = Router(u)!W!SourceBeat(s, offer, ready)
  <2> HIDE DEF c, offer
  <2>1. Router(u)!W!SourceBeat(s, offer, ready) # None
    BY DEF offer
  <2> QED BY <1>2, <2>1, WPasses
<1>4. \A j \in 0..u.inputs-1 : Buffered(j) \in Seq(0..u.outputs-1)
  <2> SUFFICES ASSUME NEW j \in 0..u.inputs-1 PROVE Buffered(j) \in Seq(0..u.outputs-1)
    OBVIOUS
  <2> DEFINE S == 0..u.outputs-1
  <2>1. addr[j] \in S
    BY DEF Router!Cmd!IInv, Router!Cmd!Inputs, Router!Cmd!Outputs
  <2> HIDE DEF S
  <2>2. Buffered(j) \in Seq(S)
    BY <2>1 DEF Buffered
  <2> QED BY <2>2 DEF S
<1>5. w_due[s] # <<>> /\ Head(w_due[s]) = k
  <2> DEFINE v == Buffered(s)
  <2>1. v \in Seq(0..p.sinks-1) /\ s \in 0..p.sources-1
    BY <1>1, <1>4
  <2>2. w_due[s] = SourceWaits(p, WX, s, ForSource(c, s), v)
    BY DEF Data
  <2>3. WX.source[s].lane # None /\ WX.lane[WX.source[s].lane].sink = k
    BY <1>1, <1>3
  <2> HIDE DEF p, c, v, k, l
  <2> QED BY <1>1, <1>2, <2>1, <2>2, <2>3, SourceWaitsFor
<1>6. w_owes[k] # <<>> /\ Head(w_owes[k]) = s
  <2> DEFINE v == <<>>
  <2>1. v \in Seq(0..p.sources-1) /\ k \in 0..p.sinks-1
    BY <1>1, <1>3, <1>4
  <2>2. w_owes[k] = SinkWaits(p, WX, k, ForSink(c, k), v)
    BY <1>3 DEF Data
  <2>3. WX.sink[k].lane # None /\ WX.lane[WX.sink[k].lane].source = s
    BY <1>1, <1>3
  <2> HIDE DEF p, c, v, k, l
  <2> QED BY <1>1, <1>2, <2>1, <2>2, <2>3, SinkWaitsFor
<1> QED BY <1>3, <1>5, <1>6 DEF offer, l, k

LEMMA UnitRoutes ==
  ASSUME NEW u, Sizes(u), UnitInv(u)
  PROVE  Router(u)!Routed
<1>1. Router(u)!Cmd!IInv /\ Answers(u) /\ (u.write => Data(u))
  BY DEF UnitInv
<1>2. Router(u)!Outputs = 0..u.outputs-1 /\ Router(u)!Inputs = 0..u.inputs-1
  BY DEF Router!Outputs, Router!Inputs, Router!Cmd!Outputs, Router!Cmd!Inputs
<1> DEFINE FromTo(offer, k, ready) ==
      LET j == r_lane[r_source[k].lane].sink IN
        /\ Router(u)!R!SinkBeat(j, offer, ready) = Router(u)!R!SourceBeat(k, offer, ready)
        /\ owes[k] # <<>> /\ Head(owes[k]) = j
        /\ due[j] # <<>> /\ Head(due[j]) = k
      DataFromTo(offer, j, ready) ==
      LET k == w_lane[w_source[j].lane].sink IN
        /\ Router(u)!W!SinkBeat(k, offer, ready) = Router(u)!W!SourceBeat(j, offer, ready)
        /\ w_owes[k] # <<>> /\ Head(w_owes[k]) = j
        /\ w_due[j] # <<>> /\ Head(w_due[j]) = k
<1>3. ASSUME NEW ready, NEW k \in 0..u.outputs-1,
             Router(u)!R!SourceBeat(k, Router(u)!Valid(r_offer), ready) # None
      PROVE  FromTo(Router(u)!Valid(r_offer), k, ready)
  BY <1>1, <1>3, AnswersRouted
<1>4. ASSUME u.write, NEW ready, NEW j \in 0..u.inputs-1,
             Router(u)!W!SourceBeat(j, Router(u)!Valid(w_offer), ready) # None
      PROVE  DataFromTo(Router(u)!Valid(w_offer), j, ready)
  BY <1>1, <1>4, DataRouted
<1> QED BY <1>2, <1>3, <1>4, Zenon DEF Router!Routed
--------------------------------------------------------------------------------
(* The inductive invariant of any set of routers. *)
Inv == unit \in Units /\ \A u \in Units : unit = u => UnitInv(u)

LEMMA InitInv ==
  Init => Inv
BY UnitSizes, InitUnit DEF Init, Inv

LEMMA UnitStep ==
  ASSUME NEW u, Sizes(u), UnitInv(u), Router(u)!Next
  PROVE  UnitInv(u)'
<1>1. CASE Router(u)!Edge
  <2>1. PICK in_addr \in Router(u)!Commands,
             aw_ready \in SUBSET {k \in Router(u)!Outputs : out_valid[k]},
             r_ready \in SUBSET Router(u)!Open(r_sink), w_ready \in Router(u)!WriteReady :
               Router(u)!Clk(in_addr, aw_ready, r_ready, w_ready)
    BY <1>1 DEF Router!Edge
  <2>2. in_addr \in [0..u.inputs-1 -> 0..u.outputs-1 \cup {None}]
    BY DEF Router!Commands, Router!Inputs, Router!Outputs, Router!Cmd!Inputs, Router!Cmd!Outputs
  <2> QED BY <2>1, <2>2, EdgeStep
<1>2. CASE Router(u)!Reset
  BY <1>2, ResetUnit
<1> QED BY <1>1, <1>2 DEF Router!Next

(* A cycle in which everybody does his part is one of those of Edge. *)
LEMMA FlowIsEdge ==
  ASSUME NEW u, Router(u)!Flow
  PROVE  Router(u)!Edge
<1> DEFINE aw == {k \in Router(u)!Outputs : out_valid[k]}
           w == IF u.write THEN Router(u)!Open(w_sink) ELSE {}
<1>1. PICK in_addr \in Router(u)!Commands :
         Router(u)!Clk(in_addr, aw, Router(u)!Open(r_sink), w)
  BY DEF Router!Flow
<1>2. aw \in SUBSET {k \in Router(u)!Outputs : out_valid[k]}
  OBVIOUS
<1>3. w \in Router(u)!WriteReady
  BY DEF Router!WriteReady
<1>4. Router(u)!Open(r_sink) \in SUBSET Router(u)!Open(r_sink)
  OBVIOUS
<1> QED BY <1>1, <1>2, <1>3, <1>4 DEF Router!Edge

LEMMA UnitStutter ==
  ASSUME NEW u, UnitInv(u), UNCHANGED vars
  PROVE  UnitInv(u)'
<1>1. /\ RX' = RX /\ WX' = WX /\ Router(u)!Answering' = Router(u)!Answering
      /\ Router(u)!Writing' = Router(u)!Writing /\ \A j : Buffered(j)' = Buffered(j)
  BY DEF vars, regs, RX, WX, Router!Answering, Router!Writing, Buffered
<1>2. Router(u)!Cmd!IInv'
  BY DEF vars, regs, UnitInv, Router!Cmd!IInv
<1>3. Answers(u)'
  BY <1>1 DEF vars, regs, UnitInv, Answers
<1>4. u.write => Data(u)'
  BY <1>1 DEF vars, regs, UnitInv, Data
<1> QED BY <1>2, <1>3, <1>4 DEF UnitInv

LEMMA NextInv ==
  Inv /\ [Next]_vars => Inv'
<1> SUFFICES ASSUME Inv, [Next]_vars PROVE Inv'
  OBVIOUS
<1>1. unit \in Units /\ unit' = unit
  BY DEF Inv, Next, vars
<1>2. ASSUME NEW u \in Units, unit = u PROVE UnitInv(u)'
  <2>1. UnitInv(u) /\ Sizes(u)
    BY <1>2, UnitSizes DEF Inv
  <2>2. CASE Next
    <3>1. Router(u)!Next
      BY <1>2, <2>2, FlowIsEdge DEF Next, Router!Next
    <3> QED BY <2>1, <3>1, UnitStep
  <2>3. CASE UNCHANGED vars
    BY <2>1, <2>3, UnitStutter
  <2> QED BY <2>2, <2>3
<1> QED BY <1>1, <1>2 DEF Inv

(* Whatever the numbers of masters, slaves, lanes and bursts, and through  *)
(* resets: the queues of the two sides of each channel hold the same       *)
(* commands, none overflows or is popped when empty, source, lane and sink *)
(* agree on every burst, and the command path never forwards an empty      *)
(* buffer.                                                                 *)
THEOREM Agreement == Spec => []IInv
<1>1. Inv => IInv
  BY UnitSizes, UnitAgrees DEF Inv, IInv
<1> QED BY <1>1, InitInv, NextInv, PTL DEF Spec

(* Every beat goes from the port that has to send it next to the port that *)
(* waits for one from there, in the order of the commands of both.         *)
THEOREM Routing == Spec => []Routed
<1>1. Inv => Routed
  BY UnitSizes, UnitRoutes DEF Inv, Routed
<1> QED BY <1>1, InitInv, NextInv, PTL DEF Spec
================================================================================
