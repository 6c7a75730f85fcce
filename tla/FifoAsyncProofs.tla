------------------------------ MODULE FifoAsyncProofs ------------------------------
(***************************************************************************)
(* What is proved of dlsc_fifo_async, for every depth, threshold, set of   *)
(* words and variant of the flags: pointers cross the domains cleanly,     *)
(* flags and counts are safe, a word is in memory before it is visible,    *)
(* and the FIFO is a channel.                                              *)
(*                                                                         *)
(* First the arithmetic of the pointers, then the Gray code, then the      *)
(* invariant.  Induction over the natural numbers is that of the smallest  *)
(* counterexample, which the well-foundedness of < provides.               *)
(***************************************************************************)
EXTENDS MCFifoAsync, Integers, FiniteSets, FiniteSetTheorems, Functions, FunctionTheorems,
        SequenceTheorems, WellFoundedInduction, TLAPS

(* A set of numbers with zero and the successor of each of its members     *)
(* holds all numbers.                                                      *)
LEMMA Induction ==
    ASSUME NEW T, T \subseteq Nat, 0 \in T, \A n \in T : n + 1 \in T
    PROVE  T = Nat
<1> DEFINE Less == OpToRel(<, Nat)
<1> SUFFICES ASSUME Nat \ T # {} PROVE FALSE
    OBVIOUS
<1>1. PICK m \in Nat \ T : \A y \in Nat \ T : ~(<<y, m>> \in Less)
    <2>1. Nat \ T \subseteq Nat
        OBVIOUS
    <2> QED BY <2>1, NatLessThanWellFounded, WFMin, Zenon
<1>2. m # 0 /\ m - 1 \in Nat
    OBVIOUS
<1>3. <<m - 1, m>> \in Less
    BY <1>2 DEF OpToRel
<1>4. m - 1 \in T
    BY <1>1, <1>2, <1>3
<1>5. m - 1 + 1 \in T
    BY <1>4
<1>6. m - 1 + 1 = m
    BY <1>2
<1> QED BY <1>1, <1>5, <1>6

(* The powers of two: the number of subsets of 1..n, which doubles with    *)
(* every element.                                                          *)
LEMMA Subsets ==
    ASSUME NEW n \in Nat
    PROVE  /\ IsFiniteSet(SUBSET (1..n))
           /\ Cardinality(SUBSET (1..n)) = 2^n
           /\ 2^n \in Nat /\ 2^n > 0
<1>1. IsFiniteSet(1..n) /\ Cardinality(1..n) = n
    BY FS_Interval
<1>2. IsFiniteSet(SUBSET (1..n)) /\ Cardinality(SUBSET (1..n)) = 2^n
    BY <1>1, FS_SUBSET
<1>3. SUBSET (1..n) # {}
    OBVIOUS
<1> QED BY <1>2, <1>3, FS_CardinalityType, FS_EmptySet

LEMMA Powers ==
    ASSUME NEW n \in Nat
    PROVE  /\ 2^n \in Nat /\ 2^n > 0
           /\ 2^(n + 1) = 2 * 2^n
<1> DEFINE S == SUBSET (1..n)
           m == n + 1
           T == {A \cup {m} : A \in S}
           f == [A \in S |-> A \cup {m}]
<1>1. m \in Nat /\ m \notin 1..n /\ 1..m = (1..n) \cup {m}
    OBVIOUS
<1>2. SUBSET (1..m) = S \cup T
    <2>1. ASSUME NEW B \in SUBSET (1..m), m \in B PROVE B \in T
        <3>1. B \ {m} \in S /\ B = (B \ {m}) \cup {m}
            BY <1>1, <2>1
        <3> QED BY <3>1
    <2>2. ASSUME NEW B \in SUBSET (1..m), m \notin B PROVE B \in S
        BY <1>1, <2>2
    <2>3. T \subseteq SUBSET (1..m) /\ S \subseteq SUBSET (1..m)
        BY <1>1
    <2> QED BY <2>1, <2>2, <2>3
<1>3. S \cap T = {}
    BY <1>1
<1>4. f \in Bijection(S, T)
    <2>1. f \in [S -> T]
        OBVIOUS
    <2>2. \A A, B \in S : f[A] = f[B] => A = B
        <3> SUFFICES ASSUME NEW A \in S, NEW B \in S, A \cup {m} = B \cup {m}
                     PROVE  A = B
            OBVIOUS
        <3>1. m \notin A /\ m \notin B
            BY <1>1
        <3> QED BY <3>1
    <2>3. \A t \in T : \E A \in S : f[A] = t
        OBVIOUS
    <2> QED BY <2>1, <2>2, <2>3 DEF Bijection, Injection, Surjection, IsInjective
<1>5. IsFiniteSet(S) /\ Cardinality(S) = 2^n /\ 2^n \in Nat /\ 2^n > 0
    BY Subsets
<1>6. IsFiniteSet(T) /\ Cardinality(T) = 2^n
    BY <1>4, <1>5, FS_Bijection DEF ExistsBijection
<1>7. Cardinality(SUBSET (1..m)) = 2^m
    BY <1>1, Subsets
<1>8. Cardinality(S \cup T) = 2^n + 2^n - Cardinality({})
    <2> HIDE DEF S, T, f
    <2> QED BY <1>3, <1>5, <1>6, FS_Union
<1>9. Cardinality({}) = 0
    BY FS_EmptySet
<1>10. 2^m = 2^n + 2^n - Cardinality({})
    <2> HIDE DEF S, T, m
    <2> QED BY <1>2, <1>7, <1>8, Zenon
<1> QED BY <1>5, <1>9, <1>10

LEMMA Quotient ==
    ASSUME NEW p \in Nat, NEW k \in Nat, k > 0
    PROVE  p \div k \in Nat /\ p % k \in 0..k-1 /\ p = k * (p \div k) + (p % k)
OBVIOUS

LEMMA QuotientUnique ==
    ASSUME NEW p \in Nat, NEW k \in Nat, k > 0, NEW q \in Int, NEW r \in 0..k-1, p = k * q + r
    PROVE  p \div k = q /\ p % k = r
<1> DEFINE a == p \div k
           b == p % k
<1>1. a \in Nat /\ b \in 0..k-1 /\ p = k * a + b
    BY Quotient
<1> HIDE DEF a, b
<1>2. k * (a - q) = r - b
    BY <1>1
<1>3. a - q = 0
    <2>1. CASE a - q >= 1
        <3>1. k * (a - q) >= k
            BY <1>1, <2>1
        <3> QED BY <3>1, <1>1, <1>2
    <2>2. CASE a - q <= -1
        <3>1. k * (a - q) <= -k
            BY <1>1, <2>2
        <3> QED BY <3>1, <1>1, <1>2
    <2> QED BY <1>1, <2>1, <2>2
<1>4. a = q /\ b = r
    BY <1>1, <1>2, <1>3
<1> QED BY <1>4 DEF a, b

LEMMA Halved ==
    ASSUME NEW p \in Nat, NEW k \in Nat, k > 0
    PROVE  p \div (2 * k) = (p \div k) \div 2
<1> DEFINE a == p \div k
           r == p % k
           b == a \div 2
           s == a % 2
<1>1. a \in Nat /\ r \in 0..k-1 /\ p = k * a + r
    BY Quotient
<1>2. b \in Nat /\ s \in 0..1 /\ a = 2 * b + s
    <2> HIDE DEF a
    <2> QED BY <1>1
<1> HIDE DEF a, b, r, s
<1>3. p = (2 * k) * b + (k * s + r)
    BY <1>1, <1>2
<1>4. k * s + r \in 0..(2*k - 1)
    BY <1>1, <1>2
<1>5. 2 * k \in Nat /\ 2 * k > 0
    OBVIOUS
<1>6. p \div (2 * k) = b
    BY <1>2, <1>3, <1>4, <1>5, QuotientUnique
<1> QED BY <1>6 DEF a, b

LEMMA Successor ==
    ASSUME NEW p \in Nat, NEW k \in Nat, k > 0
    PROVE  \/ (p + 1) % k = 0 /\ (p + 1) \div k = p \div k + 1
           \/ (p + 1) % k # 0 /\ (p + 1) \div k = p \div k
<1> DEFINE a == p \div k
           r == p % k
<1>1. a \in Nat /\ r \in 0..k-1 /\ p = k * a + r
    BY Quotient
<1> HIDE DEF a, r
<1>2. CASE r = k - 1
    <2>1. p + 1 = k * (a + 1) + 0
        BY <1>1, <1>2
    <2>2. (p + 1) \div k = a + 1 /\ (p + 1) % k = 0
        BY <1>1, <2>1, QuotientUnique
    <2> QED BY <2>2 DEF a
<1>3. CASE r # k - 1
    <2>1. p + 1 = k * a + (r + 1) /\ r + 1 \in 0..k-1
        BY <1>1, <1>3
    <2>2. (p + 1) \div k = a /\ (p + 1) % k = r + 1
        BY <1>1, <2>1, QuotientUnique
    <2> QED BY <1>1, <2>2 DEF a
<1> QED BY <1>2, <1>3

(* A larger power of two is an even multiple of a smaller one. *)
LEMMA PowersDivide ==
    ASSUME NEW i \in Nat, NEW n \in Nat
    PROVE  \E c \in Nat : 2^(i + 1 + n) = (2 * c) * 2^i
<1> DEFINE T == {m \in Nat : \E c \in Nat : 2^(i + 1 + m) = (2 * c) * 2^i}
<1>1. 0 \in T
    <2>1. i + 1 + 0 = i + 1 /\ 2^(i + 1) = (2 * 1) * 2^i
        BY Powers
    <2> QED BY <2>1
<1>2. ASSUME NEW m \in T PROVE m + 1 \in T
    <2>1. PICK c \in Nat : 2^(i + 1 + m) = (2 * c) * 2^i
        OBVIOUS
    <2>2. i + 1 + m \in Nat /\ i + 1 + (m + 1) = (i + 1 + m) + 1
        OBVIOUS
    <2>3. 2^(i + 1 + (m + 1)) = 2 * 2^(i + 1 + m)
        BY <2>2, Powers
    <2>4. 2^i \in Nat /\ 2 * c \in Nat
        BY Powers
    <2>5. 2^(i + 1 + (m + 1)) = (2 * (2 * c)) * 2^i
        BY <2>1, <2>3, <2>4
    <2>6. m + 1 \in Nat
        OBVIOUS
    <2> QED BY <2>4, <2>5, <2>6
<1>3. T \subseteq Nat
    OBVIOUS
<1>4. T = Nat
    <2> HIDE DEF T
    <2> QED BY <1>1, <1>2, <1>3, Induction
<1>5. n \in T
    <2> HIDE DEF T
    <2> QED BY <1>4
<1> QED BY <1>5
--------------------------------------------------------------------------------
(* The bits of a pointer and its Gray code. *)

LEMMA Sizes ==
    ASSUME NEW u \in Units
    PROVE  /\ u.addr \in Nat
           /\ Fifo(u)!DEPTH = 2^u.addr
           /\ Fifo(u)!DEPTH \in Nat /\ Fifo(u)!DEPTH > 0
           /\ Fifo(u)!SIZE = 2 * Fifo(u)!DEPTH
           /\ Fifo(u)!SIZE = 2^(u.addr + 1)
           /\ Fifo(u)!Ptr = 0..Fifo(u)!SIZE-1
           /\ Fifo(u)!Bits = 0..u.addr
<1>1. u.addr \in Nat
    BY UnitsAllowed DEF UnitsAssumption, Fifo!FifoAsyncAssumption
<1> QED BY <1>1, Powers DEF Fifo!DEPTH, Fifo!SIZE, Fifo!Ptr, Fifo!Bits

(* Bit i + 1 of a number is the next bit of its quotient by 2^i. *)
LEMMA BitIs ==
    ASSUME NEW u \in Units, NEW p \in Nat, NEW i \in Nat
    PROVE  /\ p \div 2^i \in Nat
           /\ Fifo(u)!BitOf(p, i) = (p \div 2^i) % 2
           /\ Fifo(u)!BitOf(p, i + 1) = ((p \div 2^i) \div 2) % 2
           /\ Fifo(u)!BitOf(p, i) \in 0..1
           /\ p \div 2^(i + 1) = (p \div 2^i) \div 2
<1>1. 2^i \in Nat /\ 2^i > 0 /\ 2^(i + 1) = 2 * 2^i
    BY Powers
<1>2. p \div 2^i \in Nat
    BY <1>1, Quotient
<1>3. p \div 2^(i + 1) = (p \div 2^i) \div 2
    BY <1>1, Halved
<1>4. (p \div 2^i) % 2 \in 0..1
    BY <1>2
<1> QED BY <1>2, <1>3, <1>4 DEF Fifo!BitOf

(* Bit i of the Gray code. *)
LEMMA GrayBit ==
    ASSUME NEW u \in Units, NEW p \in Nat, NEW i \in Fifo(u)!Bits
    PROVE  /\ Fifo(u)!BinToGray(p)[i] = (((p \div 2^i) % 2) + (((p \div 2^i) \div 2) % 2)) % 2
           /\ p \div 2^i \in Nat
<1>1. i \in Nat
    BY Sizes
<1> QED BY <1>1, BitIs DEF Fifo!BinToGray

LEMMA GrayWord ==
    ASSUME NEW u \in Units, NEW p \in Nat
    PROVE  Fifo(u)!BinToGray(p) \in Fifo(u)!Words
<1>1. ASSUME NEW i \in Fifo(u)!Bits PROVE Fifo(u)!BinToGray(p)[i] \in {0, 1}
    <2>1. \A h \in Nat : ((h % 2) + ((h \div 2) % 2)) % 2 \in {0, 1}
        OBVIOUS
    <2> QED BY <2>1, GrayBit
<1> QED BY <1>1 DEF Fifo!BinToGray, Fifo!Words

(* Where the codes of p and p + 1 differ, p + 1 is an odd multiple of 2^i. *)
LEMMA GrayChange ==
    ASSUME NEW u \in Units, NEW p \in Nat, NEW i \in Fifo(u)!Bits,
           Fifo(u)!BinToGray(p)[i] # Fifo(u)!BinToGray(p + 1)[i]
    PROVE  \E a \in Nat : p + 1 = (2 * a + 1) * 2^i
<1>1. i \in Nat /\ 2^i \in Nat /\ 2^i > 0
    BY Sizes, Powers
<1> DEFINE h == p \div 2^i
           k == (p + 1) \div 2^i
<1>2. h \in Nat /\ k \in Nat
    BY GrayBit
<1>3. ((h % 2) + ((h \div 2) % 2)) % 2 # ((k % 2) + ((k \div 2) % 2)) % 2
    BY GrayBit
<1>4. (p + 1) % 2^i = 0 /\ k = h + 1
    <2>1. h # k
        BY <1>3
    <2> QED BY <1>1, <2>1, Successor
<1>5. p + 1 = k * 2^i
    <2>1. p + 1 = 2^i * k + ((p + 1) % 2^i)
        BY <1>1, Quotient
    <2> HIDE DEF k
    <2> QED BY <1>1, <1>2, <1>4, <2>1
<1> HIDE DEF h, k
<1>6. k % 2 = 1
    BY <1>2, <1>3, <1>4
<1>7. k \div 2 \in Nat /\ k = 2 * (k \div 2) + 1
    BY <1>2, <1>6
<1> QED BY <1>5, <1>7

(* No number is an odd multiple of two powers of two. *)
LEMMA OddMultiple ==
    ASSUME NEW i \in Nat, NEW j \in Nat, NEW a \in Nat, NEW b \in Nat, i < j
    PROVE  (2 * a + 1) * 2^i # (2 * b + 1) * 2^j
<1>1. j - i - 1 \in Nat /\ j = i + 1 + (j - i - 1)
    OBVIOUS
<1>2. PICK c \in Nat : 2^j = (2 * c) * 2^i
    <2>1. \E c \in Nat : 2^(i + 1 + (j - i - 1)) = (2 * c) * 2^i
        BY <1>1, PowersDivide
    <2>2. 2^(i + 1 + (j - i - 1)) = 2^j
        BY <1>1
    <2> QED BY <2>1, <2>2, Zenon
<1>3. 2^i \in Nat /\ 2^i > 0
    BY Powers
<1> SUFFICES ASSUME (2 * a + 1) * 2^i = (2 * b + 1) * ((2 * c) * 2^i) PROVE FALSE
    BY <1>2
<1>4. \A m \in Nat : m > 0 /\ (2 * a + 1) * m = (2 * b + 1) * ((2 * c) * m) => FALSE
    <2> SUFFICES ASSUME NEW m \in Nat, m > 0, (2 * a + 1) * m = (2 * b + 1) * ((2 * c) * m)
                 PROVE  FALSE
        OBVIOUS
    <2>1. (2 * a + 1) * m = (2 * ((2 * b + 1) * c)) * m
        OBVIOUS
    <2>2. 2 * a + 1 = 2 * ((2 * b + 1) * c)
        <3> DEFINE x == 2 * a + 1
                   y == 2 * ((2 * b + 1) * c)
        <3>1. x \in Nat /\ y \in Nat
            OBVIOUS
        <3>2. x * m = y * m
            BY <2>1
        <3> HIDE DEF x, y
        <3>3. x = y
            BY <3>1, <3>2
        <3> QED BY <3>3 DEF x, y
    <2>3. (2 * b + 1) * c \in Nat
        OBVIOUS
    <2> QED BY <2>2, <2>3
<1> QED BY <1>3, <1>4

(* Two words that differ in one bit at most: a receiver that samples while *)
(* one replaces the other reads one of them.                               *)
LEMMA OneBitApart ==
    ASSUME NEW u \in Units, NEW v \in Fifo(u)!Words, NEW w \in Fifo(u)!Words,
           \A i, j \in Fifo(u)!Bits : v[i] # w[i] /\ v[j] # w[j] => i = j
    PROVE  Fifo(u)!Sampled(v, w) = {v, w}
<1>1. ASSUME NEW x \in Fifo(u)!Sampled(v, w), x # v
      PROVE  x = w
    <2>1. x \in Fifo(u)!Words /\ \A i \in Fifo(u)!Bits : x[i] \in {v[i], w[i]}
        BY DEF Fifo!Sampled
    <2>2. PICK i \in Fifo(u)!Bits : x[i] # v[i]
        BY <1>1, <2>1 DEF Fifo!Words
    <2>3. \A j \in Fifo(u)!Bits : x[j] = w[j]
        BY <2>1, <2>2
    <2> QED BY <2>1, <2>3 DEF Fifo!Words
<1>2. v \in Fifo(u)!Sampled(v, w) /\ w \in Fifo(u)!Sampled(v, w)
    BY DEF Fifo!Sampled
<1> QED BY <1>1, <1>2

LEMMA SampledSame ==
    ASSUME NEW u \in Units, NEW v \in Fifo(u)!Words
    PROVE  Fifo(u)!Sampled(v, v) = {v}
<1>1. Fifo(u)!Sampled(v, v) = {v, v}
    BY OneBitApart, Zenon
<1> QED BY <1>1

(* The codes of successive numbers differ in one bit. *)
LEMMA GrayNext ==
    ASSUME NEW u \in Units, NEW p \in Nat
    PROVE  \A i, j \in Fifo(u)!Bits :
               /\ Fifo(u)!BinToGray(p)[i] # Fifo(u)!BinToGray(p + 1)[i]
               /\ Fifo(u)!BinToGray(p)[j] # Fifo(u)!BinToGray(p + 1)[j]
               => i = j
<1> SUFFICES ASSUME NEW i \in Fifo(u)!Bits, NEW j \in Fifo(u)!Bits,
                    Fifo(u)!BinToGray(p)[i] # Fifo(u)!BinToGray(p + 1)[i],
                    Fifo(u)!BinToGray(p)[j] # Fifo(u)!BinToGray(p + 1)[j]
             PROVE  i = j
    OBVIOUS
<1>1. PICK a \in Nat : p + 1 = (2 * a + 1) * 2^i
    BY GrayChange
<1>2. PICK b \in Nat : p + 1 = (2 * b + 1) * 2^j
    BY GrayChange
<1>3. i \in Nat /\ j \in Nat
    BY Sizes
<1>4. ~(i < j)
    BY <1>1, <1>2, <1>3, OddMultiple
<1>5. ~(j < i)
    BY <1>1, <1>2, <1>3, OddMultiple
<1> QED BY <1>3, <1>4, <1>5

LEMMA GrayZero ==
    ASSUME NEW u \in Units, NEW i \in Fifo(u)!Bits
    PROVE  Fifo(u)!BinToGray(0)[i] = 0
<1>1. i \in Nat /\ 2^i \in Nat /\ 2^i > 0
    BY Sizes, Powers
<1>2. 0 \div 2^i = 0
    <2>1. 0 = 2^i * 0 + 0 /\ 0 \in 0..2^i-1
        BY <1>1
    <2> QED BY <1>1, <2>1, QuotientUnique
<1>3. Fifo(u)!BinToGray(0)[i] = ((0 % 2) + ((0 \div 2) % 2)) % 2
    <2>1. 0 \in Nat
        OBVIOUS
    <2> QED BY <1>2, <2>1, GrayBit, Zenon
<1> QED BY <1>3

(* Of the last code before the pointer wraps only the top bit is set. *)
LEMMA GrayLast ==
    ASSUME NEW u \in Units, NEW i \in Fifo(u)!Bits,
           Fifo(u)!BinToGray(Fifo(u)!SIZE - 1)[i] # 0
    PROVE  i = u.addr
<1> DEFINE N == Fifo(u)!SIZE
<1>1. N \in Nat /\ N - 1 \in Nat /\ N = 2^(u.addr + 1) /\ u.addr \in Nat /\ i \in 0..u.addr
    BY Sizes
<1> SUFFICES ASSUME i < u.addr PROVE FALSE
    BY <1>1
<1>2. 2^i \in Nat /\ 2^i > 0
    BY <1>1, Powers
<1>3. PICK c \in Nat : N = (2 * (2 * c)) * 2^i
    <2> DEFINE m == u.addr - i - 1
    <2>1. m \in Nat /\ i \in Nat /\ i + 1 + m = u.addr
        BY <1>1
    <2> HIDE DEF m
    <2>2. PICK c \in Nat : 2^(i + 1 + m) = (2 * c) * 2^i
        BY <2>1, PowersDivide, Zenon
    <2>3. 2^u.addr = (2 * c) * 2^i
        BY <2>1, <2>2, Zenon
    <2>4. N = 2 * 2^u.addr
        BY Sizes
    <2>5. N = (2 * (2 * c)) * 2^i
        BY <2>3, <2>4, <1>2
    <2> QED BY <2>5
<1>4. N \div 2^i = 2 * (2 * c)
    <2>1. N = 2^i * (2 * (2 * c)) + 0 /\ 0 \in 0..2^i-1 /\ 2 * (2 * c) \in Int
        BY <1>2, <1>3
    <2> HIDE DEF N
    <2> QED BY <1>1, <1>2, <2>1, QuotientUnique
<1>5. Fifo(u)!BinToGray(N)[i] = 0
    <2>1. Fifo(u)!BinToGray(N)[i] = (((2 * (2 * c)) % 2) + (((2 * (2 * c)) \div 2) % 2)) % 2
        BY <1>1, <1>4, GrayBit, Zenon
    <2> QED BY <2>1
<1>6. N - 1 + 1 = N
    BY <1>1
<1>7. PICK a \in Nat : N = (2 * a + 1) * 2^i
    <2> DEFINE m == N - 1
    <2>1. m \in Nat /\ m + 1 = N /\ Fifo(u)!BinToGray(m)[i] # 0
        BY <1>1
    <2>2. Fifo(u)!BinToGray(m)[i] # Fifo(u)!BinToGray(m + 1)[i]
        BY <1>5, <2>1
    <2> HIDE DEF m, N
    <2>3. \E a \in Nat : m + 1 = (2 * a + 1) * 2^i
        BY <2>1, <2>2, GrayChange
    <2> QED BY <2>1, <2>3
<1>8. 2 * a + 1 \in Int /\ N = 2^i * (2 * a + 1) + 0 /\ 0 \in 0..2^i-1
    BY <1>2, <1>7
<1>9. N \div 2^i = 2 * a + 1
    <2> HIDE DEF N
    <2> QED BY <1>1, <1>2, <1>8, QuotientUnique
<1> QED BY <1>4, <1>9

(* The pointer whose index, counted without wrapping, is k, in Gray code. *)
Code(u, k) == Fifo(u)!BinToGray(k % Fifo(u)!SIZE)

(* An index of a pointer one further: the pointer itself, or zero.         *)
LEMMA NextPointer ==
    ASSUME NEW N \in Nat, N > 0, NEW k \in Nat
    PROVE  /\ k % N \in 0..N-1
           /\ \/ k % N # N - 1 /\ (k + 1) % N = (k % N) + 1
              \/ k % N = N - 1 /\ (k + 1) % N = 0
<1> DEFINE q == k \div N
           r == k % N
<1>1. q \in Nat /\ r \in 0..N-1 /\ k = N * q + r
    BY Quotient
<1> HIDE DEF q, r
<1>2. CASE r = N - 1
    <2>1. k + 1 = N * (q + 1) + 0 /\ q + 1 \in Int /\ 0 \in 0..N-1 /\ k + 1 \in Nat
        BY <1>1, <1>2
    <2>2. (k + 1) % N = 0
        BY <2>1, QuotientUnique
    <2> QED BY <1>1, <1>2, <2>2 DEF r
<1>3. CASE r # N - 1
    <2>1. k + 1 = N * q + (r + 1) /\ q \in Int /\ r + 1 \in 0..N-1 /\ k + 1 \in Nat
        BY <1>1, <1>3
    <2>2. (k + 1) % N = r + 1
        BY <2>1, QuotientUnique
    <2> QED BY <1>1, <1>3, <2>2 DEF r
<1> QED BY <1>2, <1>3

LEMMA CodeWord ==
    ASSUME NEW u \in Units, NEW k \in Nat
    PROVE  /\ k % Fifo(u)!SIZE \in Fifo(u)!Ptr
           /\ k % Fifo(u)!SIZE \in Nat
           /\ Code(u, k) \in Fifo(u)!Words
<1>1. Fifo(u)!SIZE \in Nat /\ Fifo(u)!SIZE > 0
    BY Sizes
<1>2. k % Fifo(u)!SIZE \in 0..Fifo(u)!SIZE-1
    BY <1>1, NextPointer
<1>3. k % Fifo(u)!SIZE \in Nat
    BY <1>1, <1>2
<1> QED BY <1>2, <1>3, Sizes, GrayWord DEF Code

(* A pointer that moves by one changes one bit of its Gray code: it is     *)
(* sampled clean, also where it wraps.                                     *)
LEMMA CodeNext ==
    ASSUME NEW u \in Units, NEW k \in Nat
    PROVE  Fifo(u)!Sampled(Code(u, k), Code(u, k + 1)) = {Code(u, k), Code(u, k + 1)}
<1> DEFINE N == Fifo(u)!SIZE
           p == k % N
<1>1. N \in Nat /\ N > 0
    BY Sizes
<1>2. k + 1 \in Nat /\ Code(u, k) \in Fifo(u)!Words /\ Code(u, k + 1) \in Fifo(u)!Words
    BY CodeWord
<1>3. p \in Nat
    BY CodeWord
<1>4. \A i, j \in Fifo(u)!Bits :
          Code(u, k)[i] # Code(u, k + 1)[i] /\ Code(u, k)[j] # Code(u, k + 1)[j] => i = j
    <2>1. CASE p # N - 1 /\ (k + 1) % N = p + 1
        <3>1. Code(u, k) = Fifo(u)!BinToGray(p) /\ Code(u, k + 1) = Fifo(u)!BinToGray(p + 1)
            BY <2>1 DEF Code
        <3> HIDE DEF p
        <3> QED BY <1>3, <3>1, GrayNext
    <2>2. CASE p = N - 1 /\ (k + 1) % N = 0
        <3>1. Code(u, k) = Fifo(u)!BinToGray(N - 1) /\ Code(u, k + 1) = Fifo(u)!BinToGray(0)
            BY <2>2 DEF Code
        <3>2. \A i \in Fifo(u)!Bits : Code(u, k)[i] # Code(u, k + 1)[i] => i = u.addr
            BY <3>1, GrayZero, GrayLast
        <3> QED BY <3>2
    <2> QED BY <1>1, <2>1, <2>2, NextPointer
<1> QED BY <1>2, <1>4, OneBitApart

(* gray2bin undoes bin2gray: bit j of a pointer is the parity of the bits  *)
(* of its code from j upwards.                                             *)
LEMMA ParityIsBit ==
    ASSUME NEW u \in Units, NEW p \in Fifo(u)!Ptr, NEW j \in Fifo(u)!Bits
    PROVE  LET g == Fifo(u)!BinToGray(p)
           IN  Fifo(u)!BitOf(p, j) = Cardinality({k \in j..u.addr : g[k] = 1}) % 2
<1> DEFINE A == u.addr
           g == Fifo(u)!BinToGray(p)
           Ones(i) == {k \in i..A : g[k] = 1}
           T == {n \in Nat : n <= A + 1 =>
                    Fifo(u)!BitOf(p, A + 1 - n) = Cardinality(Ones(A + 1 - n)) % 2}
<1>1. A \in Nat /\ Fifo(u)!Bits = 0..A /\ p \in Nat /\ p < 2^(A + 1)
    BY Sizes
<1>2. 0 \in T
    <2>1. Ones(A + 1) = {}
        BY <1>1
    <2>2. 2^(A + 1) \in Nat /\ 2^(A + 1) > 0 /\ A + 1 \in Nat
        BY <1>1, Powers
    <2>3. p \div 2^(A + 1) = 0
        <3> DEFINE m == 2^(A + 1)
        <3>1. m \in Nat /\ m > 0 /\ p \in Nat /\ p < m
            BY <1>1, <2>2
        <3> HIDE DEF m
        <3>2. p = m * 0 + p /\ p \in 0..m-1 /\ 0 \in Int
            BY <3>1
        <3>3. p \div m = 0
            BY <3>1, <3>2, QuotientUnique
        <3> QED BY <3>3 DEF m
    <2>4. Fifo(u)!BitOf(p, A + 1) = 0
        BY <2>3 DEF Fifo!BitOf
    <2>5. Cardinality(Ones(A + 1)) = 0
        BY <2>1, FS_EmptySet
    <2>6. A + 1 - 0 = A + 1
        BY <1>1
    <2> QED BY <2>4, <2>5, <2>6
<1>3. ASSUME NEW n \in T PROVE n + 1 \in T
    <2> SUFFICES ASSUME n + 1 <= A + 1
                 PROVE  Fifo(u)!BitOf(p, A + 1 - (n + 1)) = Cardinality(Ones(A + 1 - (n + 1))) % 2
        OBVIOUS
    <2> DEFINE i == A - n
    <2>1. i \in Nat /\ i \in 0..A /\ A + 1 - (n + 1) = i /\ A + 1 - n = i + 1
        BY <1>1
    <2>2. Fifo(u)!BitOf(p, i + 1) = Cardinality(Ones(i + 1)) % 2
        <3>1. n <= A + 1 /\ n \in Nat
            BY <1>1
        <3>2. Fifo(u)!BitOf(p, A + 1 - n) = Cardinality(Ones(A + 1 - n)) % 2
            BY <3>1
        <3> HIDE DEF T, Ones, i
        <3> QED BY <2>1, <3>2
    <2>3. g[i] = (Fifo(u)!BitOf(p, i) + Fifo(u)!BitOf(p, i + 1)) % 2
        BY <1>1, <2>1 DEF Fifo!BinToGray
    <2>4. Fifo(u)!BitOf(p, i) \in 0..1
        BY <1>1, <2>1, BitIs
    <2>5. IsFiniteSet(Ones(i + 1)) /\ Cardinality(Ones(i + 1)) \in Nat
        <3>1. i + 1 \in Int /\ A \in Int
            BY <1>1, <2>1
        <3>2. IsFiniteSet((i + 1)..A)
            BY <3>1, FS_Interval
        <3>3. Ones(i + 1) \in SUBSET ((i + 1)..A)
            OBVIOUS
        <3> HIDE DEF Ones, i
        <3> QED BY <3>2, <3>3, FS_Subset, FS_CardinalityType
    <2> HIDE DEF T, g
    <2>6. CASE g[i] = 1
        <3>1. Ones(i) = Ones(i + 1) \cup {i} /\ i \notin Ones(i + 1)
            BY <1>1, <2>1, <2>6
        <3> HIDE DEF Ones, i
        <3>2. Cardinality(Ones(i)) = Cardinality(Ones(i + 1)) + 1
            BY <2>5, <3>1, FS_AddElement
        <3> QED BY <2>1, <2>2, <2>3, <2>4, <2>5, <2>6, <3>2
    <2>7. CASE g[i] # 1
        <3>1. Ones(i) = Ones(i + 1)
            BY <1>1, <2>1, <2>7
        <3> HIDE DEF Ones, i
        <3> QED BY <2>1, <2>2, <2>3, <2>4, <2>5, <2>7, <3>1
    <2> QED BY <2>6, <2>7
<1>4. T \subseteq Nat
    OBVIOUS
<1>5. A + 1 - j \in T
    <2>1. A + 1 - j \in Nat
        BY <1>1
    <2> HIDE DEF T
    <2> QED BY <1>2, <1>3, <1>4, <2>1, Induction
<1>6. A + 1 - (A + 1 - j) = j /\ A + 1 - j <= A + 1
    BY <1>1
<1>7. Fifo(u)!BitOf(p, j) = Cardinality(Ones(j)) % 2
    BY <1>5, <1>6
<1> QED BY <1>7

(* Two pointers with the same bits are the same. *)
LEMMA BitsTell ==
    ASSUME NEW u \in Units, NEW p \in Fifo(u)!Ptr, NEW q \in Fifo(u)!Ptr,
           \A j \in Fifo(u)!Bits : Fifo(u)!BitOf(p, j) = Fifo(u)!BitOf(q, j)
    PROVE  p = q
<1> DEFINE A == u.addr
           T == {n \in Nat : n <= A + 1 => p \div 2^(A + 1 - n) = q \div 2^(A + 1 - n)}
<1>1. A \in Nat /\ Fifo(u)!Bits = 0..A /\ p \in Nat /\ p < 2^(A + 1) /\ q \in Nat /\ q < 2^(A + 1)
    <2>1. A \in Nat /\ Fifo(u)!Bits = 0..A
        BY Sizes
    <2>2. p \in Nat /\ p < 2^(A + 1)
        BY Sizes
    <2>3. q \in Nat /\ q < 2^(A + 1)
        BY Sizes
    <2> QED BY <2>1, <2>2, <2>3
<1>2. 0 \in T
    <2> DEFINE m == 2^(A + 1)
    <2>1. m \in Nat /\ m > 0 /\ p < m /\ q < m
        BY <1>1, Powers
    <2>2. p \div m = 0 /\ q \div m = 0
        <3> HIDE DEF m
        <3>1. 0 \in Int /\ p = m * 0 + p /\ p \in 0..m-1 /\ q = m * 0 + q /\ q \in 0..m-1
            BY <1>1, <2>1
        <3> QED BY <1>1, <2>1, <3>1, QuotientUnique
    <2>3. A + 1 - 0 = A + 1
        BY <1>1
    <2> QED BY <2>2, <2>3
<1>3. ASSUME NEW n \in T PROVE n + 1 \in T
    <2> SUFFICES ASSUME n + 1 <= A + 1
                 PROVE  p \div 2^(A + 1 - (n + 1)) = q \div 2^(A + 1 - (n + 1))
        OBVIOUS
    <2> DEFINE i == A - n
               h == p \div 2^i
               k == q \div 2^i
    <2>1. n \in Nat /\ i \in Nat /\ i \in 0..A /\ A + 1 - (n + 1) = i /\ A + 1 - n = i + 1
        BY <1>1
    <2>2. p \div 2^(i + 1) = q \div 2^(i + 1)
        <3>1. n <= A + 1
            BY <1>1
        <3>2. p \div 2^(A + 1 - n) = q \div 2^(A + 1 - n)
            BY <3>1
        <3> HIDE DEF T, i
        <3> QED BY <2>1, <3>2
    <2>3. h \in Nat /\ k \in Nat /\ h % 2 = k % 2 /\ h \div 2 = k \div 2
        <3>1. Fifo(u)!BitOf(p, i) = Fifo(u)!BitOf(q, i)
            BY <1>1, <2>1
        <3> HIDE DEF T, i
        <3>2. h \in Nat /\ Fifo(u)!BitOf(p, i) = h % 2 /\ p \div 2^(i + 1) = h \div 2
            BY <1>1, <2>1, BitIs
        <3>3. k \in Nat /\ Fifo(u)!BitOf(q, i) = k % 2 /\ q \div 2^(i + 1) = k \div 2
            BY <1>1, <2>1, BitIs
        <3> HIDE DEF h, k
        <3> QED BY <2>2, <3>1, <3>2, <3>3
    <2>4. h = k
        <3> HIDE DEF h, k
        <3> QED BY <2>3
    <2> HIDE DEF T
    <2> QED BY <2>1, <2>4
<1>4. T \subseteq Nat
    OBVIOUS
<1>5. A + 1 \in T
    <2>1. A + 1 \in Nat
        BY <1>1
    <2> HIDE DEF T
    <2> QED BY <1>2, <1>3, <1>4, <2>1, Induction
<1>6. p \div 2^0 = q \div 2^0
    <2>1. A + 1 <= A + 1 /\ A + 1 - (A + 1) = 0
        BY <1>1
    <2>2. p \div 2^(A + 1 - (A + 1)) = q \div 2^(A + 1 - (A + 1))
        BY <1>5, <2>1
    <2> QED BY <2>1, <2>2
<1>7. 2^0 = 1
    OBVIOUS
<1>8. p \div 1 = p /\ q \div 1 = q
    BY <1>1
<1> QED BY <1>6, <1>7, <1>8

(* The instance of the standard module within FifoAsync is the one here. *)
LEMMA SameCardinality ==
    ASSUME NEW u \in Units, NEW S
    PROVE  Fifo(u)!Cardinality(S) = Cardinality(S)
BY DEF Fifo!Cardinality, Cardinality

LEMMA GrayBack ==
    ASSUME NEW u \in Units, NEW p \in Fifo(u)!Ptr
    PROVE  Fifo(u)!GrayToBin(Fifo(u)!BinToGray(p)) = p
<1> DEFINE g == Fifo(u)!BinToGray(p)
           Decodes(x) == \A j \in Fifo(u)!Bits :
               Fifo(u)!BitOf(x, j) = Fifo(u)!Cardinality({k \in j..u.addr : g[k] = 1}) % 2
<1>1. Decodes(p)
    BY ParityIsBit, SameCardinality
<1>2. ASSUME NEW x \in Fifo(u)!Ptr, Decodes(x) PROVE x = p
    <2>1. \A j \in Fifo(u)!Bits : Fifo(u)!BitOf(x, j) = Fifo(u)!BitOf(p, j)
        BY <1>1, <1>2, Zenon
    <2> QED BY <2>1, BitsTell
<1>3. Fifo(u)!GrayToBin(g) \in Fifo(u)!Ptr /\ Decodes(Fifo(u)!GrayToBin(g))
    <2>1. \E x \in Fifo(u)!Ptr : Decodes(x)
        BY <1>1
    <2> HIDE DEF g
    <2> QED BY <2>1 DEF Fifo!GrayToBin
<1> HIDE DEF Decodes
<1> QED BY <1>2, <1>3

LEMMA CodeBack ==
    ASSUME NEW u \in Units, NEW k \in Nat
    PROVE  Fifo(u)!GrayToBin(Code(u, k)) = k % Fifo(u)!SIZE
BY CodeWord, GrayBack DEF Code
--------------------------------------------------------------------------------
(* Arithmetic of the pointers: an index counts without wrapping, a pointer *)
(* is an index modulo N.                                                   *)

LEMMA Remainder ==
    ASSUME NEW N \in Nat, N > 0, NEW x \in Int
    PROVE  x % N \in 0..N-1 /\ x \div N \in Int /\ x = N * (x \div N) + (x % N)
OBVIOUS

LEMMA RemainderUnique ==
    ASSUME NEW N \in Nat, N > 0, NEW x \in Int, NEW q \in Int, NEW r \in 0..N-1,
           x = N * q + r
    PROVE  x % N = r
<1> DEFINE a == x \div N
           b == x % N
<1>1. a \in Int /\ b \in 0..N-1 /\ x = N * a + b
    BY Remainder
<1> HIDE DEF a, b
<1>2. N * (a - q) = r - b
    BY <1>1
<1>3. a - q = 0
    <2>1. CASE a - q >= 1
        <3>1. N * (a - q) >= N
            BY <1>1, <2>1
        <3> QED BY <3>1, <1>1, <1>2
    <2>2. CASE a - q <= -1
        <3>1. N * (a - q) <= -N
            BY <1>1, <2>2
        <3> QED BY <3>1, <1>1, <1>2
    <2> QED BY <1>1, <2>1, <2>2
<1>4. b = r
    BY <1>1, <1>2, <1>3
<1> QED BY <1>4 DEF b

(* The remainder of a sum or difference needs only those of its parts. *)
LEMMA RemainderSum ==
    ASSUME NEW N \in Nat, N > 0, NEW x \in Int, NEW y \in Int
    PROVE  /\ ((x % N) + y) % N = (x + y) % N
           /\ (y - (x % N)) % N = (y - x) % N
<1> DEFINE a == x \div N
           b == x % N
<1>1. a \in Int /\ b \in 0..N-1 /\ x = N * a + b
    BY Remainder
<1> HIDE DEF a, b
<1>2. (b + y) % N = (x + y) % N
    <2> DEFINE c == (b + y) \div N
               d == (b + y) % N
    <2>1. c \in Int /\ d \in 0..N-1 /\ b + y = N * c + d
        BY <1>1, Remainder
    <2> HIDE DEF c, d
    <2>2. x + y \in Int /\ a + c \in Int /\ x + y = N * (a + c) + d
        BY <1>1, <2>1
    <2>3. (x + y) % N = d
        BY <2>1, <2>2, RemainderUnique
    <2> QED BY <2>3 DEF d
<1>3. (y - b) % N = (y - x) % N
    <2> DEFINE c == (y - b) \div N
               d == (y - b) % N
    <2>1. c \in Int /\ d \in 0..N-1 /\ y - b = N * c + d
        BY <1>1, Remainder
    <2> HIDE DEF c, d
    <2>2. y - x \in Int /\ c - a \in Int /\ y - x = N * (c - a) + d
        BY <1>1, <2>1
    <2>3. (y - x) % N = d
        BY <2>1, <2>2, RemainderUnique
    <2> QED BY <2>3 DEF d
<1> QED BY <1>2, <1>3 DEF b

(* A number below N is its own remainder; one below zero, but not below    *)
(* -N, wraps once.                                                         *)
LEMMA RemainderSmall ==
    ASSUME NEW N \in Nat, N > 0, NEW x \in Int, -N <= x, x < N
    PROVE  /\ x >= 0 => x % N = x
           /\ x < 0 => x % N = x + N
<1>1. ASSUME x >= 0 PROVE x % N = x
    <2>1. x = N * 0 + x /\ x \in 0..N-1 /\ 0 \in Int
        BY <1>1
    <2> QED BY <2>1, RemainderUnique
<1>2. ASSUME x < 0 PROVE x % N = x + N
    <2>1. x = N * (-1) + (x + N) /\ x + N \in 0..N-1 /\ -1 \in Int
        BY <1>2
    <2> QED BY <2>1, RemainderUnique
<1> QED BY <1>1, <1>2

(* Indices less than a turn apart are different pointers. *)
LEMMA PointersApart ==
    ASSUME NEW N \in Nat, N > 0, NEW x \in Int, NEW y \in Int, x < y, y < x + N
    PROVE  x % N # y % N
<1> SUFFICES ASSUME x % N = y % N PROVE FALSE
    OBVIOUS
<1>1. y - x \in Int /\ -N <= y - x /\ y - x < N /\ y - x >= 0 /\ y - x > 0
    OBVIOUS
<1>2. (y - x) % N = y - x
    BY <1>1, RemainderSmall
<1>3. (y - (x % N)) % N = (y - x) % N
    BY RemainderSum
<1>4. (y - (y % N)) % N = (y - y) % N
    BY RemainderSum
<1>5. y - y = 0 /\ 0 % N = 0
    <2>1. 0 \in Int /\ -N <= 0 /\ 0 < N /\ 0 >= 0
        OBVIOUS
    <2> QED BY <2>1, RemainderSmall
<1> QED BY <1>1, <1>2, <1>3, <1>4, <1>5

(* The cell of a pointer is that of its index. *)
LEMMA CellOfIndex ==
    ASSUME NEW D \in Nat, D > 0, NEW x \in Int
    PROVE  (x % (2 * D)) % D = x % D
<1> DEFINE N == 2 * D
           a == x \div N
           b == x % N
           c == b \div D
           d == b % D
<1>1. N \in Nat /\ N > 0
    OBVIOUS
<1>2. a \in Int /\ b \in 0..N-1 /\ x = N * a + b
    <2> HIDE DEF N
    <2> QED BY <1>1, Remainder
<1>3. c \in Int /\ d \in 0..D-1 /\ b = D * c + d
    <2>1. b \in Int
        BY <1>2
    <2> HIDE DEF b
    <2> QED BY <2>1, Remainder
<1> HIDE DEF a, b, c, d
<1>4. x = D * (2 * a + c) + d /\ 2 * a + c \in Int
    BY <1>2, <1>3
<1>5. x % D = d
    BY <1>3, <1>4, RemainderUnique
<1> QED BY <1>5 DEF d, b
--------------------------------------------------------------------------------
(* The invariant.  Every register that holds a pointer, or its code, is    *)
(* given by an index: the number of words that had been pushed or popped   *)
(* when the pointer had this value, without wrapping.  On the way of a     *)
(* pointer the indices fall: w, wg, ww are the write pointer, its Gray     *)
(* register and what is on the wires, ws1 to ws3 what the read side has of *)
(* it; r, rg, rw and rs1 to rs3 likewise.                                  *)
Index == [w : Nat, wg : Nat, ww : Nat, ws1 : Nat, ws2 : Nat, ws3 : Nat,
          r : Nat, rg : Nat, rw : Nat, rs1 : Nat, rs2 : Nat, rs3 : Nat]

(* The oldest is what the write side knows of the read pointer; no pointer *)
(* overtakes the other as the other side knows it; and those of one side   *)
(* move by one.                                                            *)
Ordered(u, c) ==
    /\ c.rs3 <= c.rs2 /\ c.rs2 <= c.rs1 /\ c.rs1 <= c.rw /\ c.rw <= c.rg /\ c.rg <= c.r
    /\ c.r <= c.ws3
    /\ c.ws3 <= c.ws2 /\ c.ws2 <= c.ws1 /\ c.ws1 <= c.ww /\ c.ww <= c.wg /\ c.wg <= c.w
    /\ c.w <= c.rs3 + Fifo(u)!DEPTH
    /\ c.rg <= c.rw + 1 /\ c.r <= c.rg + 1
    /\ c.wg <= c.ww + 1 /\ c.w <= c.wg + 1

(* The flags and counts of a side, by the indices it knows. *)
WrFlags(u, c) ==
    /\ ~wr_full => c.w < c.rs3 + Fifo(u)!DEPTH
    /\ ~wr_almost_full => c.w + u.almost_full < c.rs3 + Fifo(u)!DEPTH
    /\ wr_free <= c.rs3 + Fifo(u)!DEPTH - c.w

RdFlags(u, c) ==
    /\ ~rd_empty => c.r < c.ws3
    /\ ~rd_almost_empty => c.r + u.almost_empty < c.ws3
    /\ rd_count <= c.ws3 - c.r

WrRegs(u, c) ==
    /\ wr_addr = c.w % Fifo(u)!SIZE
    /\ wr_addr_gray = Code(u, c.wg)
    /\ wr_rd_src = Code(u, c.rs1)
    /\ wr_rd_addr_gray = Code(u, c.rs2)
    /\ wr_rd_addr = (c.rs3 + Fifo(u)!DEPTH) % Fifo(u)!SIZE

RdRegs(u, c) ==
    /\ rd_addr = c.r % Fifo(u)!SIZE
    /\ rd_addr_gray = Code(u, c.rg)
    /\ rd_wr_src = Code(u, c.ws1)
    /\ rd_wr_addr_gray = Code(u, c.ws2)
    /\ rd_wr_addr = c.ws3 % Fifo(u)!SIZE

Wires(u, c) == wr_wire = Code(u, c.ww) /\ rd_wire = Code(u, c.rw)

(* Only the newest word can be on its way to the memory, and a reader is   *)
(* not told of it yet.                                                     *)
Delayed(u, c) ==
    rst["wr"] = "run" /\ wr_r.push =>
        c.w = c.wg + 1 /\ wr_r.addr = c.wg % Fifo(u)!SIZE

(* A side in reset has passed on nothing. *)
AtReset(c) ==
    /\ rst["wr"] = "held" => c.w = 0
    /\ rst["rd"] = "held" => c.ws1 = 0

Tracks(u, c) ==
    /\ Ordered(u, c)
    /\ WrRegs(u, c) /\ RdRegs(u, c) /\ Wires(u, c)
    /\ WrFlags(u, c) /\ RdFlags(u, c)
    /\ Delayed(u, c) /\ AtReset(c)

Zero == [w |-> 0, wg |-> 0, ww |-> 0, ws1 |-> 0, ws2 |-> 0, ws3 |-> 0,
         r |-> 0, rg |-> 0, rw |-> 0, rs1 |-> 0, rs2 |-> 0, rs3 |-> 0]

(* While a reset that has just been asserted reaches the domains, what the *)
(* sides know of each other means nothing; a side that has been clocked in *)
(* reset is at zero.                                                       *)
WrHeld(u) ==
    rst["wr"] = "held" =>
        WrRegs(u, Zero) /\ WrFlags(u, Zero) /\ wr_full /\ wr_wire = Code(u, 0)
RdHeld(u) ==
    rst["rd"] = "held" =>
        RdRegs(u, Zero) /\ RdFlags(u, Zero) /\ rd_wire = Code(u, 0)

Pending == rst["wr"] = "pending" \/ rst["rd"] = "pending"

(* What is on the wires is at most one step behind what is sent. *)
Crossing(u) ==
    \E i, j \in Nat :
        /\ wr_wire = Code(u, i) /\ wr_addr_gray \in {Code(u, i), Code(u, i + 1)}
        /\ rd_wire = Code(u, j) /\ rd_addr_gray \in {Code(u, j), Code(u, j + 1)}

UnitInv(u) ==
    /\ Fifo(u)!TypeOK
    /\ Crossing(u)
    /\ Pending => rst["wr"] # "run" /\ rst["rd"] # "run"
    /\ WrHeld(u) /\ RdHeld(u)
    /\ ~Pending => \E c \in Index : Tracks(u, c)

Inv == \A u \in Units : unit = u => UnitInv(u)

(* What an edge of a clock does to the state of its reset. *)
LEMMA WrEdge ==
    ASSUME NEW u \in Units, Fifo(u)!TypeOK, Fifo(u)!R!Edge("wr")
    PROVE  /\ rst' \in [Fifo(u)!Domains -> Fifo(u)!R!ResetState]
           /\ rst["wr"] \in {"pending", "held", "run"} /\ rst["rd"] \in {"pending", "held", "run"}
           /\ rst'["rd"] = rst["rd"]
           /\ rst["wr"] = "run" => rst'["wr"] = "run"
           /\ rst["wr"] = "pending" => rst'["wr"] = "held"
           /\ rst["wr"] = "held" =>
                  rst'["wr"] = "held" \/ (rst'["wr"] = "run" /\ rst["rd"] # "pending")
BY DEF Fifo!TypeOK, Fifo!Domains, Fifo!R!ResetState, Fifo!R!Edge, Fifo!R!Stay, Fifo!R!Release

LEMMA RdEdge ==
    ASSUME NEW u \in Units, Fifo(u)!TypeOK, Fifo(u)!R!Edge("rd")
    PROVE  /\ rst' \in [Fifo(u)!Domains -> Fifo(u)!R!ResetState]
           /\ rst["wr"] \in {"pending", "held", "run"} /\ rst["rd"] \in {"pending", "held", "run"}
           /\ rst'["wr"] = rst["wr"]
           /\ rst["rd"] = "run" => rst'["rd"] = "run"
           /\ rst["rd"] = "pending" => rst'["rd"] = "held"
           /\ rst["rd"] = "held" =>
                  rst'["rd"] = "held" \/ (rst'["rd"] = "run" /\ rst["wr"] # "pending")
BY DEF Fifo!TypeOK, Fifo!Domains, Fifo!R!ResetState, Fifo!R!Edge, Fifo!R!Stay, Fifo!R!Release

(* The pointer that is sampled while it crosses: one of two neighbours. *)
LEMMA SampledIndex ==
    ASSUME NEW u \in Units, NEW old \in Nat, NEW new \in Nat, old <= new, new <= old + 1
    PROVE  Fifo(u)!Sampled(Code(u, old), Code(u, new)) = {Code(u, old), Code(u, new)}
<1>1. CASE new = old
    <2>1. Code(u, old) \in Fifo(u)!Words
        BY CodeWord
    <2>2. Fifo(u)!Sampled(Code(u, old), Code(u, old)) = {Code(u, old)}
        BY <2>1, SampledSame
    <2> QED BY <1>1, <2>2
<1>2. CASE new = old + 1
    BY <1>2, CodeNext
<1> QED BY <1>1, <1>2

(* Pointers cross cleanly. *)
LEMMA CrossingClean ==
    ASSUME NEW u \in Units, Crossing(u)
    PROVE  Fifo(u)!CleanCrossing
<1>1. PICK i \in Nat, j \in Nat :
          /\ wr_wire = Code(u, i) /\ wr_addr_gray \in {Code(u, i), Code(u, i + 1)}
          /\ rd_wire = Code(u, j) /\ rd_addr_gray \in {Code(u, j), Code(u, j + 1)}
    BY DEF Crossing
<1>2. ASSUME NEW k \in Nat
      PROVE  /\ Fifo(u)!Sampled(Code(u, k), Code(u, k)) = {Code(u, k), Code(u, k)}
             /\ Fifo(u)!Sampled(Code(u, k), Code(u, k + 1)) = {Code(u, k), Code(u, k + 1)}
    BY SampledIndex
<1> QED BY <1>1, <1>2 DEF Fifo!CleanCrossing

(* At zero all indices are in order, and their codes are those of a reset. *)
LEMMA ZeroFacts ==
    ASSUME NEW u \in Units
    PROVE  /\ Zero \in Index /\ Ordered(u, Zero)
           /\ 0 % Fifo(u)!SIZE = 0
           /\ (0 + Fifo(u)!DEPTH) % Fifo(u)!SIZE = Fifo(u)!DEPTH
           /\ Code(u, 0) = Fifo(u)!BinToGray(0)
           /\ Code(u, 0) \in Fifo(u)!Words
           /\ Fifo(u)!Sampled(Code(u, 0), Code(u, 0)) = {Code(u, 0)}
<1>1. Fifo(u)!SIZE \in Nat /\ Fifo(u)!SIZE > 0 /\ Fifo(u)!DEPTH \in 0..Fifo(u)!SIZE-1
      /\ Fifo(u)!DEPTH \in Nat
    BY Sizes
<1>2. 0 % Fifo(u)!SIZE = 0 /\ Fifo(u)!DEPTH % Fifo(u)!SIZE = Fifo(u)!DEPTH
    BY <1>1, RemainderSmall
<1>3. Code(u, 0) = Fifo(u)!BinToGray(0) /\ Code(u, 0) \in Fifo(u)!Words
    <2>1. Code(u, 0) \in Fifo(u)!Words
        BY CodeWord
    <2> QED BY <1>2, <2>1 DEF Code
<1>4. Zero \in Index /\ Ordered(u, Zero)
    BY <1>1 DEF Zero, Index, Ordered
<1> QED BY <1>1, <1>2, <1>3, <1>4, SampledSame

(* An index that is at reset on the write side is zero throughout. *)
LEMMA AllZero ==
    ASSUME NEW u \in Units, NEW c \in Index, Ordered(u, c), c.w = 0
    PROVE  c = Zero
<1>1. /\ c.wg = 0 /\ c.ww = 0 /\ c.ws1 = 0 /\ c.ws2 = 0 /\ c.ws3 = 0
      /\ c.r = 0 /\ c.rg = 0 /\ c.rw = 0 /\ c.rs1 = 0 /\ c.rs2 = 0 /\ c.rs3 = 0
    BY DEF Ordered, Index
<1> QED BY <1>1 DEF Zero, Index
--------------------------------------------------------------------------------
(* The flags.  x is the pointer a side compares its own pointer y with,    *)
(* n says whether y moves; e is the distance that is left.                 *)
LEMMA Distance ==
    ASSUME NEW N \in Nat, N > 0, NEW x \in Int, NEW y \in Int, NEW m \in Int
    PROVE  ((x % N) - ((y % N) + m)) % N = (x - y - m) % N
<1>1. x % N \in Int /\ y % N \in Int
    BY Remainder
<1>2. ((x % N) - ((y % N) + m)) = (x % N) + (-m - (y % N))
    BY <1>1
<1>3. ((x % N) + (-m - (y % N))) % N = (x + (-m - (y % N))) % N
    <2> DEFINE k == -m - (y % N)
    <2>1. k \in Int
        BY <1>1
    <2> HIDE DEF k
    <2>2. ((x % N) + k) % N = (x + k) % N
        BY <2>1, RemainderSum
    <2> QED BY <2>2 DEF k
<1>4. x + (-m - (y % N)) = (x - m) - (y % N)
    BY <1>1
<1>5. ((x - m) - (y % N)) % N = ((x - m) - y) % N
    <2> DEFINE k == x - m
    <2>1. k \in Int
        OBVIOUS
    <2> HIDE DEF k
    <2>2. (k - (y % N)) % N = (k - y) % N
        BY <2>1, RemainderSum
    <2> QED BY <2>2 DEF k
<1>6. (x - m) - y = x - y - m
    OBVIOUS
<1> QED BY <1>2, <1>3, <1>4, <1>5, <1>6

(* The comparisons of the flag logic, on pointers modulo N, say of indices *)
(* what they mean.                                                         *)
FlagsTell(D, N, x, y, n, t) ==
    /\ x % N # ((y % N) + n) % N => y + n < x
    /\ x % N # y % N => y < x
    /\ ~(((x % N) - ((((y % N) + (t + 1)) % N) + n)) % N >= D) => y + n + t < x
    /\ ((x % N) - ((y % N) + n)) % N = x - y - n

LEMMA FlagArithmetic ==
    ASSUME NEW D \in Nat, D > 0, NEW N \in Nat, N >= 2 * D, NEW x \in Nat, NEW y \in Nat, NEW n \in {0, 1},
           NEW t \in 0..D-1, y + n <= x, x <= y + D
    PROVE  FlagsTell(D, N, x, y, n, t)
<1>1. N \in Nat /\ N > 0 /\ n \in Int /\ x \in Int /\ y \in Int /\ t + 1 \in Int
    OBVIOUS
<1>2. ((y % N) + n) % N = (y + n) % N
    BY <1>1, RemainderSum
<1>3. ((y % N) + (t + 1)) % N = (y + (t + 1)) % N
    BY <1>1, RemainderSum
<1>4. ((x % N) - (((y + (t + 1)) % N) + n)) % N = (x - (y + (t + 1)) - n) % N
    <2> DEFINE z == y + (t + 1)
    <2>1. z \in Int
        OBVIOUS
    <2> HIDE DEF z
    <2>2. ((x % N) - ((z % N) + n)) % N = (x - z - n) % N
        BY <1>1, <2>1, Distance
    <2> QED BY <2>2 DEF z
<1>5. ASSUME y + n + t >= x
      PROVE  (x - (y + (t + 1)) - n) % N >= D
    <2> DEFINE z == x - (y + (t + 1)) - n
    <2>1. z \in Int /\ -D <= z /\ z < 0 /\ -N <= z /\ z < N
        BY <1>5
    <2> HIDE DEF z
    <2>2. z % N = z + N
        BY <1>1, <2>1, RemainderSmall
    <2>3. z % N >= D
        BY <2>1, <2>2
    <2> QED BY <2>3 DEF z
<1>6. ((x % N) - ((y % N) + n)) % N = (x - y - n) % N
    BY <1>1, Distance
<1>7. (x - y - n) % N = x - y - n
    <2> DEFINE z == x - y - n
    <2>1. z \in Int /\ z >= 0 /\ -N <= z /\ z < N
        OBVIOUS
    <2> HIDE DEF z
    <2>2. z % N = z
        BY <1>1, <2>1, RemainderSmall
    <2> QED BY <2>2 DEF z
<1>8. x % N # ((y % N) + n) % N => y + n < x
    <2>1. CASE y + n = x
        BY <1>2, <2>1
    <2> QED BY <2>1
<1>9. x % N # y % N => y < x
    OBVIOUS
<1>10. ~(((x % N) - ((((y % N) + (t + 1)) % N) + n)) % N >= D) => y + n + t < x
    <2>1. CASE y + n + t >= x
        BY <1>3, <1>4, <1>5, <2>1
    <2>2. CASE y + n + t < x
        BY <2>2
    <2> QED BY <2>1, <2>2
<1> QED BY <1>6, <1>7, <1>8, <1>9, <1>10 DEF FlagsTell

(* Parameters and types, named. *)
LEMMA Parameters ==
    ASSUME NEW u \in Units
    PROVE  /\ u.almost_full \in 0..Fifo(u)!DEPTH-1
           /\ u.almost_empty \in 0..Fifo(u)!DEPTH-1
           /\ u.wr_slow \in BOOLEAN /\ u.rd_slow \in BOOLEAN
           /\ None \notin u.data
BY UnitsAllowed DEF UnitsAssumption, Fifo!FifoAsyncAssumption

(* The flags of the write side after an edge, with what it knew of the     *)
(* read pointer before.                                                    *)
LEMMA WrFlagsNext ==
    ASSUME NEW u \in Units, NEW n \in {0, 1}, NEW w \in Nat, NEW s \in Nat,
           wr_addr = w % Fifo(u)!SIZE, wr_rd_addr = (s + Fifo(u)!DEPTH) % Fifo(u)!SIZE,
           w + n <= s + Fifo(u)!DEPTH, s <= w
    PROVE  /\ ~Fifo(u)!WrFullNext(n) => w + n < s + Fifo(u)!DEPTH
           /\ ~Fifo(u)!WrAlmostFullNext(n) => w + n + u.almost_full < s + Fifo(u)!DEPTH
           /\ Fifo(u)!WrFreeNext(n) = s + Fifo(u)!DEPTH - w - n
<1> DEFINE D == Fifo(u)!DEPTH
           N == Fifo(u)!SIZE
           x == s + D
           A == u.almost_full
<1>1. D \in Nat /\ D > 0 /\ N \in Nat /\ N >= 2 * D /\ x \in Nat /\ A \in 0..D-1
    <2>1. D \in Nat /\ D > 0 /\ N = 2 * D
        BY Sizes
    <2>2. A \in 0..D-1
        BY Parameters
    <2> QED BY <2>1, <2>2
<1>2. w + n <= x /\ x <= w + D
    BY <1>1
<1>8. FlagsTell(D, N, x, w, n, A)
    <2> HIDE DEF D, N, x, A
    <2> QED BY <1>1, <1>2, FlagArithmetic
<1>3. /\ x % N # ((w % N) + n) % N => w + n < x
      /\ x % N # w % N => w < x
      /\ ~(((x % N) - ((((w % N) + (A + 1)) % N) + n)) % N >= D) => w + n + A < x
      /\ ((x % N) - ((w % N) + n)) % N = x - w - n
    BY <1>8 DEF FlagsTell
<1>4. wr_addr = w % N /\ wr_rd_addr = x % N
    OBVIOUS
<1> HIDE DEF x
<1>5. ~Fifo(u)!WrFullNext(n) => w + n < x
    <2>1. CASE u.wr_slow
        <3>1. ~Fifo(u)!WrFullNext(n) => n # 1 /\ wr_rd_addr # wr_addr
            BY <2>1 DEF Fifo!WrFullNext
        <3>2. n # 1 => w + n = w
            OBVIOUS
        <3> HIDE DEF D, N
        <3> QED BY <1>3, <1>4, <3>1, <3>2
    <2>2. CASE ~u.wr_slow
        <3>1. ~Fifo(u)!WrFullNext(n) => wr_rd_addr # ((wr_addr) + n) % N
            BY <2>2 DEF Fifo!WrFullNext, Fifo!Plus
        <3> HIDE DEF D, N
        <3> QED BY <1>3, <1>4, <3>1
    <2> QED BY <2>1, <2>2
<1>6. ~Fifo(u)!WrAlmostFullNext(n) => w + n + A < x
    <2>1. CASE A = 0
        <3>1. ~Fifo(u)!WrAlmostFullNext(n) => ~Fifo(u)!WrFullNext(n)
            BY <2>1 DEF Fifo!WrAlmostFullNext
        <3>2. w + n + A = w + n
            BY <2>1
        <3> QED BY <1>5, <3>1, <3>2
    <2>2. CASE A # 0
        <3>1. ~Fifo(u)!WrAlmostFullNext(n) =>
                  ~((wr_rd_addr - (((wr_addr + (A + 1)) % N) + n)) % N >= D)
            BY <2>2 DEF Fifo!WrAlmostFullNext, Fifo!Plus, Fifo!Minus
        <3> HIDE DEF D, N, A
        <3> QED BY <1>3, <1>4, <3>1
    <2> QED BY <2>1, <2>2
<1>7. Fifo(u)!WrFreeNext(n) = x - w - n
    <2>1. Fifo(u)!WrFreeNext(n) = (wr_rd_addr - (wr_addr + n)) % N
        BY DEF Fifo!WrFreeNext, Fifo!Minus
    <2> HIDE DEF D, N
    <2> QED BY <1>3, <1>4, <2>1
<1> QED BY <1>1, <1>5, <1>6, <1>7 DEF x

LEMMA RdFlagsNext ==
    ASSUME NEW u \in Units, NEW n \in {0, 1}, NEW y \in Nat, NEW x \in Nat,
           rd_addr = y % Fifo(u)!SIZE, rd_wr_addr = x % Fifo(u)!SIZE,
           y + n <= x, x <= y + Fifo(u)!DEPTH
    PROVE  /\ ~Fifo(u)!RdEmptyNext(n) => y + n < x
           /\ ~Fifo(u)!RdAlmostEmptyNext(n) => y + n + u.almost_empty < x
           /\ Fifo(u)!RdCountNext(n) = x - y - n
<1> DEFINE D == Fifo(u)!DEPTH
           N == Fifo(u)!SIZE
           A == u.almost_empty
<1>1. D \in Nat /\ D > 0 /\ N \in Nat /\ N >= 2 * D /\ A \in 0..D-1
    <2>1. D \in Nat /\ D > 0 /\ N = 2 * D
        BY Sizes
    <2>2. A \in 0..D-1
        BY Parameters
    <2> QED BY <2>1, <2>2
<1>8. FlagsTell(D, N, x, y, n, A)
    <2>1. x <= y + D
        OBVIOUS
    <2> HIDE DEF D, N, A
    <2> QED BY <1>1, <2>1, FlagArithmetic
<1>3. /\ x % N # ((y % N) + n) % N => y + n < x
      /\ x % N # y % N => y < x
      /\ ~(((x % N) - ((((y % N) + (A + 1)) % N) + n)) % N >= D) => y + n + A < x
      /\ ((x % N) - ((y % N) + n)) % N = x - y - n
    BY <1>8 DEF FlagsTell
<1>4. rd_addr = y % N /\ rd_wr_addr = x % N
    OBVIOUS
<1>5. ~Fifo(u)!RdEmptyNext(n) => y + n < x
    <2>1. CASE u.rd_slow
        <3>1. ~Fifo(u)!RdEmptyNext(n) => n # 1 /\ rd_wr_addr # rd_addr
            BY <2>1 DEF Fifo!RdEmptyNext
        <3>2. n # 1 => y + n = y
            OBVIOUS
        <3> HIDE DEF D, N
        <3> QED BY <1>3, <1>4, <3>1, <3>2
    <2>2. CASE ~u.rd_slow
        <3>1. ~Fifo(u)!RdEmptyNext(n) => rd_wr_addr # (rd_addr + n) % N
            BY <2>2 DEF Fifo!RdEmptyNext, Fifo!Plus
        <3> HIDE DEF D, N
        <3> QED BY <1>3, <1>4, <3>1
    <2> QED BY <2>1, <2>2
<1>6. ~Fifo(u)!RdAlmostEmptyNext(n) => y + n + A < x
    <2>1. CASE A = 0
        <3>1. ~Fifo(u)!RdAlmostEmptyNext(n) => ~Fifo(u)!RdEmptyNext(n)
            BY <2>1 DEF Fifo!RdAlmostEmptyNext
        <3>2. y + n + A = y + n
            BY <2>1
        <3> QED BY <1>5, <3>1, <3>2
    <2>2. CASE A # 0
        <3>1. ~Fifo(u)!RdAlmostEmptyNext(n) =>
                  ~((rd_wr_addr - (((rd_addr + (A + 1)) % N) + n)) % N >= D)
            BY <2>2 DEF Fifo!RdAlmostEmptyNext, Fifo!Plus, Fifo!Minus
        <3> HIDE DEF D, N, A
        <3> QED BY <1>3, <1>4, <3>1
    <2> QED BY <2>1, <2>2
<1>7. Fifo(u)!RdCountNext(n) = x - y - n
    <2>1. Fifo(u)!RdCountNext(n) = (rd_wr_addr - (rd_addr + n)) % N
        BY DEF Fifo!RdCountNext, Fifo!Minus
    <2> HIDE DEF D, N
    <2> QED BY <1>3, <1>4, <2>1
<1> QED BY <1>5, <1>6, <1>7
--------------------------------------------------------------------------------
(* Types. *)

LEMMA PlusType ==
    ASSUME NEW u \in Units, NEW p \in Int, NEW n \in Int
    PROVE  Fifo(u)!Plus(p, n) \in Fifo(u)!Ptr /\ Fifo(u)!Minus(p, n) \in Fifo(u)!Ptr
<1>1. Fifo(u)!SIZE \in Nat /\ Fifo(u)!SIZE > 0 /\ Fifo(u)!Ptr = 0..Fifo(u)!SIZE-1
    BY Sizes
<1>2. (p + n) % Fifo(u)!SIZE \in 0..Fifo(u)!SIZE-1 /\ (p - n) % Fifo(u)!SIZE \in 0..Fifo(u)!SIZE-1
    BY <1>1, Remainder
<1> QED BY <1>1, <1>2 DEF Fifo!Plus, Fifo!Minus

LEMMA PointerTypes ==
    ASSUME NEW u \in Units
    PROVE  /\ Fifo(u)!Ptr \subseteq Nat /\ 0 \in Fifo(u)!Ptr /\ Fifo(u)!DEPTH \in Fifo(u)!Ptr
           /\ Fifo(u)!BinToGray(0) \in Fifo(u)!Words
           /\ \A p \in Fifo(u)!Ptr : Fifo(u)!BinToGray(p) \in Fifo(u)!Words
           /\ \A p \in Fifo(u)!Ptr : Fifo(u)!Cell(p) \in 0..Fifo(u)!DEPTH-1
<1>1. /\ Fifo(u)!DEPTH \in Nat /\ Fifo(u)!DEPTH > 0
      /\ Fifo(u)!SIZE = 2 * Fifo(u)!DEPTH /\ Fifo(u)!Ptr = 0..Fifo(u)!SIZE-1
    BY Sizes
<1>2. Fifo(u)!Ptr \subseteq Nat /\ 0 \in Fifo(u)!Ptr /\ Fifo(u)!DEPTH \in Fifo(u)!Ptr
    BY <1>1
<1>3. ASSUME NEW p \in Fifo(u)!Ptr PROVE Fifo(u)!Cell(p) \in 0..Fifo(u)!DEPTH-1
    BY <1>1, <1>2, Remainder DEF Fifo!Cell
<1> QED BY <1>2, <1>3, GrayWord

(* A word on its way is written to a cell of the memory. *)
LEMMA MemType ==
    ASSUME NEW u \in Units, Fifo(u)!TypeOK, Fifo(u)!MemWrite
    PROVE  mem' \in [0..Fifo(u)!DEPTH-1 -> u.data \cup {None}]
<1>1. CASE wr_r.push
    <2>1. wr_r \in [push : {TRUE}, addr : Fifo(u)!Ptr, data : u.data]
        <3>1. Fifo(u)!NoWrite.push = FALSE
            BY DEF Fifo!NoWrite
        <3>2. wr_r # Fifo(u)!NoWrite
            BY <1>1, <3>1
        <3> QED BY <3>2 DEF Fifo!TypeOK
    <2>2. mem' = [mem EXCEPT ![Fifo(u)!Cell(wr_r.addr)] = wr_r.data]
        BY <1>1 DEF Fifo!MemWrite
    <2>3. Fifo(u)!Cell(wr_r.addr) \in 0..Fifo(u)!DEPTH-1 /\ wr_r.data \in u.data
        BY <2>1, PointerTypes
    <2> QED BY <2>2, <2>3 DEF Fifo!TypeOK
<1>2. CASE ~wr_r.push
    BY <1>2 DEF Fifo!TypeOK, Fifo!MemWrite
<1> QED BY <1>1, <1>2

(* What an edge of the write clock does: a reset, or a cycle in which n    *)
(* words are pushed, and in either case the delayed write.                 *)
LEMMA WrCases ==
    ASSUME NEW u \in Units, Fifo(u)!TypeOK, Fifo(u)!WrClk
    PROVE  /\ Fifo(u)!R!Edge("wr") /\ Fifo(u)!MemWrite
           /\ UNCHANGED <<rd_addr, rd_addr_gray, rd_wr_src, rd_wr_addr_gray, rd_wr_addr,
                          rd_empty, rd_almost_empty, rd_count>>
           /\ wr_r' \in {Fifo(u)!NoWrite} \cup [push : {TRUE}, addr : Fifo(u)!Ptr, data : u.data]
           /\ wr_full => wr_r' = Fifo(u)!NoWrite
           /\ \/ Fifo(u)!WrReset
              \/ Fifo(u)!WrRunning(0) /\ wr_r' = Fifo(u)!NoWrite
              \/ /\ Fifo(u)!WrRunning(1) /\ ~wr_full
                 /\ \E d \in u.data : wr_r' = Fifo(u)!Write(wr_addr, d)
<1>1. /\ Fifo(u)!R!Edge("wr") /\ Fifo(u)!MemWrite
      /\ UNCHANGED <<rd_addr, rd_addr_gray, rd_wr_src, rd_wr_addr_gray, rd_wr_addr,
                          rd_empty, rd_almost_empty, rd_count>>
    BY DEF Fifo!WrClk, Fifo!rdVars
<1>2. CASE Fifo(u)!WrIdle
    BY <1>1, <1>2 DEF Fifo!WrIdle
<1>3. ASSUME NEW d \in u.data, Fifo(u)!WrPush(d)
      PROVE  /\ wr_r' \in [push : {TRUE}, addr : Fifo(u)!Ptr, data : u.data]
             /\ ~wr_full /\ wr_r' = Fifo(u)!Write(wr_addr, d)
             /\ Fifo(u)!WrReset \/ Fifo(u)!WrRunning(1)
    <2>1. wr_addr \in Fifo(u)!Ptr
        BY DEF Fifo!TypeOK
    <2> QED BY <1>3, <2>1 DEF Fifo!WrPush, Fifo!Write
<1>4. Fifo(u)!WrIdle \/ \E d \in u.data : Fifo(u)!WrPush(d)
    BY DEF Fifo!WrClk
<1> QED BY <1>1, <1>2, <1>3, <1>4

LEMMA RdCases ==
    ASSUME NEW u \in Units, Fifo(u)!TypeOK, Fifo(u)!RdClk
    PROVE  /\ Fifo(u)!R!Edge("rd")
           /\ UNCHANGED <<mem, wr_r>>
           /\ UNCHANGED <<wr_addr, wr_addr_gray, wr_rd_src, wr_rd_addr_gray, wr_rd_addr,
                          wr_full, wr_almost_full, wr_free>>
           /\ \/ Fifo(u)!RdReset
              \/ Fifo(u)!RdRunning(0)
              \/ Fifo(u)!RdRunning(1) /\ ~rd_empty
BY DEF Fifo!RdClk, Fifo!RdIdle, Fifo!RdPop, Fifo!wrVars

(* Types are kept; a running side needs to know that what it decodes is a  *)
(* pointer.                                                                *)
LEMMA WrTypes ==
    ASSUME NEW u \in Units, Fifo(u)!TypeOK, Fifo(u)!WrClk,
           rst["wr"] = "run" => Fifo(u)!GrayToBin(wr_rd_addr_gray) \in Nat
    PROVE  Fifo(u)!TypeOK'
<1>1. rst' \in [Fifo(u)!Domains -> Fifo(u)!R!ResetState]
    BY WrCases, WrEdge
<1>2. mem' \in [0..Fifo(u)!DEPTH-1 -> u.data \cup {None}]
    BY WrCases, MemType
<1>3. wr_r' \in {Fifo(u)!NoWrite} \cup [push : {TRUE}, addr : Fifo(u)!Ptr, data : u.data]
    BY WrCases
<1>4. /\ rd_addr' \in Fifo(u)!Ptr /\ rd_addr_gray' \in Fifo(u)!Words
      /\ rd_wr_src' \in Fifo(u)!Words /\ rd_wr_addr_gray' \in Fifo(u)!Words
      /\ rd_wr_addr' \in Fifo(u)!Ptr /\ rd_empty' \in BOOLEAN
      /\ rd_almost_empty' \in BOOLEAN /\ rd_count' \in Fifo(u)!Ptr
    <2>1. UNCHANGED <<rd_addr, rd_addr_gray, rd_wr_src, rd_wr_addr_gray, rd_wr_addr,
                          rd_empty, rd_almost_empty, rd_count>>
        BY WrCases
    <2> QED BY <2>1 DEF Fifo!TypeOK
<1>5. ASSUME Fifo(u)!WrReset
      PROVE  /\ wr_addr' \in Fifo(u)!Ptr /\ wr_rd_addr' \in Fifo(u)!Ptr
             /\ wr_addr_gray' \in Fifo(u)!Words /\ wr_wire' \in Fifo(u)!Words
             /\ wr_rd_src' \in Fifo(u)!Words /\ wr_rd_addr_gray' \in Fifo(u)!Words
             /\ rd_wire' \in Fifo(u)!Words
             /\ wr_full' \in BOOLEAN /\ wr_almost_full' \in BOOLEAN /\ wr_free' \in Fifo(u)!Ptr
    BY <1>5, PointerTypes DEF Fifo!WrReset, Fifo!TypeOK
<1>6. ASSUME NEW n \in {0, 1}, Fifo(u)!WrRunning(n)
      PROVE  /\ wr_addr' \in Fifo(u)!Ptr /\ wr_rd_addr' \in Fifo(u)!Ptr
             /\ wr_addr_gray' \in Fifo(u)!Words /\ wr_wire' \in Fifo(u)!Words
             /\ wr_rd_src' \in Fifo(u)!Words /\ wr_rd_addr_gray' \in Fifo(u)!Words
             /\ rd_wire' \in Fifo(u)!Words
             /\ wr_full' \in BOOLEAN /\ wr_almost_full' \in BOOLEAN /\ wr_free' \in Fifo(u)!Ptr
    <2>1. rst["wr"] = "run"
        BY <1>6 DEF Fifo!WrRunning, Fifo!R!Running
    <2>2. wr_addr \in Fifo(u)!Ptr /\ wr_addr \in Int /\ wr_rd_addr \in Int /\ n \in Int
          /\ Fifo(u)!GrayToBin(wr_rd_addr_gray) \in Int /\ Fifo(u)!DEPTH \in Int
        BY <2>1, PointerTypes DEF Fifo!TypeOK
    <2>3. wr_addr' \in Fifo(u)!Ptr /\ wr_rd_addr' \in Fifo(u)!Ptr
        BY <1>6, <2>2, PlusType DEF Fifo!WrRunning
    <2>4. wr_free' \in Fifo(u)!Ptr
        <3>1. wr_free' = Fifo(u)!Minus(wr_rd_addr, wr_addr + n)
            BY <1>6 DEF Fifo!WrRunning, Fifo!WrFreeNext
        <3>2. wr_addr + n \in Int
            BY <2>2
        <3> QED BY <2>2, <3>1, <3>2, PlusType
    <2>5. wr_full' \in BOOLEAN
        BY <1>6, Zenon DEF Fifo!WrRunning, Fifo!WrFullNext
    <2>6. wr_almost_full' \in BOOLEAN
        <3>1. CASE u.almost_full = 0
            BY <1>6, <3>1, <2>5 DEF Fifo!WrRunning, Fifo!WrAlmostFullNext
        <3>2. CASE u.almost_full # 0
            <4> DEFINE m == Fifo(u)!Minus(wr_rd_addr, Fifo(u)!Plus(wr_addr, u.almost_full + 1) + n)
            <4>1. wr_almost_full' = (m >= Fifo(u)!DEPTH)
                BY <1>6, <3>2 DEF Fifo!WrRunning, Fifo!WrAlmostFullNext
            <4>2. m \in Int /\ Fifo(u)!DEPTH \in Int
                <5>1. u.almost_full + 1 \in Int /\ Fifo(u)!DEPTH \in Int
                    BY Parameters, Sizes
                <5>2. Fifo(u)!Plus(wr_addr, u.almost_full + 1) \in Int
                    BY <5>1, <2>2, PlusType, PointerTypes
                <5>3. Fifo(u)!Plus(wr_addr, u.almost_full + 1) + n \in Int
                    BY <5>2, <2>2
                <5> QED BY <5>1, <5>3, <2>2, PlusType, PointerTypes
            <4> HIDE DEF m
            <4> QED BY <4>1, <4>2
        <3> QED BY <3>1, <3>2
    <2>7. wr_addr_gray' \in Fifo(u)!Words
        BY <1>6, <2>2, PointerTypes DEF Fifo!WrRunning
    <2>8. wr_rd_src' \in Fifo(u)!Words /\ rd_wire' \in Fifo(u)!Words
        BY <1>6 DEF Fifo!WrRunning, Fifo!Sampled
    <2>9. wr_wire' \in Fifo(u)!Words /\ wr_rd_addr_gray' \in Fifo(u)!Words
        BY <1>6 DEF Fifo!WrRunning, Fifo!TypeOK
    <2> QED BY <2>3, <2>4, <2>5, <2>6, <2>7, <2>8, <2>9
<1>7. \/ Fifo(u)!WrReset
      \/ \E n \in {0, 1} : Fifo(u)!WrRunning(n)
    BY WrCases
<1>8. /\ wr_addr' \in Fifo(u)!Ptr /\ wr_rd_addr' \in Fifo(u)!Ptr
      /\ wr_addr_gray' \in Fifo(u)!Words /\ wr_wire' \in Fifo(u)!Words
      /\ wr_rd_src' \in Fifo(u)!Words /\ wr_rd_addr_gray' \in Fifo(u)!Words
      /\ rd_wire' \in Fifo(u)!Words
      /\ wr_full' \in BOOLEAN /\ wr_almost_full' \in BOOLEAN /\ wr_free' \in Fifo(u)!Ptr
    BY <1>5, <1>6, <1>7
<1> QED BY <1>1, <1>2, <1>3, <1>4, <1>8 DEF Fifo!TypeOK

LEMMA RdTypes ==
    ASSUME NEW u \in Units, Fifo(u)!TypeOK, Fifo(u)!RdClk,
           rst["rd"] = "run" => Fifo(u)!GrayToBin(rd_wr_addr_gray) \in Fifo(u)!Ptr
    PROVE  Fifo(u)!TypeOK'
<1>1. rst' \in [Fifo(u)!Domains -> Fifo(u)!R!ResetState]
    BY RdCases, RdEdge
<1>4. /\ mem' \in [0..Fifo(u)!DEPTH-1 -> u.data \cup {None}]
      /\ wr_r' \in {Fifo(u)!NoWrite} \cup [push : {TRUE}, addr : Fifo(u)!Ptr, data : u.data]
      /\ wr_addr' \in Fifo(u)!Ptr /\ wr_rd_addr' \in Fifo(u)!Ptr
      /\ wr_addr_gray' \in Fifo(u)!Words
      /\ wr_rd_src' \in Fifo(u)!Words /\ wr_rd_addr_gray' \in Fifo(u)!Words
      /\ wr_full' \in BOOLEAN /\ wr_almost_full' \in BOOLEAN /\ wr_free' \in Fifo(u)!Ptr
    <2>1. UNCHANGED <<mem, wr_r, wr_addr, wr_addr_gray, wr_rd_src, wr_rd_addr_gray, wr_rd_addr,
                      wr_full, wr_almost_full, wr_free>>
        BY RdCases
    <2> QED BY <2>1 DEF Fifo!TypeOK
<1>5. ASSUME Fifo(u)!RdReset
      PROVE  /\ rd_addr' \in Fifo(u)!Ptr /\ rd_addr_gray' \in Fifo(u)!Words
             /\ rd_wr_src' \in Fifo(u)!Words /\ rd_wr_addr_gray' \in Fifo(u)!Words
             /\ rd_wr_addr' \in Fifo(u)!Ptr /\ rd_empty' \in BOOLEAN
             /\ rd_almost_empty' \in BOOLEAN /\ rd_count' \in Fifo(u)!Ptr
             /\ wr_wire' \in Fifo(u)!Words /\ rd_wire' \in Fifo(u)!Words
    BY <1>5, PointerTypes DEF Fifo!RdReset, Fifo!TypeOK
<1>6. ASSUME NEW n \in {0, 1}, Fifo(u)!RdRunning(n)
      PROVE  /\ rd_addr' \in Fifo(u)!Ptr /\ rd_addr_gray' \in Fifo(u)!Words
             /\ rd_wr_src' \in Fifo(u)!Words /\ rd_wr_addr_gray' \in Fifo(u)!Words
             /\ rd_wr_addr' \in Fifo(u)!Ptr /\ rd_empty' \in BOOLEAN
             /\ rd_almost_empty' \in BOOLEAN /\ rd_count' \in Fifo(u)!Ptr
             /\ wr_wire' \in Fifo(u)!Words /\ rd_wire' \in Fifo(u)!Words
    <2>1. rst["rd"] = "run"
        BY <1>6 DEF Fifo!RdRunning, Fifo!R!Running
    <2>2. rd_addr \in Fifo(u)!Ptr /\ rd_addr \in Int /\ rd_wr_addr \in Int /\ n \in Int
        BY PointerTypes DEF Fifo!TypeOK
    <2>3. rd_addr' \in Fifo(u)!Ptr
        BY <1>6, <2>2, PlusType DEF Fifo!RdRunning
    <2>4. rd_count' \in Fifo(u)!Ptr
        <3>1. rd_count' = Fifo(u)!Minus(rd_wr_addr, rd_addr + n)
            BY <1>6 DEF Fifo!RdRunning, Fifo!RdCountNext
        <3>2. rd_addr + n \in Int
            BY <2>2
        <3> QED BY <2>2, <3>1, <3>2, PlusType
    <2>5. rd_empty' \in BOOLEAN
        BY <1>6, Zenon DEF Fifo!RdRunning, Fifo!RdEmptyNext
    <2>6. rd_almost_empty' \in BOOLEAN
        <3>1. CASE u.almost_empty = 0
            BY <1>6, <3>1, <2>5 DEF Fifo!RdRunning, Fifo!RdAlmostEmptyNext
        <3>2. CASE u.almost_empty # 0
            <4> DEFINE m == Fifo(u)!Minus(rd_wr_addr, Fifo(u)!Plus(rd_addr, u.almost_empty + 1) + n)
            <4>1. rd_almost_empty' = (m >= Fifo(u)!DEPTH)
                BY <1>6, <3>2 DEF Fifo!RdRunning, Fifo!RdAlmostEmptyNext
            <4>2. m \in Int /\ Fifo(u)!DEPTH \in Int
                <5>1. u.almost_empty + 1 \in Int /\ Fifo(u)!DEPTH \in Int
                    BY Parameters, Sizes
                <5>2. Fifo(u)!Plus(rd_addr, u.almost_empty + 1) \in Int
                    BY <5>1, <2>2, PlusType, PointerTypes
                <5>3. Fifo(u)!Plus(rd_addr, u.almost_empty + 1) + n \in Int
                    BY <5>2, <2>2
                <5> QED BY <5>1, <5>3, <2>2, PlusType, PointerTypes
            <4> HIDE DEF m
            <4> QED BY <4>1, <4>2
        <3> QED BY <3>1, <3>2
    <2>7. rd_addr_gray' \in Fifo(u)!Words
        BY <1>6, <2>2, PointerTypes DEF Fifo!RdRunning
    <2>8. rd_wr_src' \in Fifo(u)!Words /\ wr_wire' \in Fifo(u)!Words
        BY <1>6 DEF Fifo!RdRunning, Fifo!Sampled
    <2>9. rd_wire' \in Fifo(u)!Words /\ rd_wr_addr_gray' \in Fifo(u)!Words
        BY <1>6 DEF Fifo!RdRunning, Fifo!TypeOK
    <2>10. rd_wr_addr' \in Fifo(u)!Ptr
        BY <1>6, <2>1 DEF Fifo!RdRunning
    <2> QED BY <2>3, <2>4, <2>5, <2>6, <2>7, <2>8, <2>9, <2>10
<1>7. \/ Fifo(u)!RdReset
      \/ \E n \in {0, 1} : Fifo(u)!RdRunning(n)
    BY RdCases
<1>8. /\ rd_addr' \in Fifo(u)!Ptr /\ rd_addr_gray' \in Fifo(u)!Words
      /\ rd_wr_src' \in Fifo(u)!Words /\ rd_wr_addr_gray' \in Fifo(u)!Words
      /\ rd_wr_addr' \in Fifo(u)!Ptr /\ rd_empty' \in BOOLEAN
      /\ rd_almost_empty' \in BOOLEAN /\ rd_count' \in Fifo(u)!Ptr
      /\ wr_wire' \in Fifo(u)!Words /\ rd_wire' \in Fifo(u)!Words
    BY <1>5, <1>6, <1>7
<1> QED BY <1>1, <1>4, <1>8 DEF Fifo!TypeOK
--------------------------------------------------------------------------------
(* An edge of a running side moves the indices along: k is the index of    *)
(* the pointer of the other side as it is sampled.                         *)
WrMove(c, n, k) ==
    [c EXCEPT !.w = c.w + n, !.wg = c.w, !.ww = c.wg,
              !.rw = k, !.rs1 = k, !.rs2 = c.rs1, !.rs3 = c.rs2]
RdMove(c, n, k) ==
    [c EXCEPT !.r = c.r + n, !.rg = c.r, !.rw = c.rg,
              !.ww = k, !.ws1 = k, !.ws2 = c.ws1, !.ws3 = c.ws2]

LEMMA WrRunTracks ==
    ASSUME NEW u \in Units, NEW c \in Index, Tracks(u, c), NEW n \in {0, 1},
           Fifo(u)!WrRunning(n), n = 1 => ~wr_full,
           n = 0 => wr_r' = Fifo(u)!NoWrite,
           n = 1 => \E x \in u.data : wr_r' = Fifo(u)!Write(wr_addr, x),
           rst'["wr"] = "run", rst'["rd"] = rst["rd"],
           UNCHANGED <<rd_addr, rd_addr_gray, rd_wr_src, rd_wr_addr_gray, rd_wr_addr,
                       rd_empty, rd_almost_empty, rd_count>>
    PROVE  \E k \in {c.rw, c.rg} : WrMove(c, n, k) \in Index /\ Tracks(u, WrMove(c, n, k))'
<1> DEFINE N == Fifo(u)!SIZE
           D == Fifo(u)!DEPTH
<1>1. /\ c.w \in Nat /\ c.wg \in Nat /\ c.ww \in Nat
      /\ c.ws1 \in Nat /\ c.ws2 \in Nat /\ c.ws3 \in Nat
      /\ c.r \in Nat /\ c.rg \in Nat /\ c.rw \in Nat
      /\ c.rs1 \in Nat /\ c.rs2 \in Nat /\ c.rs3 \in Nat
    BY DEF Index
<1>2. N \in Nat /\ N > 0 /\ D \in Nat
    BY Sizes
<1>3. Ordered(u, c) /\ WrRegs(u, c) /\ RdRegs(u, c) /\ Wires(u, c)
      /\ WrFlags(u, c) /\ RdFlags(u, c) /\ AtReset(c)
    BY DEF Tracks
<1>4. PICK k \in {c.rw, c.rg} : wr_rd_src' = Code(u, k)
    <2>1. c.rw <= c.rg /\ c.rg <= c.rw + 1
        BY <1>3 DEF Ordered
    <2>2. Fifo(u)!Sampled(Code(u, c.rw), Code(u, c.rg)) = {Code(u, c.rw), Code(u, c.rg)}
        BY <1>1, <2>1, SampledIndex
    <2>3. wr_rd_src' \in Fifo(u)!Sampled(Code(u, c.rw), Code(u, c.rg))
        BY <1>3 DEF Fifo!WrRunning, Wires, RdRegs
    <2> QED BY <2>2, <2>3
<1> DEFINE d == WrMove(c, n, k)
<1>5. /\ d.w = c.w + n /\ d.wg = c.w /\ d.ww = c.wg
      /\ d.rw = k /\ d.rs1 = k /\ d.rs2 = c.rs1 /\ d.rs3 = c.rs2
      /\ d.ws1 = c.ws1 /\ d.ws2 = c.ws2 /\ d.ws3 = c.ws3 /\ d.r = c.r /\ d.rg = c.rg
      /\ d \in Index
    <2>1. c.w + n \in Nat /\ k \in Nat
        BY <1>1
    <2> QED BY <1>1, <2>1 DEF WrMove, Index
<1> HIDE DEF d
<1>6. c.w + n <= c.rs3 + D
    BY <1>1, <1>2, <1>3 DEF Ordered, WrFlags
<1>7. Ordered(u, d)
    <2>1. c.rw <= k /\ k <= c.rg /\ k \in Nat
        BY <1>1, <1>3 DEF Ordered
    <2> HIDE DEF D
    <2> QED BY <1>1, <1>2, <1>3, <1>5, <1>6, <2>1 DEF Ordered, D
<1>8. WrRegs(u, d)'
    <2>1. wr_addr' = d.w % N
        <3>1. wr_addr' = ((c.w % N) + n) % N
            BY <1>3 DEF WrRegs, Fifo!WrRunning, Fifo!Plus
        <3>2. n \in Int /\ c.w \in Int
            BY <1>1
        <3>3. ((c.w % N) + n) % N = (c.w + n) % N
            BY <1>2, <3>2, RemainderSum
        <3> QED BY <1>5, <3>1, <3>3
    <2>2. wr_addr_gray' = Code(u, d.wg)
        BY <1>3, <1>5 DEF WrRegs, Fifo!WrRunning, Code
    <2>3. wr_rd_src' = Code(u, d.rs1) /\ wr_rd_addr_gray' = Code(u, d.rs2)
        BY <1>3, <1>4, <1>5 DEF WrRegs, Fifo!WrRunning
    <2>4. wr_rd_addr' = (d.rs3 + D) % N
        <3>1. wr_rd_addr' = (Fifo(u)!GrayToBin(Code(u, c.rs2)) + D) % N
            BY <1>3 DEF WrRegs, Fifo!WrRunning, Fifo!Plus
        <3>2. Fifo(u)!GrayToBin(Code(u, c.rs2)) = c.rs2 % N
            BY <1>1, CodeBack
        <3>3. c.rs2 \in Int /\ D \in Int
            BY <1>1, <1>2
        <3>4. ((c.rs2 % N) + D) % N = (c.rs2 + D) % N
            <4> HIDE DEF N, D
            <4> QED BY <1>2, <3>3, RemainderSum
        <3> QED BY <1>5, <3>1, <3>2, <3>4
    <2> QED BY <2>1, <2>2, <2>3, <2>4 DEF WrRegs
<1>9. RdRegs(u, d)'
    BY <1>3, <1>5 DEF RdRegs
<1>10. Wires(u, d)'
    <2>1. wr_wire' = Code(u, d.ww)
        BY <1>3, <1>5 DEF WrRegs, Fifo!WrRunning
    <2>2. rd_wire' = Code(u, d.rw)
        BY <1>4, <1>5 DEF Fifo!WrRunning
    <2> QED BY <2>1, <2>2 DEF Wires
<1>11. WrFlags(u, d)'
    <2>1. /\ ~Fifo(u)!WrFullNext(n) => c.w + n < c.rs3 + D
          /\ ~Fifo(u)!WrAlmostFullNext(n) => c.w + n + u.almost_full < c.rs3 + D
          /\ Fifo(u)!WrFreeNext(n) = c.rs3 + D - c.w - n
        <3>1. wr_addr = c.w % N /\ wr_rd_addr = (c.rs3 + D) % N
            BY <1>3 DEF WrRegs
        <3>2. c.rs3 <= c.w
            BY <1>1, <1>3 DEF Ordered
        <3> QED BY <1>1, <1>6, <3>1, <3>2, WrFlagsNext
    <2>2. /\ wr_full' = Fifo(u)!WrFullNext(n)
          /\ wr_almost_full' = Fifo(u)!WrAlmostFullNext(n)
          /\ wr_free' = Fifo(u)!WrFreeNext(n)
        BY DEF Fifo!WrRunning
    <2>3. c.rs3 <= c.rs2
        BY <1>3 DEF Ordered
    <2>4. u.almost_full \in Nat
        BY Parameters, Sizes
    <2>5. ~wr_full' => c.w + n < c.rs3 + D
        BY <2>1, <2>2
    <2>6. ~wr_almost_full' => c.w + n + u.almost_full < c.rs3 + D
        BY <2>1, <2>2
    <2>7. wr_free' = c.rs3 + D - c.w - n
        BY <2>1, <2>2
    <2> QED BY <1>1, <1>2, <1>5, <2>3, <2>4, <2>5, <2>6, <2>7 DEF WrFlags
<1>12. RdFlags(u, d)'
    BY <1>3, <1>5 DEF RdFlags
<1>13. Delayed(u, d)'
    <2>1. CASE n = 0
        <3>1. wr_r'.push = FALSE
            BY <2>1 DEF Fifo!NoWrite
        <3> QED BY <3>1 DEF Delayed
    <2>2. CASE n = 1
        <3>1. wr_r'.addr = wr_addr
            BY <2>2 DEF Fifo!Write
        <3> QED BY <1>3, <1>5, <2>2, <3>1 DEF Delayed, WrRegs
    <2> QED BY <2>1, <2>2
<1>14. AtReset(d)'
    BY <1>3, <1>5 DEF AtReset
<1> QED BY <1>5, <1>7, <1>8, <1>9, <1>10, <1>11, <1>12, <1>13, <1>14 DEF Tracks, d, Ordered

LEMMA RdRunTracks ==
    ASSUME NEW u \in Units, NEW c \in Index, Tracks(u, c), NEW n \in {0, 1},
           Fifo(u)!RdRunning(n), n = 1 => ~rd_empty,
           rst'["rd"] = "run", rst'["wr"] = rst["wr"],
           UNCHANGED wr_r,
           UNCHANGED <<wr_addr, wr_addr_gray, wr_rd_src, wr_rd_addr_gray, wr_rd_addr,
                       wr_full, wr_almost_full, wr_free>>
    PROVE  \E k \in {c.ww, c.wg} : RdMove(c, n, k) \in Index /\ Tracks(u, RdMove(c, n, k))'
<1> DEFINE N == Fifo(u)!SIZE
           D == Fifo(u)!DEPTH
<1>1. /\ c.w \in Nat /\ c.wg \in Nat /\ c.ww \in Nat
      /\ c.ws1 \in Nat /\ c.ws2 \in Nat /\ c.ws3 \in Nat
      /\ c.r \in Nat /\ c.rg \in Nat /\ c.rw \in Nat
      /\ c.rs1 \in Nat /\ c.rs2 \in Nat /\ c.rs3 \in Nat
    BY DEF Index
<1>2. N \in Nat /\ N > 0 /\ D \in Nat
    BY Sizes
<1>3. Ordered(u, c) /\ WrRegs(u, c) /\ RdRegs(u, c) /\ Wires(u, c)
      /\ WrFlags(u, c) /\ RdFlags(u, c) /\ AtReset(c) /\ Delayed(u, c)
    BY DEF Tracks
<1>4. PICK k \in {c.ww, c.wg} : rd_wr_src' = Code(u, k)
    <2>1. c.ww <= c.wg /\ c.wg <= c.ww + 1
        BY <1>3 DEF Ordered
    <2>2. Fifo(u)!Sampled(Code(u, c.ww), Code(u, c.wg)) = {Code(u, c.ww), Code(u, c.wg)}
        BY <1>1, <2>1, SampledIndex
    <2>3. rd_wr_src' \in Fifo(u)!Sampled(Code(u, c.ww), Code(u, c.wg))
        BY <1>3 DEF Fifo!RdRunning, Wires, WrRegs
    <2> QED BY <2>2, <2>3
<1> DEFINE d == RdMove(c, n, k)
<1>5. /\ d.r = c.r + n /\ d.rg = c.r /\ d.rw = c.rg
      /\ d.ww = k /\ d.ws1 = k /\ d.ws2 = c.ws1 /\ d.ws3 = c.ws2
      /\ d.rs1 = c.rs1 /\ d.rs2 = c.rs2 /\ d.rs3 = c.rs3 /\ d.w = c.w /\ d.wg = c.wg
      /\ d \in Index
    <2>1. c.r + n \in Nat /\ k \in Nat
        BY <1>1
    <2> QED BY <1>1, <2>1 DEF RdMove, Index
<1> HIDE DEF d
<1>6. c.r + n <= c.ws3 /\ c.ws3 <= c.r + D
    BY <1>1, <1>2, <1>3 DEF Ordered, RdFlags
<1>7. Ordered(u, d)
    <2>1. c.ww <= k /\ k <= c.wg /\ k \in Nat
        BY <1>1, <1>3 DEF Ordered
    <2> HIDE DEF D
    <2> QED BY <1>1, <1>2, <1>3, <1>5, <1>6, <2>1 DEF Ordered, D
<1>8. RdRegs(u, d)'
    <2>1. rd_addr' = d.r % N
        <3>1. rd_addr' = ((c.r % N) + n) % N
            BY <1>3 DEF RdRegs, Fifo!RdRunning, Fifo!Plus
        <3>2. n \in Int /\ c.r \in Int
            BY <1>1
        <3>3. ((c.r % N) + n) % N = (c.r + n) % N
            BY <1>2, <3>2, RemainderSum
        <3> QED BY <1>5, <3>1, <3>3
    <2>2. rd_addr_gray' = Code(u, d.rg)
        BY <1>3, <1>5 DEF RdRegs, Fifo!RdRunning, Code
    <2>3. rd_wr_src' = Code(u, d.ws1) /\ rd_wr_addr_gray' = Code(u, d.ws2)
        BY <1>3, <1>4, <1>5 DEF RdRegs, Fifo!RdRunning
    <2>4. rd_wr_addr' = d.ws3 % N
        <3>1. rd_wr_addr' = Fifo(u)!GrayToBin(Code(u, c.ws2))
            BY <1>3 DEF RdRegs, Fifo!RdRunning
        <3> QED BY <1>1, <1>5, <3>1, CodeBack
    <2> QED BY <2>1, <2>2, <2>3, <2>4 DEF RdRegs
<1>9. WrRegs(u, d)'
    BY <1>3, <1>5 DEF WrRegs
<1>10. Wires(u, d)'
    <2>1. rd_wire' = Code(u, d.rw)
        BY <1>3, <1>5 DEF RdRegs, Fifo!RdRunning
    <2>2. wr_wire' = Code(u, d.ww)
        BY <1>4, <1>5 DEF Fifo!RdRunning
    <2> QED BY <2>1, <2>2 DEF Wires
<1>11. RdFlags(u, d)'
    <2>1. /\ ~Fifo(u)!RdEmptyNext(n) => c.r + n < c.ws3
          /\ ~Fifo(u)!RdAlmostEmptyNext(n) => c.r + n + u.almost_empty < c.ws3
          /\ Fifo(u)!RdCountNext(n) = c.ws3 - c.r - n
        <3>1. rd_addr = c.r % N /\ rd_wr_addr = c.ws3 % N
            BY <1>3 DEF RdRegs
        <3> QED BY <1>1, <1>6, <3>1, RdFlagsNext
    <2>2. /\ rd_empty' = Fifo(u)!RdEmptyNext(n)
          /\ rd_almost_empty' = Fifo(u)!RdAlmostEmptyNext(n)
          /\ rd_count' = Fifo(u)!RdCountNext(n)
        BY DEF Fifo!RdRunning
    <2>3. c.ws3 <= c.ws2
        BY <1>3 DEF Ordered
    <2>4. u.almost_empty \in Nat
        BY Parameters, Sizes
    <2>5. ~rd_empty' => c.r + n < c.ws3
        BY <2>1, <2>2
    <2>6. ~rd_almost_empty' => c.r + n + u.almost_empty < c.ws3
        BY <2>1, <2>2
    <2>7. rd_count' = c.ws3 - c.r - n
        BY <2>1, <2>2
    <2> QED BY <1>1, <1>2, <1>5, <2>3, <2>4, <2>5, <2>6, <2>7 DEF RdFlags
<1>12. WrFlags(u, d)'
    BY <1>3, <1>5 DEF WrFlags
<1>13. Delayed(u, d)'
    BY <1>3, <1>5 DEF Delayed
<1>14. AtReset(d)'
    BY <1>3, <1>5 DEF AtReset
<1> QED BY <1>5, <1>7, <1>8, <1>9, <1>10, <1>11, <1>12, <1>13, <1>14 DEF Tracks, d, Ordered
--------------------------------------------------------------------------------
(* The invariant is kept by each action. *)

LEMMA InitInv ==
    ASSUME NEW u \in Units, Fifo(u)!Init
    PROVE  UnitInv(u)
<1>1. rst["wr"] = "held" /\ rst["rd"] = "held"
    BY DEF Fifo!Init, Fifo!Domains
<1>2. Fifo(u)!TypeOK
    <2>1. rst \in [Fifo(u)!Domains -> Fifo(u)!R!ResetState]
        BY DEF Fifo!Init, Fifo!R!ResetState
    <2>2. mem \in [0..Fifo(u)!DEPTH-1 -> u.data \cup {None}]
        BY DEF Fifo!Init
    <2> QED BY <2>1, <2>2, PointerTypes DEF Fifo!Init, Fifo!TypeOK
<1>3. /\ WrRegs(u, Zero) /\ RdRegs(u, Zero) /\ Wires(u, Zero)
      /\ wr_wire = Code(u, 0) /\ rd_wire = Code(u, 0) /\ wr_full
    BY ZeroFacts DEF Fifo!Init, WrRegs, RdRegs, Wires, Zero
<1>4. WrFlags(u, Zero) /\ RdFlags(u, Zero)
    BY Sizes DEF Fifo!Init, WrFlags, RdFlags, Zero
<1>5. Tracks(u, Zero)
    BY <1>1, <1>3, <1>4, ZeroFacts DEF Tracks, Delayed, AtReset, Zero
<1>6. Crossing(u)
    BY <1>3 DEF Crossing, WrRegs, RdRegs, Zero
<1> QED BY <1>1, <1>2, <1>3, <1>4, <1>5, <1>6, ZeroFacts DEF UnitInv, Pending, WrHeld, RdHeld

LEMMA AssertInv ==
    ASSUME NEW u \in Units, UnitInv(u), Fifo(u)!RstAssert
    PROVE  UnitInv(u)'
<1>1. rst' = [d \in Fifo(u)!Domains |-> "pending"]
    BY DEF Fifo!RstAssert, Fifo!R!Assert
<1>2. rst'["wr"] = "pending" /\ rst'["rd"] = "pending"
    BY <1>1 DEF Fifo!Domains
<1>3. UNCHANGED <<mem, wr_addr, wr_r, wr_addr_gray, wr_wire, wr_rd_src, wr_rd_addr_gray,
                  wr_rd_addr, wr_full, wr_almost_full, wr_free,
                  rd_addr, rd_addr_gray, rd_wire, rd_wr_src, rd_wr_addr_gray, rd_wr_addr,
                  rd_empty, rd_almost_empty, rd_count>>
    BY DEF Fifo!RstAssert, Fifo!wrVars, Fifo!rdVars
<1>4. Fifo(u)!TypeOK'
    <2>1. rst' \in [Fifo(u)!Domains -> Fifo(u)!R!ResetState]
        BY <1>1 DEF Fifo!R!ResetState
    <2> QED BY <1>3, <2>1 DEF UnitInv, Fifo!TypeOK
<1>5. Crossing(u)'
    BY <1>3 DEF UnitInv, Crossing
<1> QED BY <1>2, <1>4, <1>5 DEF UnitInv, Pending, WrHeld, RdHeld

(* Indices in order are those of pointers that cross cleanly. *)
LEMMA OrderedCross ==
    ASSUME NEW u \in Units, NEW c \in Index, Ordered(u, c)
    PROVE  /\ c.ww \in Nat /\ c.rw \in Nat
           /\ Code(u, c.wg) \in {Code(u, c.ww), Code(u, c.ww + 1)}
           /\ Code(u, c.rg) \in {Code(u, c.rw), Code(u, c.rw + 1)}
<1>1. /\ c.ww \in Nat /\ c.rw \in Nat
      /\ c.wg = c.ww \/ c.wg = c.ww + 1
      /\ c.rg = c.rw \/ c.rg = c.rw + 1
    BY DEF Index, Ordered
<1> QED BY <1>1

LEMMA WrClkInv ==
    ASSUME NEW u \in Units, UnitInv(u), Fifo(u)!WrClk
    PROVE  UnitInv(u)'
<1>1. /\ Fifo(u)!TypeOK /\ WrHeld(u) /\ RdHeld(u) /\ Crossing(u)
      /\ Pending => rst["wr"] # "run" /\ rst["rd"] # "run"
      /\ ~Pending => \E c \in Index : Tracks(u, c)
    BY DEF UnitInv
<1>2. UNCHANGED <<rd_addr, rd_addr_gray, rd_wr_src, rd_wr_addr_gray, rd_wr_addr,
                  rd_empty, rd_almost_empty, rd_count>>
    BY <1>1, WrCases
<1>3. /\ rst["wr"] \in {"pending", "held", "run"} /\ rst["rd"] \in {"pending", "held", "run"}
      /\ rst'["rd"] = rst["rd"]
      /\ rst["wr"] = "run" => rst'["wr"] = "run"
      /\ rst["wr"] = "pending" => rst'["wr"] = "held"
      /\ rst["wr"] = "held" =>
             rst'["wr"] = "held" \/ (rst'["wr"] = "run" /\ rst["rd"] # "pending")
    BY <1>1, WrCases, WrEdge
<1>4. CASE Fifo(u)!WrReset
    <2>1. rst["wr"] # "run"
        BY <1>4 DEF Fifo!WrReset, Fifo!R!Running
    <2>2. Fifo(u)!TypeOK'
        BY <1>1, <2>1, WrTypes
    <2>3. WrRegs(u, Zero)' /\ wr_wire' = Code(u, 0) /\ wr_full' = TRUE /\ rd_wire' = rd_wire
        BY <1>4, ZeroFacts DEF Fifo!WrReset, WrRegs, Zero
    <2>4. WrFlags(u, Zero)'
        BY <1>4, Sizes DEF Fifo!WrReset, WrFlags, Zero
    <2>5. WrHeld(u)'
        BY <2>3, <2>4 DEF WrHeld
    <2>6. RdHeld(u)'
        BY <1>1, <1>2, <1>3, <2>3 DEF RdHeld, RdRegs, RdFlags
    <2>7. Pending' => rst'["wr"] # "run" /\ rst'["rd"] # "run"
        BY <1>3, <2>1 DEF Pending
    <2>8. Crossing(u)'
        <3>1. wr_wire' = Code(u, 0) /\ wr_addr_gray' = Code(u, 0)
            BY <2>3 DEF WrRegs, Zero
        <3>2. PICK j \in Nat : rd_wire = Code(u, j) /\ rd_addr_gray \in {Code(u, j), Code(u, j + 1)}
            BY <1>1 DEF Crossing
        <3> QED BY <1>2, <2>3, <3>1, <3>2 DEF Crossing
    <2>9. ASSUME ~Pending' PROVE Tracks(u, Zero)'
        <3>1. RdRegs(u, Zero) /\ RdFlags(u, Zero) /\ rd_wire = Code(u, 0)
            <4>1. CASE rst["wr"] = "pending"
                <5>1. rst["rd"] = "held"
                    BY <1>1, <1>3, <2>9, <4>1 DEF Pending
                <5> QED BY <1>1, <5>1 DEF RdHeld
            <4>2. CASE rst["wr"] = "held"
                <5>1. ~Pending
                    BY <1>3, <2>9, <4>2 DEF Pending
                <5>2. PICK c \in Index : Tracks(u, c)
                    BY <1>1, <5>1
                <5>3. c.w = 0 /\ Ordered(u, c)
                    BY <4>2, <5>2 DEF Tracks, AtReset
                <5>4. c = Zero
                    BY <5>3, AllZero
                <5>5. Tracks(u, Zero)
                    BY <5>2, <5>4
                <5> QED BY <5>5 DEF Tracks, Wires, Zero
            <4> QED BY <1>3, <2>1, <4>1, <4>2
        <3>2. RdRegs(u, Zero)' /\ RdFlags(u, Zero)'
            BY <1>2, <3>1 DEF RdRegs, RdFlags
        <3>3. Wires(u, Zero)'
            BY <2>3, <3>1 DEF Wires, Zero
        <3>4. Delayed(u, Zero)'
            <4>1. ASSUME rst'["wr"] = "run" PROVE wr_r'.push = FALSE
                <5>1. rst["wr"] = "held"
                    BY <1>3, <2>1, <4>1
                <5>2. wr_full
                    BY <1>1, <5>1 DEF WrHeld
                <5>3. wr_r' = Fifo(u)!NoWrite
                    BY <1>1, <5>2, WrCases
                <5> QED BY <5>3 DEF Fifo!NoWrite
            <4> QED BY <4>1 DEF Delayed
        <3>5. AtReset(Zero)' /\ Ordered(u, Zero)'
            BY ZeroFacts DEF AtReset, Zero, Ordered
        <3> QED BY <2>3, <2>4, <3>2, <3>3, <3>4, <3>5 DEF Tracks
    <2>10. ~Pending' => \E c \in Index : Tracks(u, c)'
        BY <2>9, ZeroFacts
    <2> QED BY <2>2, <2>5, <2>6, <2>7, <2>8, <2>10 DEF UnitInv
<1>5. ASSUME NEW n \in {0, 1}, Fifo(u)!WrRunning(n), n = 1 => ~wr_full,
             n = 0 => wr_r' = Fifo(u)!NoWrite,
             n = 1 => \E x \in u.data : wr_r' = Fifo(u)!Write(wr_addr, x)
      PROVE  UnitInv(u)'
    <2>1. rst["wr"] = "run" /\ rst'["wr"] = "run"
        BY <1>3, <1>5 DEF Fifo!WrRunning, Fifo!R!Running
    <2>2. ~Pending /\ ~Pending'
        BY <1>1, <1>3, <2>1 DEF Pending
    <2>3. PICK c \in Index : Tracks(u, c)
        BY <1>1, <2>2
    <2>4. PICK k \in {c.rw, c.rg} : WrMove(c, n, k) \in Index /\ Tracks(u, WrMove(c, n, k))'
        BY <1>2, <1>3, <1>5, <2>1, <2>3, WrRunTracks
    <2>5. Fifo(u)!TypeOK'
        <3>1. wr_rd_addr_gray = Code(u, c.rs2) /\ c.rs2 \in Nat
            BY <2>3 DEF Tracks, WrRegs, Index
        <3>2. Fifo(u)!GrayToBin(wr_rd_addr_gray) \in Nat
            BY <3>1, CodeBack, CodeWord
        <3> QED BY <1>1, <3>2, WrTypes
    <2> DEFINE d == WrMove(c, n, k)
    <2> HIDE DEF d
    <2>6. d \in Index /\ Tracks(u, d)'
        BY <2>4 DEF d
    <2>7. Crossing(u)'
        <3>1. Ordered(u, d)
            BY <2>6 DEF Tracks, Ordered
        <3>2. /\ wr_wire' = Code(u, d.ww) /\ wr_addr_gray' = Code(u, d.wg)
              /\ rd_wire' = Code(u, d.rw) /\ rd_addr_gray' = Code(u, d.rg)
            BY <2>6 DEF Tracks, Wires, WrRegs, RdRegs
        <3> QED BY <2>6, <3>1, <3>2, OrderedCross DEF Crossing
    <2>8. RdHeld(u)'
        <3>1. ASSUME rst["rd"] = "held" PROVE rd_wire' = Code(u, 0)
            <4>1. c.ws1 = 0 /\ Ordered(u, c)
                BY <2>3, <3>1 DEF Tracks, AtReset
            <4>2. c.rw = 0 /\ c.rg = 0
                BY <4>1 DEF Ordered, Index
            <4>3. k = 0
                BY <4>2
            <4>4. rd_wire' = Code(u, d.rw) /\ d.rw = k
                BY <2>6 DEF Tracks, Wires, d, WrMove, Index
            <4> QED BY <4>3, <4>4
        <3> QED BY <1>1, <1>2, <1>3, <3>1 DEF RdHeld, RdRegs, RdFlags
    <2>9. WrHeld(u)'
        BY <2>1 DEF WrHeld
    <2> QED BY <2>2, <2>5, <2>6, <2>7, <2>8, <2>9 DEF UnitInv
<1>6. \/ Fifo(u)!WrReset
      \/ Fifo(u)!WrRunning(0) /\ wr_r' = Fifo(u)!NoWrite
      \/ /\ Fifo(u)!WrRunning(1) /\ ~wr_full
         /\ \E x \in u.data : wr_r' = Fifo(u)!Write(wr_addr, x)
    BY <1>1, WrCases
<1>7. Fifo(u)!WrRunning(0) /\ wr_r' = Fifo(u)!NoWrite => UnitInv(u)'
    BY <1>5
<1>8. /\ Fifo(u)!WrRunning(1) /\ ~wr_full
      /\ \E x \in u.data : wr_r' = Fifo(u)!Write(wr_addr, x)
      => UnitInv(u)'
    BY <1>5
<1> QED BY <1>4, <1>6, <1>7, <1>8

LEMMA RdClkInv ==
    ASSUME NEW u \in Units, UnitInv(u), Fifo(u)!RdClk
    PROVE  UnitInv(u)'
<1>1. /\ Fifo(u)!TypeOK /\ WrHeld(u) /\ RdHeld(u) /\ Crossing(u)
      /\ Pending => rst["wr"] # "run" /\ rst["rd"] # "run"
      /\ ~Pending => \E c \in Index : Tracks(u, c)
    BY DEF UnitInv
<1>2. UNCHANGED wr_r /\
      UNCHANGED <<wr_addr, wr_addr_gray, wr_rd_src, wr_rd_addr_gray, wr_rd_addr,
                  wr_full, wr_almost_full, wr_free>>
    BY <1>1, RdCases
<1>3. /\ rst["wr"] \in {"pending", "held", "run"} /\ rst["rd"] \in {"pending", "held", "run"}
      /\ rst'["wr"] = rst["wr"]
      /\ rst["rd"] = "run" => rst'["rd"] = "run"
      /\ rst["rd"] = "pending" => rst'["rd"] = "held"
      /\ rst["rd"] = "held" =>
             rst'["rd"] = "held" \/ (rst'["rd"] = "run" /\ rst["wr"] # "pending")
    BY <1>1, RdCases, RdEdge
<1>4. CASE Fifo(u)!RdReset
    <2>1. rst["rd"] # "run"
        BY <1>4 DEF Fifo!RdReset, Fifo!R!Running
    <2>2. Fifo(u)!TypeOK'
        BY <1>1, <2>1, RdTypes
    <2>3. RdRegs(u, Zero)' /\ rd_wire' = Code(u, 0) /\ wr_wire' = wr_wire
        BY <1>4, ZeroFacts DEF Fifo!RdReset, RdRegs, Zero
    <2>4. RdFlags(u, Zero)'
        BY <1>4 DEF Fifo!RdReset, RdFlags, Zero
    <2>5. RdHeld(u)'
        BY <2>3, <2>4 DEF RdHeld
    <2>6. WrHeld(u)'
        BY <1>1, <1>2, <1>3, <2>3 DEF WrHeld, WrRegs, WrFlags
    <2>7. Pending' => rst'["wr"] # "run" /\ rst'["rd"] # "run"
        BY <1>1, <1>3, <2>1 DEF Pending
    <2>8. Crossing(u)'
        <3>1. rd_wire' = Code(u, 0) /\ rd_addr_gray' = Code(u, 0)
            BY <2>3 DEF RdRegs, Zero
        <3>2. PICK i \in Nat : wr_wire = Code(u, i) /\ wr_addr_gray \in {Code(u, i), Code(u, i + 1)}
            BY <1>1 DEF Crossing
        <3> QED BY <1>2, <2>3, <3>1, <3>2 DEF Crossing
    <2>9. ASSUME ~Pending' PROVE \E c \in Index : Tracks(u, c)'
        <3>1. CASE rst["rd"] = "pending"
            <4>1. rst["wr"] = "held"
                BY <1>1, <1>3, <2>9, <3>1 DEF Pending
            <4>2. WrRegs(u, Zero) /\ WrFlags(u, Zero) /\ wr_wire = Code(u, 0)
                BY <1>1, <4>1 DEF WrHeld
            <4>3. WrRegs(u, Zero)' /\ WrFlags(u, Zero)'
                BY <1>2, <4>2 DEF WrRegs, WrFlags
            <4>4. Wires(u, Zero)'
                BY <2>3, <4>2 DEF Wires, Zero
            <4>5. Delayed(u, Zero)'
                BY <1>3, <4>1 DEF Delayed
            <4>6. AtReset(Zero)' /\ Ordered(u, Zero)'
                BY ZeroFacts DEF AtReset, Zero, Ordered
            <4>7. Tracks(u, Zero)'
                BY <2>3, <2>4, <4>3, <4>4, <4>5, <4>6 DEF Tracks
            <4> QED BY <4>7, ZeroFacts
        <3>2. CASE rst["rd"] = "held"
            <4>1. ~Pending
                BY <1>3, <2>9, <3>2 DEF Pending
            <4>2. PICK c \in Index : Tracks(u, c)
                BY <1>1, <4>1
            <4>3. /\ c.ws1 = 0 /\ Ordered(u, c) /\ WrRegs(u, c) /\ WrFlags(u, c)
                  /\ Wires(u, c) /\ Delayed(u, c) /\ AtReset(c)
                BY <3>2, <4>2 DEF Tracks, AtReset
            <4>4. /\ c.ws2 = 0 /\ c.ws3 = 0 /\ c.r = 0 /\ c.rg = 0 /\ c.rw = 0
                BY <4>3 DEF Ordered, Index
            <4>5. RdRegs(u, c)' /\ RdFlags(u, c)'
                BY <2>3, <2>4, <4>3, <4>4 DEF RdRegs, RdFlags, Zero
            <4>6. WrRegs(u, c)' /\ WrFlags(u, c)'
                BY <1>2, <4>3 DEF WrRegs, WrFlags
            <4>7. Wires(u, c)'
                BY <2>3, <4>3, <4>4 DEF Wires
            <4>8. Delayed(u, c)' /\ AtReset(c)' /\ Ordered(u, c)'
                BY <1>2, <1>3, <4>3 DEF Delayed, AtReset, Ordered
            <4>9. Tracks(u, c)'
                BY <4>5, <4>6, <4>7, <4>8 DEF Tracks
            <4> QED BY <4>9
        <3> QED BY <1>3, <2>1, <3>1, <3>2
    <2> QED BY <2>2, <2>5, <2>6, <2>7, <2>8, <2>9 DEF UnitInv
<1>5. ASSUME NEW n \in {0, 1}, Fifo(u)!RdRunning(n), n = 1 => ~rd_empty
      PROVE  UnitInv(u)'
    <2>1. rst["rd"] = "run" /\ rst'["rd"] = "run"
        BY <1>3, <1>5 DEF Fifo!RdRunning, Fifo!R!Running
    <2>2. ~Pending /\ ~Pending'
        BY <1>1, <1>3, <2>1 DEF Pending
    <2>3. PICK c \in Index : Tracks(u, c)
        BY <1>1, <2>2
    <2>4. PICK k \in {c.ww, c.wg} : RdMove(c, n, k) \in Index /\ Tracks(u, RdMove(c, n, k))'
        BY <1>2, <1>3, <1>5, <2>1, <2>3, RdRunTracks
    <2>5. Fifo(u)!TypeOK'
        <3>1. rd_wr_addr_gray = Code(u, c.ws2) /\ c.ws2 \in Nat
            BY <2>3 DEF Tracks, RdRegs, Index
        <3>2. Fifo(u)!GrayToBin(rd_wr_addr_gray) \in Fifo(u)!Ptr
            BY <3>1, CodeBack, CodeWord
        <3> QED BY <1>1, <3>2, RdTypes
    <2> DEFINE d == RdMove(c, n, k)
    <2> HIDE DEF d
    <2>6. d \in Index /\ Tracks(u, d)'
        BY <2>4 DEF d
    <2>7. Crossing(u)'
        <3>1. Ordered(u, d)
            BY <2>6 DEF Tracks, Ordered
        <3>2. /\ wr_wire' = Code(u, d.ww) /\ wr_addr_gray' = Code(u, d.wg)
              /\ rd_wire' = Code(u, d.rw) /\ rd_addr_gray' = Code(u, d.rg)
            BY <2>6 DEF Tracks, Wires, WrRegs, RdRegs
        <3> QED BY <2>6, <3>1, <3>2, OrderedCross DEF Crossing
    <2>8. WrHeld(u)'
        <3>1. ASSUME rst["wr"] = "held" PROVE wr_wire' = Code(u, 0)
            <4>1. c.w = 0 /\ Ordered(u, c)
                BY <2>3, <3>1 DEF Tracks, AtReset
            <4>2. c = Zero
                BY <4>1, AllZero
            <4>3. k = 0
                BY <4>2 DEF Zero
            <4>4. wr_wire' = Code(u, d.ww) /\ d.ww = k
                BY <2>6 DEF Tracks, Wires, d, RdMove, Index
            <4> QED BY <4>3, <4>4
        <3> QED BY <1>1, <1>2, <1>3, <3>1 DEF WrHeld, WrRegs, WrFlags
    <2>9. RdHeld(u)'
        BY <2>1 DEF RdHeld
    <2> QED BY <2>2, <2>5, <2>6, <2>7, <2>8, <2>9 DEF UnitInv
<1> QED BY <1>1, <1>4, <1>5, RdCases
--------------------------------------------------------------------------------
(* The words in the FIFO, by their indices: those from x up to y.  m is    *)
(* the memory and r the write that has not reached it yet.                 *)
StoredAt(u, m, r, p) == IF r.push /\ r.addr = p THEN r.data ELSE m[Fifo(u)!Cell(p)]
Word(u, m, r, x) == StoredAt(u, m, r, x % Fifo(u)!SIZE)
Row(u, m, r, x, y) == [i \in 1..(y - x) |-> Word(u, m, r, x + (i - 1))]

UsedIs(u, c) == Fifo(u)!Used = c.w - c.r
ContentsAre(u, c) ==
    Fifo(u)!Contents = IF rst["wr"] = "run" THEN Row(u, mem, wr_r, c.r, c.w) ELSE <<>>

LEMMA UsedWords ==
    ASSUME NEW u \in Units, NEW c \in Index, Tracks(u, c)
    PROVE  UsedIs(u, c)
<1> DEFINE N == Fifo(u)!SIZE
           D == Fifo(u)!DEPTH
<1>1. N \in Nat /\ N > 0 /\ D \in Nat /\ N = 2 * D
    BY Sizes
<1>2. c.w \in Nat /\ c.r \in Nat /\ c.r <= c.w /\ c.w <= c.r + D
    BY <1>1 DEF Tracks, Ordered, Index
<1>3. wr_addr = c.w % N /\ rd_addr = c.r % N
    BY DEF Tracks, WrRegs, RdRegs
<1>4. Fifo(u)!Used = (wr_addr - rd_addr) % N
    BY DEF Fifo!Used, Fifo!Minus
<1> HIDE DEF N, D
<1>5. ((c.w % N) - (c.r % N)) % N = c.w - c.r
    <2> DEFINE a == c.w
               b == c.r
               p == a % N
    <2>1. a \in Int /\ b \in Int /\ p \in Int
        BY <1>1, <1>2, Remainder
    <2>2. a - b \in Int /\ -N <= a - b /\ a - b < N /\ a - b >= 0
        BY <1>1, <1>2
    <2> HIDE DEF a, b, p
    <2>3. (p - (b % N)) % N = (p - b) % N
        BY <1>1, <2>1, RemainderSum
    <2>4. ((a % N) + (-b)) % N = (a + (-b)) % N
        <3>1. -b \in Int
            BY <2>1
        <3> QED BY <1>1, <2>1, <3>1, RemainderSum
    <2>5. p - b = p + (-b) /\ a - b = a + (-b)
        BY <2>1
    <2>6. (a - b) % N = a - b
        BY <1>1, <2>2, RemainderSmall
    <2>7. (p - b) % N = (a - b) % N
        BY <2>4, <2>5 DEF p
    <2>8. (p - (b % N)) % N = a - b
        BY <2>3, <2>6, <2>7
    <2> QED BY <2>8 DEF a, b, p
<1> QED BY <1>3, <1>4, <1>5 DEF UsedIs

LEMMA ContentsWords ==
    ASSUME NEW u \in Units, NEW c \in Index, Tracks(u, c)
    PROVE  ContentsAre(u, c)
<1> DEFINE N == Fifo(u)!SIZE
<1>1. N \in Nat /\ N > 0 /\ c.r \in Nat /\ c.w \in Nat
    BY Sizes DEF Index
<1>2. Fifo(u)!Used = c.w - c.r
    BY UsedWords DEF UsedIs
<1>3. rd_addr = c.r % N
    BY DEF Tracks, RdRegs
<1>4. ASSUME NEW i \in 1..(c.w - c.r)
      PROVE  Fifo(u)!Stored(Fifo(u)!Plus(rd_addr, i - 1)) = Word(u, mem, wr_r, c.r + (i - 1))
    <2>1. Fifo(u)!Plus(rd_addr, i - 1) = (rd_addr + (i - 1)) % N
        BY DEF Fifo!Plus
    <2>2. ((c.r % N) + (i - 1)) % N = (c.r + (i - 1)) % N
        <3> DEFINE k == i - 1
                   b == c.r
        <3>1. k \in Int /\ b \in Int
            BY <1>1
        <3> HIDE DEF N, k, b
        <3>2. ((b % N) + k) % N = (b + k) % N
            BY <1>1, <3>1, RemainderSum
        <3> QED BY <3>2 DEF k, b
    <2> QED BY <1>3, <2>1, <2>2 DEF Fifo!Stored, Word, StoredAt
<1>5. [i \in 1..(c.w - c.r) |-> Fifo(u)!Stored(Fifo(u)!Plus(rd_addr, i - 1))]
          = Row(u, mem, wr_r, c.r, c.w)
    BY <1>4 DEF Row
<1>6. Fifo(u)!Contents = IF rst["wr"] = "run"
                         THEN [i \in 1..Fifo(u)!Used |-> Fifo(u)!Stored(Fifo(u)!Plus(rd_addr, i - 1))]
                         ELSE <<>>
    BY DEF Fifo!Contents, Fifo!R!Running
<1> HIDE DEF N
<1>7. [i \in 1..Fifo(u)!Used |-> Fifo(u)!Stored(Fifo(u)!Plus(rd_addr, i - 1))]
          = Row(u, mem, wr_r, c.r, c.w)
    BY <1>2, <1>5
<1> QED BY <1>6, <1>7 DEF ContentsAre

LEMMA ContentsWordsNext ==
    ASSUME NEW u \in Units, NEW c \in Index
    PROVE  Tracks(u, c)' => ContentsAre(u, c)'
<1>1. Tracks(u, c) => ContentsAre(u, c)
    BY ContentsWords
<1> QED BY <1>1, PTL

(* Sequences that differ by their first or last word. *)
LEMMA FirstAndLast ==
    ASSUME NEW n \in Nat, NEW S, NEW f \in [1..n -> S]
    PROVE  /\ Len(f) = n
           /\ f # <<>> <=> n > 0
           /\ n > 0 => Head(f) = f[1]
           /\ \A g \in [1..n+1 -> S] : (\A i \in 1..n : g[i] = f[i]) => g = Append(f, g[n + 1])
           /\ \A g \in [1..n-1 -> S] :
                  n > 0 /\ (\A i \in 1..n-1 : g[i] = f[i + 1]) => g = Tail(f)
<1>1. f \in Seq(S) /\ Len(f) = n
    OBVIOUS
<1>2. f # <<>> <=> n > 0
    BY <1>1, EmptySeq
<1>3. ASSUME n > 0
      PROVE  /\ Head(f) = f[1] /\ Tail(f) \in Seq(S) /\ Len(Tail(f)) = n - 1
             /\ \A i \in 1..n-1 : Tail(f)[i] = f[i + 1]
    BY <1>1, <1>2, <1>3, HeadTailProperties
<1>4. ASSUME NEW g \in [1..n+1 -> S], \A i \in 1..n : g[i] = f[i]
      PROVE  g = Append(f, g[n + 1])
    <2>1. g \in Seq(S) /\ Len(g) = n + 1 /\ g[n + 1] \in S
        OBVIOUS
    <2>2. /\ Append(f, g[n + 1]) \in Seq(S) /\ Len(Append(f, g[n + 1])) = n + 1
          /\ \A i \in 1..n : Append(f, g[n + 1])[i] = f[i]
          /\ Append(f, g[n + 1])[n + 1] = g[n + 1]
        BY <1>1, <2>1, AppendProperties
    <2>3. \A i \in 1..n+1 : Append(f, g[n + 1])[i] = g[i]
        <3>1. \A i \in 1..n+1 : i \in 1..n \/ i = n + 1
            OBVIOUS
        <3> QED BY <1>4, <2>2, <3>1
    <2> QED BY <2>1, <2>2, <2>3, SeqEqual
<1>5. ASSUME NEW g \in [1..n-1 -> S], n > 0, \A i \in 1..n-1 : g[i] = f[i + 1]
      PROVE  g = Tail(f)
    <2>1. g \in Seq(S) /\ Len(g) = n - 1
        <3>1. n - 1 \in Nat
            BY <1>5
        <3> QED BY <3>1
    <2> QED BY <1>3, <1>5, <2>1, SeqEqual
<1> QED BY <1>1, <1>2, <1>3, <1>4, <1>5

Popped(u, m, r, x, y) ==
    /\ Row(u, m, r, x, y) # <<>>
    /\ Head(Row(u, m, r, x, y)) = Word(u, m, r, x)
    /\ Tail(Row(u, m, r, x, y)) = Row(u, m, r, x + 1, y)

LEMMA RowPop ==
    ASSUME NEW u \in Units, NEW m, NEW r, NEW x \in Nat, NEW y \in Nat, x < y
    PROVE  Popped(u, m, r, x, y)
<1> DEFINE n == y - x
           f == Row(u, m, r, x, y)
           g == Row(u, m, r, x + 1, y)
           S == {Word(u, m, r, k) : k \in Nat}
<1>1. n \in Nat /\ n > 0 /\ y - (x + 1) = n - 1
    OBVIOUS
<1>2. f \in [1..n -> S]
    <2>1. \A i \in 1..n : x + (i - 1) \in Nat
        BY <1>1
    <2> QED BY <2>1 DEF Row
<1>3. g \in [1..n-1 -> S]
    <2>1. \A i \in 1..n-1 : x + 1 + (i - 1) \in Nat
        BY <1>1
    <2> QED BY <1>1, <2>1 DEF Row
<1>4. ASSUME NEW i \in 1..n-1 PROVE g[i] = f[i + 1]
    <2>1. i + 1 \in 1..n /\ x + 1 + (i - 1) = x + ((i + 1) - 1)
        BY <1>1
    <2> QED BY <1>1, <2>1 DEF Row
<1>5. f[1] = Word(u, m, r, x)
    <2>1. 1 \in 1..n /\ x + (1 - 1) = x
        BY <1>1
    <2> QED BY <2>1 DEF Row
<1> HIDE DEF n, f, g, S
<1>6. g = Tail(f) /\ f # <<>> /\ Head(f) = f[1]
    BY <1>1, <1>2, <1>3, <1>4, FirstAndLast
<1> QED BY <1>5, <1>6 DEF f, g, Popped

SameWords(u, m, r, m2, r2, x, y) ==
    \A k \in Nat : x <= k /\ k < y => Word(u, m2, r2, k) = Word(u, m, r, k)
Pushed(u, m, r, m2, r2, x, y) ==
    /\ Len(Row(u, m, r, x, y)) = y - x
    /\ Row(u, m2, r2, x, y) = Row(u, m, r, x, y)
    /\ Row(u, m2, r2, x, y + 1) = Append(Row(u, m, r, x, y), Word(u, m2, r2, y))

LEMMA RowPush ==
    ASSUME NEW u \in Units, NEW m, NEW r, NEW m2, NEW r2, NEW x \in Nat, NEW y \in Nat, x <= y,
           SameWords(u, m, r, m2, r2, x, y)
    PROVE  Pushed(u, m, r, m2, r2, x, y)
<1> DEFINE n == y - x
           f == Row(u, m, r, x, y)
           g == Row(u, m2, r2, x, y + 1)
           S == {Word(u, m, r, k) : k \in Nat} \cup {Word(u, m2, r2, k) : k \in Nat}
<1>1. n \in Nat /\ y + 1 - x = n + 1
    OBVIOUS
<1>2. f \in [1..n -> S]
    <2>1. \A i \in 1..n : x + (i - 1) \in Nat
        BY <1>1
    <2> QED BY <2>1 DEF Row
<1>3. g \in [1..n+1 -> S]
    <2>1. \A i \in 1..n+1 : x + (i - 1) \in Nat
        BY <1>1
    <2> QED BY <1>1, <2>1 DEF Row
<1>4. \A i \in 1..n : Word(u, m2, r2, x + (i - 1)) = Word(u, m, r, x + (i - 1))
    <2>1. \A i \in 1..n : x + (i - 1) \in Nat /\ x <= x + (i - 1) /\ x + (i - 1) < y
        BY <1>1
    <2> QED BY <2>1 DEF SameWords
<1>5. ASSUME NEW i \in 1..n PROVE g[i] = f[i]
    <2>1. i \in 1..(y + 1 - x)
        BY <1>1
    <2>2. g[i] = Word(u, m2, r2, x + (i - 1))
        BY <2>1 DEF Row
    <2>3. f[i] = Word(u, m, r, x + (i - 1))
        BY DEF Row
    <2> QED BY <1>4, <2>2, <2>3
<1>6. g[n + 1] = Word(u, m2, r2, y)
    <2>1. n + 1 \in 1..n+1 /\ x + ((n + 1) - 1) = y
        BY <1>1
    <2> QED BY <1>1, <2>1 DEF Row
<1>7. Row(u, m2, r2, x, y) = f
    BY <1>4 DEF Row
<1> HIDE DEF n, f, g, S
<1>8. Len(f) = n /\ g = Append(f, g[n + 1])
    BY <1>1, <1>2, <1>3, <1>5, FirstAndLast
<1> QED BY <1>6, <1>7, <1>8 DEF n, f, g, Pushed

(* Cells of words that are in the FIFO together are different cells. *)
LEMMA CellsDiffer ==
    ASSUME NEW u \in Units, NEW x \in Nat, NEW y \in Nat, x < y
    PROVE  /\ y < x + Fifo(u)!DEPTH =>
                  Fifo(u)!Cell(x % Fifo(u)!SIZE) # Fifo(u)!Cell(y % Fifo(u)!SIZE)
           /\ y <= x + Fifo(u)!DEPTH => x % Fifo(u)!SIZE # y % Fifo(u)!SIZE
<1> DEFINE N == Fifo(u)!SIZE
           D == Fifo(u)!DEPTH
<1>1. N \in Nat /\ N > 0 /\ D \in Nat /\ D > 0 /\ N = 2 * D
    BY Sizes
<1>2. Fifo(u)!Cell(x % N) = (x % N) % D /\ Fifo(u)!Cell(y % N) = (y % N) % D
    BY DEF Fifo!Cell
<1> HIDE DEF D, N
<1>3. (x % (2 * D)) % D = x % D /\ (y % (2 * D)) % D = y % D
    BY <1>1, CellOfIndex
<1>4. y < x + D => x % D # y % D
    BY <1>1, PointersApart
<1>5. y <= x + D => x % N # y % N
    <2>1. y <= x + D => y < x + N
        BY <1>1
    <2> QED BY <1>1, <2>1, PointersApart
<1> QED BY <1>1, <1>2, <1>3, <1>4, <1>5 DEF D, N

(* The delayed write changes no word that is in the FIFO, nor does a word  *)
(* that is pushed after them, which is the next.                           *)
LEMMA WordsKept ==
    ASSUME NEW u \in Units, NEW c \in Index, Tracks(u, c), Fifo(u)!TypeOK, rst["wr"] = "run",
           Fifo(u)!MemWrite, NEW r2,
           r2 = Fifo(u)!NoWrite \/ (\E d \in u.data : r2 = Fifo(u)!Write(wr_addr, d)),
           NEW k \in Nat, c.r <= k, k < c.w
    PROVE  Word(u, mem', r2, k) = Word(u, mem, wr_r, k)
<1> DEFINE N == Fifo(u)!SIZE
           D == Fifo(u)!DEPTH
<1>1. c.w \in Nat /\ c.wg \in Nat /\ c.r \in Nat /\ c.w <= c.r + D
      /\ D \in Nat
    BY Sizes DEF Tracks, Ordered, Index
<1>2. wr_addr = c.w % N
    BY DEF Tracks, WrRegs
<1>3. wr_r.push => c.w = c.wg + 1 /\ wr_r.addr = c.wg % N
    BY DEF Tracks, Delayed
<1>4. ~(r2.push /\ r2.addr = k % N)
    <2>1. k % N # c.w % N
        <3>1. c.w <= k + D
            BY <1>1
        <3> QED BY <1>1, <3>1, CellsDiffer
    <2>2. CASE r2 = Fifo(u)!NoWrite
        BY <2>2 DEF Fifo!NoWrite
    <2>3. CASE \E d \in u.data : r2 = Fifo(u)!Write(wr_addr, d)
        BY <1>2, <2>1, <2>3 DEF Fifo!Write
    <2> QED BY <2>2, <2>3
<1>5. Word(u, mem', r2, k) = mem'[Fifo(u)!Cell(k % N)]
    BY <1>4 DEF Word, StoredAt
<1>6. CASE ~wr_r.push
    BY <1>5, <1>6 DEF Word, StoredAt, Fifo!MemWrite
<1>7. CASE wr_r.push
    <2>1. mem' = [mem EXCEPT ![Fifo(u)!Cell(c.wg % N)] = wr_r.data]
        BY <1>3, <1>7 DEF Fifo!MemWrite
    <2>2. DOMAIN mem = 0..D-1 /\ Fifo(u)!Cell(c.wg % N) \in 0..D-1 /\ Fifo(u)!Cell(k % N) \in 0..D-1
        <3>1. c.wg % N \in Fifo(u)!Ptr /\ k % N \in Fifo(u)!Ptr
            BY <1>1, CodeWord
        <3> QED BY <3>1, PointerTypes DEF Fifo!TypeOK
    <2>3. CASE k = c.wg
        <3>1. Word(u, mem, wr_r, k) = wr_r.data
            BY <1>3, <1>7, <2>3 DEF Word, StoredAt
        <3>2. mem'[Fifo(u)!Cell(k % N)] = wr_r.data
            BY <2>1, <2>2, <2>3
        <3> QED BY <1>5, <3>1, <3>2
    <2>4. CASE k # c.wg
        <3>1. k < c.wg /\ c.wg < k + D
            BY <1>1, <1>3, <1>7, <2>4
        <3>2. Fifo(u)!Cell(k % N) # Fifo(u)!Cell(c.wg % N) /\ k % N # c.wg % N
            BY <1>1, <3>1, CellsDiffer
        <3>3. mem'[Fifo(u)!Cell(k % N)] = mem[Fifo(u)!Cell(k % N)]
            BY <2>1, <2>2, <3>2
        <3>4. Word(u, mem, wr_r, k) = mem[Fifo(u)!Cell(k % N)]
            BY <1>3, <1>7, <3>2 DEF Word, StoredAt
        <3> QED BY <1>5, <3>3, <3>4
    <2> QED BY <2>3, <2>4
<1> QED BY <1>6, <1>7
--------------------------------------------------------------------------------
(* What the invariant says of the properties. *)

LEMMA TracksRunning ==
    ASSUME NEW u \in Units, UnitInv(u), rst["wr"] = "run" \/ rst["rd"] = "run"
    PROVE  \E c \in Index : Tracks(u, c)
BY DEF UnitInv

LEMMA FlagsSafe ==
    ASSUME NEW u \in Units, UnitInv(u)
    PROVE  Fifo(u)!FreeIsSafe /\ Fifo(u)!CountIsSafe
<1> DEFINE D == Fifo(u)!DEPTH
<1>1. D \in Nat /\ u.almost_full \in Nat /\ u.almost_empty \in Nat
    BY Sizes, Parameters
<1>2. wr_free \in Nat /\ rd_count \in Nat
    BY PointerTypes DEF UnitInv, Fifo!TypeOK
<1>3. ASSUME NEW c \in Index, Tracks(u, c)
      PROVE  /\ Fifo(u)!Used = c.w - c.r
             /\ c.w \in Nat /\ c.r \in Nat /\ c.rs3 \in Nat /\ c.ws3 \in Nat
             /\ c.rs3 <= c.r /\ c.r <= c.ws3 /\ c.ws3 <= c.w
             /\ WrFlags(u, c) /\ RdFlags(u, c)
    <2>1. Fifo(u)!Used = c.w - c.r
        BY <1>3, UsedWords DEF UsedIs
    <2> QED BY <1>3, <2>1 DEF Tracks, Ordered, Index
<1>4. ASSUME rst["wr"] = "run"
      PROVE  /\ wr_free <= D - Fifo(u)!Used
             /\ ~wr_full => Fifo(u)!Used < D
             /\ ~wr_almost_full => D - Fifo(u)!Used > u.almost_full
    <2>1. PICK c \in Index : Tracks(u, c)
        BY <1>4, TracksRunning
    <2>2. /\ ~wr_full => c.w < c.rs3 + D
          /\ ~wr_almost_full => c.w + u.almost_full < c.rs3 + D
          /\ wr_free <= c.rs3 + D - c.w
        BY <1>3, <2>1 DEF WrFlags
    <2> HIDE DEF D
    <2> QED BY <1>1, <1>2, <1>3, <2>1, <2>2
<1>5. ASSUME rst["rd"] = "run"
      PROVE  /\ rd_count <= Fifo(u)!Used
             /\ ~rd_empty => Fifo(u)!Used > 0
             /\ ~rd_almost_empty => Fifo(u)!Used > u.almost_empty
    <2>1. PICK c \in Index : Tracks(u, c)
        BY <1>5, TracksRunning
    <2>2. /\ ~rd_empty => c.r < c.ws3
          /\ ~rd_almost_empty => c.r + u.almost_empty < c.ws3
          /\ rd_count <= c.ws3 - c.r
        BY <1>3, <2>1 DEF RdFlags
    <2> QED BY <1>1, <1>2, <1>3, <2>1, <2>2
<1> QED BY <1>4, <1>5 DEF Fifo!FreeIsSafe, Fifo!CountIsSafe, Fifo!R!Running

LEMMA HeadInMemory ==
    ASSUME NEW u \in Units, UnitInv(u)
    PROVE  Fifo(u)!HeadReady
<1> SUFFICES ASSUME rst["rd"] = "run", ~rd_empty
             PROVE  Fifo(u)!Contents # <<>> /\ mem[Fifo(u)!Cell(rd_addr)] = Head(Fifo(u)!Contents)
    BY DEF Fifo!HeadReady, Fifo!R!Running
<1> DEFINE N == Fifo(u)!SIZE
           D == Fifo(u)!DEPTH
<1>1. PICK c \in Index : Tracks(u, c)
    BY TracksRunning
<1>2. /\ c.w \in Nat /\ c.wg \in Nat /\ c.r \in Nat /\ D \in Nat
      /\ c.r < c.wg /\ c.wg <= c.w /\ c.w <= c.r + D
    <2>1. D \in Nat
        BY Sizes
    <2>2. c.r < c.ws3
        BY <1>1 DEF Tracks, RdFlags
    <2>3. Ordered(u, c)
        BY <1>1 DEF Tracks
    <2> QED BY <2>1, <2>2, <2>3 DEF Ordered, Index
(* A reset write side would have sent no word. *)
<1>3. rst["wr"] = "run"
    <2>1. rst["wr"] # "held"
        BY <1>1, <1>2 DEF Tracks, AtReset
    <2>2. rst["wr"] # "pending"
        BY DEF UnitInv, Pending
    <2>3. rst["wr"] \in {"pending", "held", "run"}
        BY DEF UnitInv, Fifo!TypeOK, Fifo!Domains, Fifo!R!ResetState
    <2> QED BY <2>1, <2>2, <2>3
<1>4. Fifo(u)!Contents = Row(u, mem, wr_r, c.r, c.w)
    BY <1>1, <1>3, ContentsWords DEF ContentsAre
<1>5. Row(u, mem, wr_r, c.r, c.w) # <<>>
      /\ Head(Row(u, mem, wr_r, c.r, c.w)) = Word(u, mem, wr_r, c.r)
    <2> DEFINE x == c.r
               y == c.w
    <2>1. x \in Nat /\ y \in Nat /\ x < y
        BY <1>2
    <2> HIDE DEF x, y
    <2>2. Popped(u, mem, wr_r, x, y)
        BY <2>1, RowPop
    <2> QED BY <2>2 DEF x, y, Popped
(* The one write that may still be on its way is of a later word. *)
<1>6. Word(u, mem, wr_r, c.r) = mem[Fifo(u)!Cell(c.r % N)]
    <2>1. wr_r.push => wr_r.addr = c.wg % N
        BY <1>1, <1>3 DEF Tracks, Delayed
    <2>2. c.r % N # c.wg % N
        <3>1. c.wg <= c.r + D
            BY <1>2
        <3> QED BY <1>2, <3>1, CellsDiffer
    <2> QED BY <2>1, <2>2 DEF Word, StoredAt
<1>7. rd_addr = c.r % N
    BY <1>1 DEF Tracks, RdRegs
<1> QED BY <1>4, <1>5, <1>6, <1>7

(* Nothing is in the FIFO while its write side is in reset. *)
LEMMA ContentsDown ==
    ASSUME NEW u \in Units
    PROVE  /\ rst["wr"] # "run" => Fifo(u)!Contents = <<>>
           /\ rst'["wr"] # "run" => Fifo(u)!Contents' = <<>>
BY DEF Fifo!Contents, Fifo!R!Running

ChanStep(u) == [Fifo(u)!Chan!Next]_(Fifo(u)!Chan!vars)

(* A step that leaves the queue as it is, or puts a word, or takes one. *)
LEMMA QueueSteps ==
    ASSUME NEW u \in Units
    PROVE  /\ Fifo(u)!Contents' = Fifo(u)!Contents /\ (rst'["wr"] = "run" <=> rst["wr"] = "run")
                  => ChanStep(u)
           /\ rst'["wr"] # "run" => ChanStep(u)
           /\ Fifo(u)!Contents = <<>> /\ Fifo(u)!Contents' = <<>> => ChanStep(u)
           /\ rst["wr"] = "run" /\ rst'["wr"] = "run" =>
                  /\ Fifo(u)!Contents # <<>> /\ Fifo(u)!Contents' = Tail(Fifo(u)!Contents)
                         => ChanStep(u)
                  /\ Len(Fifo(u)!Contents) < Fifo(u)!DEPTH
                     /\ (\E d \in u.data : Fifo(u)!Contents' = Append(Fifo(u)!Contents, d))
                         => ChanStep(u)
<1> USE DEF Fifo!R!Running
<1>1. ASSUME Fifo(u)!Contents' = Fifo(u)!Contents, rst'["wr"] = "run" <=> rst["wr"] = "run"
      PROVE  ChanStep(u)
    BY <1>1 DEF ChanStep, Fifo!Chan!vars
<1>2. ASSUME rst'["wr"] # "run" PROVE ChanStep(u)
    BY <1>2, ContentsDown DEF ChanStep, Fifo!Chan!Next, Fifo!Chan!Down
<1>3. ASSUME Fifo(u)!Contents = <<>>, Fifo(u)!Contents' = <<>>
      PROVE  ChanStep(u)
    <2>1. CASE rst'["wr"] = "run"
        BY <1>3, <2>1 DEF ChanStep, Fifo!Chan!Next, Fifo!Chan!Up
    <2> QED BY <1>2, <2>1
<1>4. ASSUME rst["wr"] = "run", rst'["wr"] = "run",
             Fifo(u)!Contents # <<>>, Fifo(u)!Contents' = Tail(Fifo(u)!Contents)
      PROVE  ChanStep(u)
    BY <1>4 DEF ChanStep, Fifo!Chan!Next, Fifo!Chan!Take
<1>5. ASSUME rst["wr"] = "run", rst'["wr"] = "run",
             Len(Fifo(u)!Contents) < Fifo(u)!DEPTH,
             NEW d \in u.data, Fifo(u)!Contents' = Append(Fifo(u)!Contents, d)
      PROVE  ChanStep(u)
    <2>1. Fifo(u)!Chan!Put(d)
        BY <1>5 DEF Fifo!Chan!Put
    <2> QED BY <2>1 DEF ChanStep, Fifo!Chan!Next
<1> QED BY <1>1, <1>2, <1>3, <1>4, <1>5

LEMMA WrClkStep ==
    ASSUME NEW u \in Units, UnitInv(u), Fifo(u)!WrClk
    PROVE  ChanStep(u)
<1> DEFINE N == Fifo(u)!SIZE
           D == Fifo(u)!DEPTH
<1>1. Fifo(u)!TypeOK /\ (Pending => rst["wr"] # "run" /\ rst["rd"] # "run")
    BY DEF UnitInv
<1>2. /\ Fifo(u)!R!Edge("wr") /\ Fifo(u)!MemWrite
      /\ UNCHANGED <<rd_addr, rd_addr_gray, rd_wr_src, rd_wr_addr_gray, rd_wr_addr,
                     rd_empty, rd_almost_empty, rd_count>>
      /\ \/ Fifo(u)!WrReset
         \/ Fifo(u)!WrRunning(0) /\ wr_r' = Fifo(u)!NoWrite
         \/ /\ Fifo(u)!WrRunning(1) /\ ~wr_full
            /\ \E d \in u.data : wr_r' = Fifo(u)!Write(wr_addr, d)
    BY <1>1, WrCases
<1>3. /\ rst["wr"] \in {"pending", "held", "run"} /\ rst["rd"] \in {"pending", "held", "run"}
      /\ rst'["rd"] = rst["rd"]
      /\ rst["wr"] = "run" => rst'["wr"] = "run"
      /\ rst["wr"] = "pending" => rst'["wr"] = "held"
      /\ rst["wr"] = "held" =>
             rst'["wr"] = "held" \/ (rst'["wr"] = "run" /\ rst["rd"] # "pending")
    BY <1>1, <1>2, WrEdge
(* In reset the FIFO is empty, and so it is when the reset is left. *)
<1>4. CASE Fifo(u)!WrReset
    <2>1. rst["wr"] # "run"
        BY <1>4 DEF Fifo!WrReset, Fifo!R!Running
    <2>2. Fifo(u)!Contents = <<>>
        BY <2>1, ContentsDown
    <2>3. CASE rst'["wr"] = "run"
        <3>1. rst["wr"] = "held" /\ ~Pending
            BY <1>3, <2>1, <2>3 DEF Pending
        <3>2. PICK c \in Index : Tracks(u, c)
            BY <3>1 DEF UnitInv
        <3>3. c = Zero
            <4>1. c.w = 0 /\ Ordered(u, c)
                BY <3>1, <3>2 DEF Tracks, AtReset
            <4> QED BY <4>1, AllZero
        <3>4. rd_addr' = 0 /\ wr_addr' = 0
            <4>1. rd_addr = 0 % N
                BY <3>2, <3>3 DEF Tracks, RdRegs, Zero
            <4> QED BY <1>2, <1>4, <4>1, ZeroFacts DEF Fifo!WrReset
        <3>5. Fifo(u)!Used' = 0
            <4>1. Fifo(u)!Used' = (0 - 0) % N
                BY <3>4 DEF Fifo!Used, Fifo!Minus
            <4> QED BY <4>1, ZeroFacts
        <3>6. Fifo(u)!Contents' = <<>>
            <4>1. Fifo(u)!Contents' = [i \in 1..0 |-> Fifo(u)!Stored(Fifo(u)!Plus(rd_addr, i - 1))']
                BY <2>3, <3>4, <3>5 DEF Fifo!Contents, Fifo!R!Running
            <4> QED BY <4>1
        <3> QED BY <2>2, <3>6, QueueSteps
    <2>4. CASE rst'["wr"] # "run"
        BY <2>4, QueueSteps
    <2> QED BY <2>3, <2>4
<1>5. ASSUME NEW n \in {0, 1}, Fifo(u)!WrRunning(n), n = 1 => ~wr_full,
             n = 0 => wr_r' = Fifo(u)!NoWrite,
             n = 1 => \E x \in u.data : wr_r' = Fifo(u)!Write(wr_addr, x)
      PROVE  ChanStep(u)
    <2>1. rst["wr"] = "run" /\ rst'["wr"] = "run"
        BY <1>3, <1>5 DEF Fifo!WrRunning, Fifo!R!Running
    <2>2. PICK c \in Index : Tracks(u, c)
        BY <2>1, TracksRunning
    <2>3. PICK k \in {c.rw, c.rg} : WrMove(c, n, k) \in Index /\ Tracks(u, WrMove(c, n, k))'
        BY <1>2, <1>3, <1>5, <2>1, <2>2, WrRunTracks
    <2>4. /\ c.r \in Nat /\ c.w \in Nat /\ c.r <= c.w /\ D \in Nat
          /\ ~wr_full => c.w < c.r + D
        <3>1. D \in Nat
            BY Sizes
        <3>2. ~wr_full => c.w < c.rs3 + D
            BY <2>2 DEF Tracks, WrFlags
        <3>3. Ordered(u, c)
            BY <2>2 DEF Tracks
        <3> QED BY <3>1, <3>2, <3>3 DEF Ordered, Index
    <2>5. Fifo(u)!Contents = Row(u, mem, wr_r, c.r, c.w)
        BY <2>1, <2>2, ContentsWords DEF ContentsAre
    <2>6. Fifo(u)!Contents' = Row(u, mem', wr_r', c.r, c.w + n)
        <3> DEFINE d == WrMove(c, n, k)
        <3>1. d.r = c.r /\ d.w = c.w + n
            BY DEF WrMove, Index
        <3> HIDE DEF d
        <3>2. d \in Index /\ Tracks(u, d)'
            BY <2>3 DEF d
        <3>3. ContentsAre(u, d)'
            BY <3>2, ContentsWordsNext
        <3>4. Fifo(u)!Contents' = Row(u, mem', wr_r', d.r, d.w)
            BY <2>1, <3>3 DEF ContentsAre
        <3> QED BY <3>1, <3>4
    <2>7. \A j \in Nat : c.r <= j /\ j < c.w => Word(u, mem', wr_r', j) = Word(u, mem, wr_r, j)
        BY <1>1, <1>2, <1>5, <2>1, <2>2, WordsKept
    <2>8. /\ Len(Row(u, mem, wr_r, c.r, c.w)) = c.w - c.r
          /\ Row(u, mem', wr_r', c.r, c.w) = Row(u, mem, wr_r, c.r, c.w)
          /\ Row(u, mem', wr_r', c.r, c.w + 1)
                 = Append(Row(u, mem, wr_r, c.r, c.w), Word(u, mem', wr_r', c.w))
        <3> DEFINE x == c.r
                   y == c.w
                   m2 == mem'
                   r2 == wr_r'
        <3>1. x \in Nat /\ y \in Nat /\ x <= y
            BY <2>4
        <3>2. SameWords(u, mem, wr_r, m2, r2, x, y)
            BY <2>7 DEF SameWords
        <3> HIDE DEF x, y, m2, r2
        <3>3. Pushed(u, mem, wr_r, m2, r2, x, y)
            BY <3>1, <3>2, RowPush
        <3> QED BY <3>3 DEF x, y, m2, r2, Pushed
    <2>9. CASE n = 0
        <3>1. c.w + n = c.w
            BY <2>4, <2>9
        <3> QED BY <2>1, <2>5, <2>6, <2>8, <3>1, QueueSteps
    <2>10. CASE n = 1
        <3>1. PICK x \in u.data : wr_r' = Fifo(u)!Write(wr_addr, x)
            BY <1>5, <2>10
        <3>2. Word(u, mem', wr_r', c.w) = x
            <4>1. wr_addr = c.w % N
                BY <2>2 DEF Tracks, WrRegs
            <4> QED BY <3>1, <4>1 DEF Word, StoredAt, Fifo!Write
        <3>3. Fifo(u)!Contents' = Append(Fifo(u)!Contents, x)
            BY <2>5, <2>6, <2>8, <2>10, <3>2
        <3>4. Len(Fifo(u)!Contents) < D
            <4>1. c.w < c.r + D
                BY <1>5, <2>4, <2>10
            <4>2. c.w - c.r < D
                BY <2>4, <4>1
            <4> QED BY <2>5, <2>8, <4>2
        <3> QED BY <2>1, <3>3, <3>4, QueueSteps
    <2> QED BY <2>9, <2>10
<1>6. Fifo(u)!WrRunning(0) /\ wr_r' = Fifo(u)!NoWrite => ChanStep(u)
    BY <1>5
<1>7. /\ Fifo(u)!WrRunning(1) /\ ~wr_full
      /\ \E d \in u.data : wr_r' = Fifo(u)!Write(wr_addr, d)
      => ChanStep(u)
    BY <1>5
<1> QED BY <1>2, <1>4, <1>6, <1>7

LEMMA RdClkStep ==
    ASSUME NEW u \in Units, UnitInv(u), Fifo(u)!RdClk
    PROVE  ChanStep(u)
<1>1. Fifo(u)!TypeOK /\ (Pending => rst["wr"] # "run" /\ rst["rd"] # "run")
    BY DEF UnitInv
<1>2. /\ Fifo(u)!R!Edge("rd") /\ UNCHANGED <<mem, wr_r>>
      /\ UNCHANGED <<wr_addr, wr_addr_gray, wr_rd_src, wr_rd_addr_gray, wr_rd_addr,
                     wr_full, wr_almost_full, wr_free>>
      /\ \/ Fifo(u)!RdReset
         \/ Fifo(u)!RdRunning(0)
         \/ Fifo(u)!RdRunning(1) /\ ~rd_empty
    BY <1>1, RdCases
<1>3. /\ rst["wr"] \in {"pending", "held", "run"} /\ rst["rd"] \in {"pending", "held", "run"}
      /\ rst'["wr"] = rst["wr"]
      /\ rst["rd"] = "run" => rst'["rd"] = "run"
    BY <1>1, <1>2, RdEdge
<1>4. CASE rst["wr"] # "run"
    BY <1>3, <1>4, ContentsDown, QueueSteps
<1>5. CASE rst["wr"] = "run"
    <2>1. PICK c \in Index : Tracks(u, c)
        BY <1>5, TracksRunning
    <2>2. CASE Fifo(u)!RdReset
        <3>1. rst["rd"] = "held"
            BY <1>1, <1>3, <1>5, <2>2 DEF Pending, Fifo!RdReset, Fifo!R!Running
        <3>2. c.r = 0
            BY <2>1, <3>1 DEF Tracks, AtReset, Ordered, Index
        <3>3. rd_addr = 0 /\ rd_addr' = rd_addr
            <4>1. rd_addr = 0 % Fifo(u)!SIZE
                BY <2>1, <3>2 DEF Tracks, RdRegs
            <4> QED BY <2>2, <4>1, ZeroFacts DEF Fifo!RdReset
        <3>4. Fifo(u)!Contents' = Fifo(u)!Contents
            BY <1>2, <1>3, <3>3 DEF Fifo!Contents, Fifo!Used, Fifo!Stored, Fifo!R!Running
        <3> QED BY <1>3, <3>4, QueueSteps
    <2>3. ASSUME NEW n \in {0, 1}, Fifo(u)!RdRunning(n), n = 1 => ~rd_empty
          PROVE  ChanStep(u)
        <3>1. rst["rd"] = "run" /\ rst'["rd"] = "run"
            BY <1>3, <2>3 DEF Fifo!RdRunning, Fifo!R!Running
        <3>2. PICK k \in {c.ww, c.wg} : RdMove(c, n, k) \in Index /\ Tracks(u, RdMove(c, n, k))'
            BY <1>2, <1>3, <2>1, <2>3, <3>1, RdRunTracks
        <3>3. c.r \in Nat /\ c.w \in Nat /\ (~rd_empty => c.r < c.w)
            BY <2>1 DEF Tracks, Ordered, RdFlags, Index
        <3>4. Fifo(u)!Contents = Row(u, mem, wr_r, c.r, c.w)
            BY <1>5, <2>1, ContentsWords DEF ContentsAre
        <3>5. Fifo(u)!Contents' = Row(u, mem, wr_r, c.r + n, c.w)
            <4> DEFINE d == RdMove(c, n, k)
            <4>1. d.r = c.r + n /\ d.w = c.w
                BY DEF RdMove, Index
            <4> HIDE DEF d
            <4>2. d \in Index /\ Tracks(u, d)'
                BY <3>2 DEF d
            <4>3. ContentsAre(u, d)'
                BY <4>2, ContentsWordsNext
            <4>4. Fifo(u)!Contents' = Row(u, mem', wr_r', d.r, d.w)
                BY <1>3, <1>5, <4>3 DEF ContentsAre
            <4> QED BY <1>2, <4>1, <4>4
        <3>6. CASE n = 0
            <4>1. c.r + n = c.r
                BY <3>3, <3>6
            <4> QED BY <1>3, <3>4, <3>5, <4>1, QueueSteps
        <3>7. CASE n = 1
            <4>1. /\ Row(u, mem, wr_r, c.r, c.w) # <<>>
                  /\ Tail(Row(u, mem, wr_r, c.r, c.w)) = Row(u, mem, wr_r, c.r + 1, c.w)
                <5> DEFINE x == c.r
                           y == c.w
                <5>1. x \in Nat /\ y \in Nat /\ x < y
                    BY <2>3, <3>3, <3>7
                <5> HIDE DEF x, y
                <5>2. Popped(u, mem, wr_r, x, y)
                    BY <5>1, RowPop
                <5> QED BY <5>2 DEF x, y, Popped
            <4> QED BY <1>3, <1>5, <3>4, <3>5, <3>7, <4>1, QueueSteps
        <3> QED BY <3>6, <3>7
    <2> QED BY <1>2, <2>2, <2>3
<1> QED BY <1>4, <1>5
--------------------------------------------------------------------------------
(* The theorems. *)

LEMMA NextCases ==
    ASSUME Inv, [Next]_vars
    PROVE  Inv' /\ [ChannelStep]_vars
<1>1. CASE UNCHANGED vars
    <2>1. UNCHANGED unit /\ UNCHANGED regs
        BY <1>1 DEF vars
    <2>2. ASSUME NEW u \in Units, UnitInv(u)
          PROVE  UnitInv(u)'
        <3>1. /\ Fifo(u)!TypeOK' /\ Crossing(u)' /\ (Pending <=> Pending')
              /\ WrHeld(u)' /\ RdHeld(u)' /\ rst' = rst
            BY <2>1, <2>2 DEF regs, UnitInv, Fifo!TypeOK, Crossing, Pending, WrHeld, RdHeld,
                WrRegs, RdRegs, WrFlags, RdFlags
        <3>2. ASSUME NEW c \in Index, Tracks(u, c) PROVE Tracks(u, c)'
            BY <2>1, <3>2 DEF regs, Tracks, WrRegs, RdRegs, Wires, WrFlags, RdFlags, Delayed,
                AtReset, Ordered
        <3> QED BY <2>2, <3>1, <3>2 DEF UnitInv
    <2>3. Inv'
        BY <2>1, <2>2 DEF Inv
    <2> QED BY <1>1, <2>3
<1>2. ASSUME NEW v \in Units, unit = v, unit' = unit, Fifo(v)!Next
      PROVE  Inv' /\ ChannelStep
    <2>1. UnitInv(v)
        BY <1>2 DEF Inv
    <2>2. CASE Fifo(v)!RstAssert
        <3>1. rst'["wr"] = "pending"
            BY <2>2 DEF Fifo!RstAssert, Fifo!R!Assert, Fifo!Domains
        <3> QED BY <1>2, <2>1, <2>2, <3>1, AssertInv, QueueSteps DEF Inv, ChannelStep, ChanStep
    <2>3. CASE Fifo(v)!WrClk
        BY <1>2, <2>1, <2>3, WrClkInv, WrClkStep DEF Inv, ChannelStep, ChanStep
    <2>4. CASE Fifo(v)!RdClk
        BY <1>2, <2>1, <2>4, RdClkInv, RdClkStep DEF Inv, ChannelStep, ChanStep
    <2> QED BY <1>2, <2>2, <2>3, <2>4 DEF Fifo!Next
<1> QED BY <1>1, <1>2 DEF Next

LEMMA InitHolds ==
    ASSUME Init
    PROVE  Inv /\ ChannelInit
<1>1. PICK v \in Units : unit = v /\ Fifo(v)!Init
    BY DEF Init
<1>2. Inv
    BY <1>1, InitInv DEF Inv
<1>3. rst["wr"] = "held"
    BY <1>1 DEF Fifo!Init, Fifo!Domains
<1>4. ASSUME NEW u \in Units PROVE Fifo(u)!Chan!Init
    BY <1>3, ContentsDown DEF Fifo!Chan!Init, Fifo!R!Running
<1> QED BY <1>2, <1>4 DEF ChannelInit

(* The invariant of the indices, for every depth and every threshold:     *)
(* every copy of a pointer, in binary, in Gray code, on the wires or in a *)
(* synchroniser, is the value the pointer had some edges ago, in the order *)
(* in which the copies were made.                                          *)
THEOREM Invariance == Spec => []Inv
<1>1. Init => Inv
    BY InitHolds
<1>2. Inv /\ [Next]_vars => Inv'
    BY NextCases
<1> QED BY <1>1, <1>2, PTL DEF Spec

(* A pointer that is sampled by dlsc_syncflop while it changes reads as    *)
(* the old or the new one, at every width, where it wraps and in reset:    *)
(* dlsc_bin2gray and its register change one bit at a time.                *)
THEOREM PointersCross == Spec => []CleanCrossing
<1>1. Inv => CleanCrossing
    BY CrossingClean DEF Inv, UnitInv, CleanCrossing
<1> QED BY <1>1, Invariance, PTL

(* The flags and counts of dlsc_fifo_async are safe for every depth,       *)
(* threshold and variant, whatever the two clocks do: free spaces and      *)
(* words are never overstated, and the word at the head is in memory when  *)
(* rd_empty falls.                                                         *)
THEOREM SafeFlags == Spec => []FlagsAreSafe
<1>1. Inv => FlagsAreSafe
    <2>1. Inv => TypeOK
        BY DEF Inv, UnitInv, TypeOK
    <2>2. Inv => HeadReady
        BY HeadInMemory DEF Inv, HeadReady
    <2>3. Inv => \A u \in Units : unit = u => Fifo(u)!FreeIsSafe /\ Fifo(u)!CountIsSafe
        BY FlagsSafe DEF Inv
    <2> QED BY <2>1, <2>2, <2>3 DEF FlagsAreSafe
<1> QED BY <1>1, Invariance, PTL

(* dlsc_fifo_async is a channel between the domains: no word is lost,      *)
(* repeated, reordered or overwritten, and a reset of either side empties  *)
(* it, for every depth and whatever order the edges come in.               *)
THEOREM ChannelRefinement == Spec => ImplementsChannel
<1>1. Init => ChannelInit
    BY InitHolds
<1>2. Inv /\ [Next]_vars => [ChannelStep]_vars
    BY NextCases
<1> QED BY <1>1, <1>2, Invariance, PTL DEF Spec, ImplementsChannel
====================================================================================
