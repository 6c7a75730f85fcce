------------------------------ MODULE FifoAsync ------------------------------
(***************************************************************************)
(* dlsc_fifo_async_full (mem/rtl), the FIFO behind dlsc_fifo_async: a      *)
(* memory of 2^ADDR words written in one clock domain and read in another. *)
(* Each side keeps its own pointer, sends it to the other in Gray code     *)
(* through two flops per bit, and computes its flags from its own pointer  *)
(* and what it last heard of the other's.                                  *)
(*                                                                         *)
(* One action is one edge of one clock.  A word that crosses between the   *)
(* domains settles bit by bit: until the next edge of the sending clock    *)
(* each bit that changed may still show its old value to the receiver (the *)
(* variables ..._wire).  wr_addr_p1 and rd_addr_p1 are always one ahead of *)
(* wr_addr and rd_addr, wr_adaf and rd_adae a constant ahead; they are not *)
(* variables.                                                              *)
(***************************************************************************)
EXTENDS Integers, FiniteSets, Sequences

CONSTANTS
    Data,           (* the words that are pushed *)
    None,           (* what a memory cell holds before it is written *)
    ADDR,           (* depth is 2^ADDR *)
    ALMOST_FULL,    (* wr_almost_full when so many spaces or fewer remain *)
    ALMOST_EMPTY,   (* rd_almost_empty when so many words or fewer remain *)
    WR_SLOW,        (* WR_CYCLES > 1 *)
    RD_SLOW         (* RD_CYCLES > 1 *)

DEPTH == 2^ADDR

FifoAsyncAssumption ==
    /\ ADDR \in Nat
    /\ ALMOST_FULL \in 0..DEPTH-1
    /\ ALMOST_EMPTY \in 0..DEPTH-1
    /\ WR_SLOW \in BOOLEAN /\ RD_SLOW \in BOOLEAN
    /\ None \notin Data

VARIABLES
    rst,              (* reset state of the two domains, see ResetDomains *)
    mem,              (* the memory *)
    wr_addr,          (* write pointer, one bit wider than an address *)
    wr_r,             (* wr_push_r, wr_addr_r and wr_data_r: a write that   *)
                      (* reaches the memory on the next edge of wr_clk      *)
    wr_addr_gray,     (* the pointer as it is sent to the read domain *)
    wr_wire,          (* what of it has reached the read domain *)
    wr_rd_src,        (* the read pointer in the write domain: first flop, *)
    wr_rd_addr_gray,  (* second flop, *)
    wr_rd_addr,       (* and in binary, one turn ahead *)
    wr_full, wr_almost_full, wr_free,
    rd_addr, rd_addr_gray, rd_wire,
    rd_wr_src, rd_wr_addr_gray, rd_wr_addr,
    rd_empty, rd_almost_empty, rd_count

wrVars == <<mem, wr_addr, wr_r, wr_addr_gray, wr_rd_src, wr_rd_addr_gray, wr_rd_addr,
            wr_full, wr_almost_full, wr_free>>
rdVars == <<rd_addr, rd_addr_gray, rd_wr_src, rd_wr_addr_gray, rd_wr_addr,
            rd_empty, rd_almost_empty, rd_count>>
vars == <<rst, wrVars, rdVars, wr_wire, rd_wire>>

Domains == {"wr", "rd"}

R == INSTANCE ResetDomains

SIZE == 2 * DEPTH           \* pointers have ADDR+1 bits
Ptr == 0..SIZE-1
Bits == 0..ADDR
Words == [Bits -> {0, 1}]

Plus(p, n) == (p + n) % SIZE
Minus(p, n) == (p - n) % SIZE
Cell(p) == p % DEPTH

BitOf(p, i) == (p \div 2^i) % 2

(* Mutant of BinToGray: the pointer crosses in binary. *)
BinToGrayPlain(p) == [i \in Bits |-> BitOf(p, i)]

(* dlsc_bin2gray: (bin >> 1) ^ bin *)
BinToGray(p) == [i \in Bits |-> (BitOf(p, i) + BitOf(p, i + 1)) % 2]

(* dlsc_gray2bin: bit j is the parity of gray[ADDR:j] *)
GrayToBin(g) ==
    CHOOSE p \in Ptr : \A j \in Bits :
        BitOf(p, j) = Cardinality({k \in j..ADDR : g[k] = 1}) % 2

(* The words a receiver may sample while new is replacing old. *)
Sampled(old, new) == {w \in Words : \A i \in Bits : w[i] \in {old[i], new[i]}}

NoWrite == [push |-> FALSE, addr |-> 0, data |-> None]
Write(p, d) == [push |-> TRUE, addr |-> p, data |-> d]
--------------------------------------------------------------------------------
(* Write domain.  n is wr_push: the number of words pushed, 0 or 1. *)

(* Mutant of WrFullNext: a push in the same cycle is not counted. *)
WrFullNextLate(n) == wr_rd_addr = wr_addr

WrFullNext(n) ==
    IF WR_SLOW THEN n = 1 \/ wr_rd_addr = wr_addr
               ELSE wr_rd_addr = Plus(wr_addr, n)

(* Mutant of WrAlmostFullNext: off by one. *)
WrAlmostFullNextLate(n) ==
    IF ALMOST_FULL = 0 THEN WrFullNext(n)
    ELSE Minus(wr_rd_addr, Plus(wr_addr, ALMOST_FULL) + n) >= DEPTH

(* Almost full if the difference to wr_adaf is negative: its top bit. *)
WrAlmostFullNext(n) ==
    IF ALMOST_FULL = 0 THEN WrFullNext(n)
    ELSE Minus(wr_rd_addr, Plus(wr_addr, ALMOST_FULL + 1) + n) >= DEPTH

WrFreeNext(n) == Minus(wr_rd_addr, wr_addr + n)

(* The delayed write of the last push reaches the memory, in reset too. *)
MemWrite ==
    mem' = IF wr_r.push THEN [mem EXCEPT ![Cell(wr_r.addr)] = wr_r.data] ELSE mem

(* In reset for several edges before any domain leaves it, the pointer has *)
(* long settled at the receiver.                                           *)
WrReset ==
    /\ ~R!Running("wr")
    /\ wr_addr' = 0
    /\ wr_addr_gray' = BinToGray(0)
    /\ wr_wire' = BinToGray(0)
    /\ wr_rd_src' = BinToGray(0)
    /\ wr_rd_addr_gray' = BinToGray(0)
    /\ wr_rd_addr' = DEPTH
    /\ wr_full' = TRUE /\ wr_almost_full' = TRUE /\ wr_free' = 0
    /\ UNCHANGED rd_wire

(* Mutant of WrRunning: the Gray register shares the pointer's enable. *)
WrRunningOnPush(n) ==
    /\ R!Running("wr")
    /\ wr_addr' = Plus(wr_addr, n)
    /\ wr_addr_gray' = IF n = 1 THEN BinToGray(wr_addr) ELSE wr_addr_gray
    /\ wr_wire' = wr_addr_gray
    /\ wr_rd_src' \in Sampled(rd_wire, rd_addr_gray)
    /\ rd_wire' = wr_rd_src'
    /\ wr_rd_addr_gray' = wr_rd_src
    /\ wr_rd_addr' = Plus(GrayToBin(wr_rd_addr_gray), DEPTH)
    /\ wr_full' = WrFullNext(n)
    /\ wr_almost_full' = WrAlmostFullNext(n)
    /\ wr_free' = WrFreeNext(n)

WrRunning(n) ==
    /\ R!Running("wr")
    /\ wr_addr' = Plus(wr_addr, n)
    /\ wr_addr_gray' = BinToGray(wr_addr)
    /\ wr_wire' = wr_addr_gray
    /\ wr_rd_src' \in Sampled(rd_wire, rd_addr_gray)
    /\ rd_wire' = wr_rd_src'
    /\ wr_rd_addr_gray' = wr_rd_src
    /\ wr_rd_addr' = Plus(GrayToBin(wr_rd_addr_gray), DEPTH)
    /\ wr_full' = WrFullNext(n)
    /\ wr_almost_full' = WrAlmostFullNext(n)
    /\ wr_free' = WrFreeNext(n)

(* wr_push is high.  A producer never pushes when full (dlsc_fifo_async    *)
(* reports "overflow"); it may push until the edge at which it is reset    *)
(* itself.                                                                 *)
WrPush(d) ==
    /\ ~wr_full
    /\ WrReset \/ WrRunning(1)
    /\ wr_r' = Write(wr_addr, d)

WrIdle ==
    /\ WrReset \/ WrRunning(0)
    /\ wr_r' = NoWrite

WrClk ==
    /\ R!Edge("wr")
    /\ MemWrite
    /\ WrIdle \/ \E d \in Data : WrPush(d)
    /\ UNCHANGED rdVars
--------------------------------------------------------------------------------
(* Read domain.  n is rd_pop. *)

RdEmptyNext(n) ==
    IF RD_SLOW THEN n = 1 \/ rd_wr_addr = rd_addr
               ELSE rd_wr_addr = Plus(rd_addr, n)

RdAlmostEmptyNext(n) ==
    IF ALMOST_EMPTY = 0 THEN RdEmptyNext(n)
    ELSE Minus(rd_wr_addr, Plus(rd_addr, ALMOST_EMPTY + 1) + n) >= DEPTH

RdCountNext(n) == Minus(rd_wr_addr, rd_addr + n)

RdReset ==
    /\ ~R!Running("rd")
    /\ rd_addr' = 0
    /\ rd_addr_gray' = BinToGray(0)
    /\ rd_wire' = BinToGray(0)
    /\ rd_wr_src' = BinToGray(0)
    /\ rd_wr_addr_gray' = BinToGray(0)
    /\ rd_wr_addr' = 0
    /\ rd_empty' = TRUE /\ rd_almost_empty' = TRUE /\ rd_count' = 0
    /\ UNCHANGED wr_wire

RdRunning(n) ==
    /\ R!Running("rd")
    /\ rd_addr' = Plus(rd_addr, n)
    /\ rd_addr_gray' = BinToGray(rd_addr)
    /\ rd_wire' = rd_addr_gray
    /\ rd_wr_src' \in Sampled(wr_wire, wr_addr_gray)
    /\ wr_wire' = rd_wr_src'
    /\ rd_wr_addr_gray' = rd_wr_src
    /\ rd_wr_addr' = GrayToBin(rd_wr_addr_gray)
    /\ rd_empty' = RdEmptyNext(n)
    /\ rd_almost_empty' = RdAlmostEmptyNext(n)
    /\ rd_count' = RdCountNext(n)

(* rd_pop is high, never when empty (dlsc_fifo_async reports "underflow"). *)
RdPop == ~rd_empty /\ (RdReset \/ RdRunning(1))

RdIdle == RdReset \/ RdRunning(0)

RdClk ==
    /\ R!Edge("rd")
    /\ RdIdle \/ RdPop
    /\ UNCHANGED wrVars
--------------------------------------------------------------------------------
RstAssert ==
    /\ R!Assert
    /\ UNCHANGED <<wrVars, rdVars, wr_wire, rd_wire>>

(* After one edge of each clock in the first reset; no register has a      *)
(* value of its own before that.                                           *)
Init ==
    /\ rst = [d \in Domains |-> "held"]
    /\ mem = [c \in 0..DEPTH-1 |-> None]
    /\ wr_addr = 0 /\ wr_r = NoWrite
    /\ wr_addr_gray = BinToGray(0) /\ wr_wire = BinToGray(0)
    /\ wr_rd_src = BinToGray(0) /\ wr_rd_addr_gray = BinToGray(0)
    /\ wr_rd_addr = DEPTH
    /\ wr_full = TRUE /\ wr_almost_full = TRUE /\ wr_free = 0
    /\ rd_addr = 0 /\ rd_addr_gray = BinToGray(0) /\ rd_wire = BinToGray(0)
    /\ rd_wr_src = BinToGray(0) /\ rd_wr_addr_gray = BinToGray(0)
    /\ rd_wr_addr = 0
    /\ rd_empty = TRUE /\ rd_almost_empty = TRUE /\ rd_count = 0

Next == RstAssert \/ WrClk \/ RdClk

Spec == Init /\ [][Next]_vars

WrTick == WrClk /\ WrIdle
RdTick == RdClk /\ RdIdle
RdTake == RdClk /\ RdPop

(* Both clocks run.  The producer need not push, so it is idle ticks that  *)
(* are fair: a FIFO of a few words is full before a producer has pushed in *)
(* as many successive cycles as a pop takes to become visible.  The        *)
(* consumer pops again and again while it can.                             *)
Fairness ==
    /\ WF_vars(WrTick)
    /\ WF_vars(RdTick)
    /\ SF_vars(RdTake)

FairSpec == Spec /\ Fairness
--------------------------------------------------------------------------------
TypeOK ==
    /\ rst \in [Domains -> R!ResetState]
    /\ mem \in [0..DEPTH-1 -> Data \cup {None}]
    /\ wr_r \in {NoWrite} \cup [push : {TRUE}, addr : Ptr, data : Data]
    /\ wr_addr \in Ptr /\ wr_rd_addr \in Ptr /\ rd_addr \in Ptr /\ rd_wr_addr \in Ptr
    /\ wr_addr_gray \in Words /\ wr_wire \in Words
    /\ wr_rd_src \in Words /\ wr_rd_addr_gray \in Words
    /\ rd_addr_gray \in Words /\ rd_wire \in Words
    /\ rd_wr_src \in Words /\ rd_wr_addr_gray \in Words
    /\ wr_full \in BOOLEAN /\ wr_almost_full \in BOOLEAN /\ wr_free \in Ptr
    /\ rd_empty \in BOOLEAN /\ rd_almost_empty \in BOOLEAN /\ rd_count \in Ptr

(* The words in the FIFO: those between the pointers.  The newest may not  *)
(* have reached the memory yet.                                            *)
Used == Minus(wr_addr, rd_addr)
Stored(p) == IF wr_r.push /\ wr_r.addr = p THEN wr_r.data ELSE mem[Cell(p)]
Contents ==
    IF R!Running("wr")
    THEN [i \in 1..Used |-> Stored(Plus(rd_addr, i - 1))]
    ELSE <<>>

Chan == INSTANCE Channel WITH
    Item <- Data, Capacity <- DEPTH, q <- Contents, up <- R!Running("wr")

(* No word is lost, repeated, reordered or overwritten, whatever the       *)
(* clocks, the sampling of the pointers and the resets do.                 *)
ImplementsChannel == Chan!Spec

(* A word is in the memory before the read side can see that it is there:  *)
(* rd_data while not empty is the oldest word, never a stale cell.         *)
HeadReady ==
    R!Running("rd") /\ ~rd_empty =>
        Contents # <<>> /\ mem[Cell(rd_addr)] = Head(Contents)

(* A pointer sampled in flight is the old or the new one, not a mixture.   *)
CleanCrossing ==
    /\ Sampled(wr_wire, wr_addr_gray) = {wr_wire, wr_addr_gray}
    /\ Sampled(rd_wire, rd_addr_gray) = {rd_wire, rd_addr_gray}

(* The flags and counts err on the safe side: a producer that fills all    *)
(* the free space it is told of does not overflow, a consumer that takes   *)
(* all the words it is told of does not underflow.                         *)
FreeIsSafe ==
    R!Running("wr") =>
        /\ wr_free <= DEPTH - Used
        /\ ~wr_full => Used < DEPTH
        /\ ~wr_almost_full => DEPTH - Used > ALMOST_FULL
CountIsSafe ==
    R!Running("rd") =>
        /\ rd_count <= Used
        /\ ~rd_empty => Used > 0
        /\ ~rd_almost_empty => Used > ALMOST_EMPTY

(* Unless a reset comes, a stored word is seen by the read side and space *)
(* that was freed by the write side: no lost update of a pointer leaves    *)
(* both sides waiting.                                                     *)
WordsAreSeen == (R!AllRunning /\ Used > 0) ~> (~rd_empty \/ ~R!AllRunning)
SpaceIsSeen == <>[]R!AllRunning => []<>~wr_full
================================================================================
