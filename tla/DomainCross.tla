------------------------------ MODULE DomainCross ------------------------------
(***************************************************************************)
(* dlsc_domaincross_rvh (sync/rtl): a ready/valid handshake that carries a *)
(* word from clock domain "in" to clock domain "out".  The sender toggles  *)
(* in_flag with each word, the receiver copies the word when the           *)
(* synchronised flag differs from its own out_ack and toggles out_ack, and *)
(* the sender is ready again when the synchronised acknowledge equals      *)
(* in_flag.  dlsc_domaincross and the one-deep dlsc_domaincross_pulse are  *)
(* this module with tied-off handshakes.                                   *)
(*                                                                         *)
(* One action is one clock edge of one domain.  The interleaving of the    *)
(* edges is arbitrary, so a synchroniser's first flop gets the old or the  *)
(* new value of a bit that changes near its edge.  in_flagx is a copy of   *)
(* in_flag and is not a variable of its own; out_ackx is not a copy of     *)
(* out_ack (they differ after reset).                                      *)
(*                                                                         *)
(* The parameter RESET_ON_TRANSFER only feeds out_rst_data, which nothing  *)
(* reads: out_reg is cleared by out_rst alone, and there is one variant.   *)
(***************************************************************************)
EXTENDS Naturals, Sequences, SequenceTheorems, TLAPS

CONSTANTS
    Data,   (* the words that may be sent *)
    RESET   (* the value of the data registers after reset *)

VARIABLES
    rst,          (* reset state of the two domains, see ResetDomains *)
    in_flag,      (* toggles with each word sent *)
    in_src,       (* first flop of the synchroniser of out_ackx *)
    in_ack,       (* its second flop: the acknowledge the sender sees *)
    in_reg,       (* the word in transit *)
    out_src,      (* first flop of the synchroniser of in_flagx *)
    out_flag,     (* its second flop: the flag the receiver sees *)
    out_ack,      (* toggles with each word received *)
    out_ackx,     (* the copy of out_ack that crosses to the sender *)
    out_valid,    (* out_reg holds a word not yet accepted *)
    out_reg,      (* the received word *)
    in_reg_prev   (* in_reg at the last out_clk edge, a simulation check *)

inVars == <<in_flag, in_src, in_ack, in_reg>>
outVars == <<out_src, out_flag, out_ack, out_ackx, out_valid, out_reg, in_reg_prev>>
vars == <<rst, inVars, outVars>>

Domains == {"in", "out"}

R == INSTANCE ResetDomains

Bit == {0, 1}
Word == Data \cup {RESET}

(* Mutant of OutEn: the flag of the other domain is used without passing   *)
(* through the synchroniser.                                               *)
OutEnUnsynced(out_ready) == in_flag # out_ack /\ (out_ready \/ ~out_valid)

InReady == in_flag = in_ack
OutEn(out_ready) == out_flag # out_ack /\ (out_ready \/ ~out_valid)
--------------------------------------------------------------------------------
(* Sender. *)

InReset ==
    /\ ~R!Running("in")
    /\ in_flag' = 0
    /\ in_src' = 1
    /\ in_ack' = 1
    /\ in_reg' = RESET

InSync ==
    /\ in_src' = out_ackx
    /\ in_ack' = in_src

InSend(d) ==
    /\ R!Running("in")
    /\ InReady
    /\ in_flag' = 1 - in_flag
    /\ in_reg' = d
    /\ InSync

(* in_valid is low, or the sender is not ready. *)
InIdle ==
    /\ R!Running("in")
    /\ UNCHANGED <<in_flag, in_reg>>
    /\ InSync

InClk ==
    /\ R!Edge("in")
    /\ InReset \/ InIdle \/ \E d \in Data : InSend(d)
    /\ UNCHANGED outVars
--------------------------------------------------------------------------------
(* Receiver. *)

(* Mutant of OutReset: the acknowledge is reset to its idle value, which    *)
(* tells a sender released first that the receiver is ready.               *)
OutResetAcked ==
    /\ ~R!Running("out")
    /\ out_src' = 0
    /\ out_flag' = 0
    /\ out_ack' = 0
    /\ out_ackx' = 0
    /\ out_valid' = FALSE
    /\ out_reg' = RESET

OutReset ==
    /\ ~R!Running("out")
    /\ out_src' = 0
    /\ out_flag' = 0
    /\ out_ack' = 0
    /\ out_ackx' = 1
    /\ out_valid' = FALSE
    /\ out_reg' = RESET

OutSync ==
    /\ out_src' = in_flag
    /\ out_flag' = out_src

(* A new word has been flagged and there is room for it. *)
OutReceive(out_ready) ==
    /\ R!Running("out")
    /\ OutEn(out_ready)
    /\ out_ack' = 1 - out_ack
    /\ out_ackx' = 1 - out_ack
    /\ out_valid' = TRUE
    /\ out_reg' = in_reg
    /\ OutSync

(* Mutants of OutWait: the word is acknowledged when it is seen, not when  *)
(* it is taken; the acknowledge is not restored after reset.               *)
OutWaitAckEarly(out_ready) ==
    /\ R!Running("out")
    /\ ~OutEn(out_ready)
    /\ out_ackx' = out_flag
    /\ out_valid' = (out_valid /\ ~out_ready)
    /\ OutSync
    /\ UNCHANGED <<out_ack, out_reg>>
OutWaitNoRestore(out_ready) ==
    /\ R!Running("out")
    /\ ~OutEn(out_ready)
    /\ out_valid' = (out_valid /\ ~out_ready)
    /\ OutSync
    /\ UNCHANGED <<out_ack, out_ackx, out_reg>>

OutWait(out_ready) ==
    /\ R!Running("out")
    /\ ~OutEn(out_ready)
    /\ out_ackx' = out_ack
    /\ out_valid' = (out_valid /\ ~out_ready)
    /\ OutSync
    /\ UNCHANGED <<out_ack, out_reg>>

OutClk(out_ready) ==
    /\ R!Edge("out")
    /\ OutReset \/ OutReceive(out_ready) \/ OutWait(out_ready)
    /\ in_reg_prev' = in_reg
    /\ UNCHANGED inVars
--------------------------------------------------------------------------------
RstAssert ==
    /\ R!Assert
    /\ UNCHANGED <<inVars, outVars>>

(* Power-up: the registers declared with an initial value have it; the     *)
(* synchronisers, out_valid_r and the data registers have none.            *)
Init ==
    /\ R!Init
    /\ in_flag = 0
    /\ in_src \in Bit
    /\ in_ack \in Bit
    /\ in_reg \in Word
    /\ out_src \in Bit
    /\ out_flag \in Bit
    /\ out_ack = 0
    /\ out_ackx = 1
    /\ out_valid \in BOOLEAN
    /\ out_reg \in Word
    /\ in_reg_prev = in_reg

Next == RstAssert \/ InClk \/ \E out_ready \in BOOLEAN : OutClk(out_ready)

Spec == Init /\ [][Next]_vars

(* Both clocks run, whether or not the sender has a word (it is idle       *)
(* between any two words), and the consumer does not stay unready for ever *)
(* while a word is offered.                                                *)
Fairness == WF_vars(InClk /\ (InReset \/ InIdle)) /\ WF_vars(OutClk(TRUE))

FairSpec == Spec /\ Fairness
--------------------------------------------------------------------------------
TypeOK ==
    /\ rst \in [Domains -> R!ResetState]
    /\ in_flag \in Bit /\ in_src \in Bit /\ in_ack \in Bit
    /\ out_src \in Bit /\ out_flag \in Bit
    /\ out_ack \in Bit /\ out_ackx \in Bit
    /\ out_valid \in BOOLEAN
    /\ in_reg \in Word /\ out_reg \in Word /\ in_reg_prev \in Word

(* The words in the crossing, oldest first. *)
Pending ==
    IF R!AllRunning
    THEN (IF out_valid THEN <<out_reg>> ELSE <<>>)
         \o (IF in_flag # out_ack THEN <<in_reg>> ELSE <<>>)
    ELSE <<>>

Chan == INSTANCE Channel WITH
    Item <- Data, Capacity <- 2, q <- Pending, up <- R!AllRunning

(* While both domains run, a word enters the channel when the sender hands *)
(* it over, the oldest one leaves when the consumer accepts what it is     *)
(* offered, and no other edge of either clock moves a word.                *)
Handshakes ==
    /\ \A d \in Data : InClk /\ InSend(d) => Chan!Put(d)
    /\ InClk /\ InIdle => UNCHANGED Pending
    /\ \A out_ready \in BOOLEAN : OutClk(out_ready) =>
          /\ out_ready /\ out_valid => Chan!Take
          /\ ~(out_ready /\ out_valid) => UNCHANGED Pending

ChannelStep ==
    /\ R!AllRunning /\ R!AllRunning' => Handshakes
    /\ ~(R!AllRunning /\ R!AllRunning') => [Chan!Next]_(Chan!vars)

(* Every word accepted from the sender reaches the consumer once, in       *)
(* order, and a reset of either side, at any time, leaves no stale word or *)
(* half-done handshake behind.                                             *)
ImplementsChannel == Chan!Init /\ [][ChannelStep]_vars

(* dlsc_domaincross_slice checks "in_en and out_en must never be asserted  *)
(* simultaneously": the word is never rewritten while it may be copied.    *)
NeverBothEnabled ==
    R!AllRunning => ~(InReady /\ \E out_ready \in BOOLEAN : OutEn(out_ready))

(* dlsc_domaincross_slice checks "in_reg must be stable when out_en is     *)
(* asserted": the data flops have no synchroniser, so the word must have   *)
(* been there a full period of out_clk before it is copied.                *)
StableWhenCopied ==
    \A out_ready \in BOOLEAN :
        R!AllRunning /\ OutEn(out_ready) => in_reg = in_reg_prev

NonePending == \A d \in Domains : rst[d] # "pending"

(* Of the seven bits of the handshake loop at most one neighbouring pair   *)
(* differs: no toggle is ever overtaken by the next one.                   *)
Loop == <<in_flag, out_src, out_flag, out_ack, out_ackx, in_src, in_ack>>
OneToggleInFlight ==
    NonePending =>
        \/ \A i \in 1..6 : Loop[i] <= Loop[i + 1]
        \/ \A i \in 1..6 : Loop[i] >= Loop[i + 1]

(* The inductive invariant behind the safety properties: a domain held in  *)
(* reset has its reset values, nothing moves before both domains run, and  *)
(* from then on the loop carries one toggle at a time.                     *)
HeldValues ==
    /\ rst["in"] = "held" =>
          in_flag = 0 /\ in_src = 1 /\ in_ack = 1 /\ in_reg = RESET
    /\ rst["out"] = "held" =>
          /\ out_src = 0 /\ out_flag = 0 /\ out_ack = 0 /\ out_ackx = 1
          /\ ~out_valid
QuietStart ==
    NonePending /\ ~R!AllRunning =>
        /\ in_flag = 0 /\ in_src = 1 /\ in_ack = 1
        /\ out_src = 0 /\ out_flag = 0 /\ out_ack = 0 /\ ~out_valid
IInv ==
    /\ TypeOK
    /\ NonePending \/ \A d \in Domains : ~R!Running(d)
    /\ HeldValues
    /\ QuietStart
    /\ OneToggleInFlight
    /\ NonePending /\ out_flag # out_ack => in_reg = in_reg_prev

(* Once the resets stay low the sender is ready again and again: neither   *)
(* the start-up handshake nor a transfer can leave both sides waiting.     *)
SenderReadyAgain == <>[]R!AllRunning => []<>InReady
--------------------------------------------------------------------------------
(* Proofs.  For any set of words and any reset value this is a two-place   *)
(* channel between its clock domains, and the assertions of its data slice *)
(* never fire.                                                             *)

(* IInv with the order of the seven flops of the loop written out.         *)
Rising ==
    /\ in_flag <= out_src /\ out_src <= out_flag /\ out_flag <= out_ack
    /\ out_ack <= out_ackx /\ out_ackx <= in_src /\ in_src <= in_ack
Falling ==
    /\ in_flag >= out_src /\ out_src >= out_flag /\ out_flag >= out_ack
    /\ out_ack >= out_ackx /\ out_ackx >= in_src /\ in_src >= in_ack

Inv ==
    /\ TypeOK
    /\ NonePending \/ \A d \in Domains : ~R!Running(d)
    /\ HeldValues
    /\ QuietStart
    /\ NonePending => Rising \/ Falling
    /\ NonePending /\ out_flag # out_ack => in_reg = in_reg_prev

LEMMA InvIsIInv == Inv <=> IInv
<1>1. /\ Loop[1] = in_flag /\ Loop[2] = out_src /\ Loop[3] = out_flag /\ Loop[4] = out_ack
      /\ Loop[5] = out_ackx /\ Loop[6] = in_src /\ Loop[7] = in_ack
  BY DEF Loop
<1>2. \A i \in 1..6 : i = 1 \/ i = 2 \/ i = 3 \/ i = 4 \/ i = 5 \/ i = 6
  OBVIOUS
<1>3. (\A i \in 1..6 : Loop[i] <= Loop[i + 1]) <=> Rising
  BY <1>1, <1>2 DEF Rising
<1>4. (\A i \in 1..6 : Loop[i] >= Loop[i + 1]) <=> Falling
  BY <1>1, <1>2 DEF Falling
<1> QED BY <1>3, <1>4 DEF OneToggleInFlight, Inv, IInv

LEMMA InitInv == Init => Inv
  BY DEF Init, R!Init, Inv, TypeOK, HeldValues, QuietStart, NonePending, Domains, R!Running,
      R!AllRunning, R!ResetState, Bit, Word

(* What one edge of either clock does to the resets, domain by domain.     *)
LEMMA ResetEdge ==
  ASSUME TypeOK, NEW d \in Domains, R!Edge(d)
  PROVE  /\ rst' \in [Domains -> R!ResetState]
         /\ \A e \in Domains \ {d} : rst'[e] = rst[e]
         /\ rst[d] = "run" => rst'[d] = "run"
         /\ rst[d] = "pending" => rst'[d] = "held"
         /\ rst[d] = "held" => rst'[d] = "held" \/ (rst'[d] = "run" /\ NonePending)
  BY DEF TypeOK, R!Edge, R!Stay, R!Release, R!ResetState, NonePending

(* An edge of in_clk: the sender is reset, idle or sends a word. *)
LEMMA InClkInv ==
  ASSUME Inv, InClk
  PROVE  Inv'
<1> USE DEF Domains, R!Running, R!AllRunning, R!ResetState, Bit
<1>0. /\ rst' \in [Domains -> R!ResetState]
      /\ rst'["out"] = rst["out"]
      /\ rst["in"] = "run" => rst'["in"] = "run"
      /\ rst["in"] = "pending" => rst'["in"] = "held"
      /\ rst["in"] = "held" => rst'["in"] = "held" \/ (rst'["in"] = "run" /\ NonePending)
  BY ResetEdge DEF InClk, Inv
<1>1. CASE InReset
  BY <1>0, <1>1
  DEF InClk, InReset, outVars, Inv, TypeOK, NonePending, HeldValues, QuietStart, Rising,
      Falling, Word
<1>2. CASE InIdle
  BY <1>0, <1>2
  DEF InClk, InIdle, InSync, outVars, Inv, TypeOK, NonePending, HeldValues, QuietStart,
      Rising, Falling, Word
<1>3. ASSUME NEW w \in Data, InSend(w)
      PROVE  Inv'
  <2>1. out_flag = out_ack /\ in_flag = in_ack /\ NonePending
    BY <1>3 DEF InSend, InReady, Inv, TypeOK, NonePending, Rising, Falling
  <2> QED
    BY <1>0, <1>3, <2>1
    DEF InClk, InSend, InReady, InSync, outVars, Inv, TypeOK, NonePending, HeldValues,
        QuietStart, Rising, Falling, Word
<1> QED BY <1>1, <1>2, <1>3 DEF InClk

(* An edge of out_clk: the receiver is reset, waits or copies a word. *)
LEMMA OutClkInv ==
  ASSUME Inv, NEW out_ready \in BOOLEAN, OutClk(out_ready)
  PROVE  Inv'
<1> USE DEF Domains, R!Running, R!AllRunning, R!ResetState, Bit
<1>0. /\ rst' \in [Domains -> R!ResetState]
      /\ rst'["in"] = rst["in"]
      /\ rst["out"] = "run" => rst'["out"] = "run"
      /\ rst["out"] = "pending" => rst'["out"] = "held"
      /\ rst["out"] = "held" => rst'["out"] = "held" \/ (rst'["out"] = "run" /\ NonePending)
  BY ResetEdge DEF OutClk, Inv
<1>1. CASE OutReset
  <2>1. /\ in_flag' = in_flag /\ in_src' = in_src /\ in_ack' = in_ack /\ in_reg' = in_reg
        /\ in_reg_prev' = in_reg
    BY DEF OutClk, inVars
  <2>2. /\ out_src' = 0 /\ out_flag' = 0 /\ out_ack' = 0 /\ out_ackx' = 1
        /\ out_valid' = FALSE /\ out_reg' = RESET
    BY <1>1 DEF OutReset
  <2>3. rst["out"] # "run" /\ rst'["out"] # "pending"
    BY <1>0, <1>1 DEF OutReset, Inv, TypeOK
  <2>4. TypeOK'
    BY <1>0, <2>1, <2>2 DEF Inv, TypeOK, Word
  <2>5. NonePending' => rst["in"] \in {"held", "run"}
    BY <1>0 DEF NonePending, Inv, TypeOK
  <2>6. rst["in"] \in {"held", "run"} /\ rst["out"] # "pending" => NonePending
    BY DEF NonePending
  <2>7. rst["in"] = "run" => NonePending
    BY DEF Inv
  <2>8. rst["in"] \in {"held", "run"} => in_flag = 0 /\ in_src = 1 /\ in_ack = 1
    BY <2>3, <2>7 DEF Inv, HeldValues, QuietStart
  <2>9. NonePending' => Rising' /\ QuietStart' /\ out_flag' = out_ack'
    BY <2>1, <2>2, <2>5, <2>8 DEF Rising, QuietStart
  <2>10. NonePending' \/ \A d \in Domains : ~R!Running(d)'
    BY <1>0, <2>3, <2>7 DEF NonePending, Inv, TypeOK
  <2>11. HeldValues'
    BY <1>0, <2>1, <2>2 DEF Inv, HeldValues
  <2> QED BY <2>4, <2>9, <2>10, <2>11 DEF Inv, QuietStart
<1>2. CASE OutWait(out_ready)
  BY <1>0, <1>2
  DEF OutClk, OutWait, OutEn, OutSync, inVars, Inv, TypeOK, NonePending, HeldValues,
      QuietStart, Rising, Falling, Word
<1>3. CASE OutReceive(out_ready)
  BY <1>0, <1>3
  DEF OutClk, OutReceive, OutEn, OutSync, inVars, Inv, TypeOK, NonePending, HeldValues,
      QuietStart, Rising, Falling, Word
<1> QED BY <1>1, <1>2, <1>3 DEF OutClk

LEMMA NextInv == Inv /\ [Next]_vars => Inv'
<1> SUFFICES ASSUME Inv, [Next]_vars PROVE Inv'
  OBVIOUS
<1>1. CASE RstAssert
  BY <1>1
  DEF RstAssert, R!Assert, inVars, outVars, Inv, TypeOK, NonePending, HeldValues, QuietStart,
      Domains, R!Running, R!AllRunning, R!ResetState
<1>2. CASE UNCHANGED vars
  BY <1>2
  DEF vars, inVars, outVars, Inv, TypeOK, NonePending, HeldValues, QuietStart, Rising,
      Falling, R!Running, R!AllRunning
<1> QED BY <1>1, <1>2, InClkInv, OutClkInv DEF Next

LEMMA InvAlways == Spec => []Inv
  BY InitInv, NextInv, PTL DEF Spec

(* The invariant of the handshake loop. *)
THEOREM Invariance == Spec => []IInv
  BY InvAlways, InvIsIInv, PTL

(* Every register keeps its type, the one-bit flags included. *)
THEOREM TypeCorrect == Spec => []TypeOK
<1>1. IInv => TypeOK
  BY DEF IInv
<1> QED BY <1>1, Invariance, PTL

(* The sender and the receiver are never enabled together: the first       *)
(* simulation assertion of dlsc_domaincross_slice.                         *)
THEOREM ExclusiveEnables == Spec => []NeverBothEnabled
<1>1. Inv => NeverBothEnabled
  BY DEF Inv, TypeOK, NeverBothEnabled, InReady, OutEn, R!AllRunning, R!Running, NonePending,
         Rising, Falling, Bit
<1> QED BY <1>1, InvAlways, PTL

(* The word in transit has been stable for a period of out_clk when it is  *)
(* copied: the second simulation assertion of dlsc_domaincross_slice.      *)
THEOREM StableData == Spec => []StableWhenCopied
<1>1. Inv => StableWhenCopied
  BY DEF Inv, StableWhenCopied, OutEn, R!AllRunning, R!Running, NonePending
<1> QED BY <1>1, InvAlways, PTL

--------------------------------------------------------------------------------
(* Refinement of Channel. *)

LEMMA AppendOne ==
  ASSUME NEW a, NEW b
  PROVE  Append(<<a>>, b) = <<a, b>>
<1> DEFINE s == Append(<<a>>, b)
           t == <<a, b>>
<1>1. <<a>> \in Seq({a, b}) /\ t \in Seq({a, b}) /\ b \in {a, b}
  OBVIOUS
<1>2. s \in Seq({a, b}) /\ Len(s) = 2 /\ s[1] = a /\ s[2] = b
  BY <1>1, AppendProperties
<1>3. t[1] = a /\ t[2] = b /\ Len(t) = 2
  OBVIOUS
<1>4. \A i \in 1..Len(s) : s[i] = t[i]
  <2>1. \A i \in 1..2 : i = 1 \/ i = 2
    OBVIOUS
  <2> HIDE DEF s, t
  <2> QED BY <1>2, <1>3, <2>1
<1> HIDE DEF s, t
<1>5. s = t
  BY <1>1, <1>2, <1>3, <1>4, SeqEqual
<1> QED BY <1>5 DEF s, t

LEMMA ConcatOne ==
  ASSUME NEW a, NEW b
  PROVE  <<a>> \o <<b>> = <<a, b>>
<1>1. <<a>> \in Seq({a, b})
  OBVIOUS
<1> QED BY <1>1, AppendOne, AppendIsConcat

(* The words in the crossing while both domains run. *)
LEMMA PendingCases ==
  ASSUME R!AllRunning
  PROVE  /\ out_valid /\ in_flag # out_ack => Pending = <<out_reg, in_reg>>
         /\ out_valid /\ in_flag = out_ack => Pending = <<out_reg>>
         /\ ~out_valid /\ in_flag # out_ack => Pending = <<in_reg>>
         /\ ~out_valid /\ in_flag = out_ack => Pending = <<>>
<1>1. /\ <<out_reg>> \o <<in_reg>> = <<out_reg, in_reg>>
      /\ <<out_reg>> \o <<>> = <<out_reg>>
      /\ <<>> \o <<in_reg>> = <<in_reg>>
      /\ <<>> \o <<>> = <<>>
  BY ConcatOne
<1> QED BY <1>1 DEF Pending

LEMMA PendingNow ==
  ASSUME Inv, R!AllRunning
  PROVE  Pending = IF out_valid
                   THEN IF in_flag # out_ack THEN <<out_reg, in_reg>> ELSE <<out_reg>>
                   ELSE IF in_flag # out_ack THEN <<in_reg>> ELSE <<>>
  BY PendingCases DEF Inv, TypeOK

(* The same for the next state. *)
LEMMA PendingNext ==
  ASSUME Inv', R!AllRunning'
  PROVE  Pending' = IF out_valid'
                    THEN IF in_flag' # out_ack' THEN <<out_reg', in_reg'>> ELSE <<out_reg'>>
                    ELSE IF in_flag' # out_ack' THEN <<in_reg'>> ELSE <<>>
<1>1. /\ <<out_reg'>> \o <<in_reg'>> = <<out_reg', in_reg'>>
      /\ <<out_reg'>> \o <<>> = <<out_reg'>>
      /\ <<>> \o <<in_reg'>> = <<in_reg'>>
      /\ <<>> \o <<>> = <<>>
  BY ConcatOne
<1> QED BY <1>1 DEF Pending, Inv, TypeOK

(* A step before, during or after a reset: nothing is in the channel. *)
LEMMA ResetStep ==
  ASSUME Inv, Inv', [Next]_vars, ~(R!AllRunning /\ R!AllRunning')
  PROVE  [Chan!Next]_(Chan!vars)
<1> USE DEF Domains, R!Running, R!AllRunning
<1>1. CASE ~R!AllRunning /\ ~R!AllRunning'
  BY <1>1 DEF Pending, Chan!vars
<1>2. CASE R!AllRunning /\ ~R!AllRunning'
  BY <1>2 DEF Pending, Chan!Next, Chan!Down
<1>3. CASE ~R!AllRunning /\ R!AllRunning'
  <2>1. Pending = <<>>
    BY <1>3 DEF Pending
  <2>2. in_flag' = out_ack' /\ out_valid' = FALSE
    <3>1. CASE InClk
      <4>1. rst'["out"] = rst["out"] /\ rst["in"] # "run" /\ NonePending
        BY <1>3, <3>1, ResetEdge DEF InClk, Inv, TypeOK, R!ResetState
      <4> QED BY <1>3, <3>1, <4>1 DEF InClk, InReset, InIdle, InSend, outVars, Inv, TypeOK, QuietStart
    <3>2. ASSUME NEW out_ready \in BOOLEAN, OutClk(out_ready)
          PROVE  in_flag' = out_ack' /\ out_valid' = FALSE
      <4>1. rst'["in"] = rst["in"] /\ rst["out"] # "run" /\ NonePending
        BY <1>3, <3>2, ResetEdge DEF OutClk, Inv, TypeOK, R!ResetState
      <4> QED BY <1>3, <3>2, <4>1
          DEF OutClk, OutReset, OutWait, OutReceive, inVars, Inv, TypeOK, QuietStart
    <3>3. CASE RstAssert
      BY <1>3, <3>3 DEF RstAssert, R!Assert
    <3>4. CASE UNCHANGED vars
      BY <1>3, <3>4 DEF vars
    <3> QED BY <3>1, <3>2, <3>3, <3>4 DEF Next
  <2>3. Pending' = <<>>
    BY <1>3, <2>2, PendingNext
  <2> QED BY <1>3, <2>1, <2>3 DEF Chan!Next, Chan!Up
<1> QED BY <1>1, <1>2, <1>3

(* A step between running states: a word is put, taken or neither, as the  *)
(* handshakes have it.                                                     *)
LEMMA RunningStep ==
  ASSUME Inv, Inv', R!AllRunning, R!AllRunning'
  PROVE  Handshakes
<1>1. NonePending /\ (Rising \/ Falling) /\ TypeOK
  BY DEF Inv, R!AllRunning, R!Running, NonePending
<1>2. ASSUME InClk, InIdle PROVE UNCHANGED Pending
  BY <1>2, PendingNow, PendingNext DEF InClk, InIdle, outVars
<1>3. ASSUME NEW w \in Data, InClk, InSend(w) PROVE Chan!Put(w)
  <2>1. in_flag = out_ack /\ in_flag' # out_ack'
    BY <1>1, <1>3 DEF InClk, InSend, InReady, outVars, TypeOK, Rising, Falling, Bit
  <2>2. Pending = (IF out_valid THEN <<out_reg>> ELSE <<>>)
    BY <2>1, PendingNow
  <2>3. Pending' = (IF out_valid THEN <<out_reg, w>> ELSE <<w>>)
    BY <1>3, <2>1, PendingNext DEF InClk, InSend, outVars
  <2>4. /\ Append(<<out_reg>>, w) = <<out_reg, w>> /\ Append(<<>>, w) = <<w>>
        /\ Len(<<out_reg>>) < 2 /\ Len(<<>>) < 2
    <3>1. Append(<<out_reg>>, w) = <<out_reg, w>>
      BY AppendOne
    <3> QED BY <3>1
  <2> QED BY <2>2, <2>3, <2>4 DEF Chan!Put
<1>4. ASSUME NEW out_ready \in BOOLEAN, OutClk(out_ready)
      PROVE  /\ out_ready /\ out_valid => Chan!Take
             /\ ~(out_ready /\ out_valid) => UNCHANGED Pending
  <2>1. rst["out"] = "run" /\ in_flag' = in_flag /\ in_reg' = in_reg
    BY <1>4 DEF R!AllRunning, R!Running, Domains, OutClk, inVars
  <2>2. CASE OutReceive(out_ready)
    <3>1. /\ in_flag # out_ack /\ in_flag' = out_ack' /\ out_valid' /\ out_reg' = in_reg
          /\ out_ready \/ ~out_valid
      BY <1>1, <2>1, <2>2 DEF OutReceive, OutEn, TypeOK, Rising, Falling, Bit
    <3>2. Pending' = <<in_reg>>
      BY <3>1, PendingNext
    <3>3. Pending = (IF out_valid THEN <<out_reg, in_reg>> ELSE <<in_reg>>)
      BY <3>1, PendingNow
    <3>4. Tail(<<out_reg, in_reg>>) = <<in_reg>> /\ <<out_reg, in_reg>> # <<>>
      OBVIOUS
    <3> QED BY <3>1, <3>2, <3>3, <3>4 DEF Chan!Take
  <2>3. CASE OutWait(out_ready)
    <3>1. out_ack' = out_ack /\ out_reg' = out_reg /\ out_valid' = (out_valid /\ ~out_ready)
      BY <2>3 DEF OutWait
    <3>2. CASE out_valid /\ out_ready
      <4>1. Pending' = (IF in_flag # out_ack THEN <<in_reg>> ELSE <<>>)
        BY <3>1, <3>2, <2>1, PendingNext
      <4>2. Pending = (IF in_flag # out_ack THEN <<out_reg, in_reg>> ELSE <<out_reg>>)
        BY <3>2, PendingNow
      <4>3. /\ Tail(<<out_reg, in_reg>>) = <<in_reg>> /\ <<out_reg, in_reg>> # <<>>
            /\ Tail(<<out_reg>>) = <<>> /\ <<out_reg>> # <<>>
        OBVIOUS
      <4> QED BY <3>2, <4>1, <4>2, <4>3 DEF Chan!Take
    <3>3. CASE ~(out_valid /\ out_ready)
      <4>1. out_valid' = out_valid
        BY <1>1, <3>1, <3>3 DEF TypeOK
      <4> QED BY <3>1, <3>3, <4>1, <2>1, PendingNow, PendingNext
    <3> QED BY <3>2, <3>3
  <2> QED BY <1>4, <2>1, <2>2, <2>3 DEF OutClk, OutReset, R!Running
<1> QED BY <1>2, <1>3, <1>4 DEF Handshakes

(* Every word accepted from the sender reaches the consumer once and in    *)
(* order, entering and leaving by the handshakes of the two sides,         *)
(* whatever the clocks do and whenever the reset comes.                    *)
THEOREM ChannelRefinement == Spec => ImplementsChannel
<1>1. Init => Chan!Init
  BY DEF Init, R!Init, R!AllRunning, R!Running, Domains, Pending, Chan!Init
<1>2. Inv /\ Inv' /\ [Next]_vars => [ChannelStep]_vars
  BY ResetStep, RunningStep DEF ChannelStep
<1> QED BY <1>1, <1>2, InvAlways, PTL DEF Spec, ImplementsChannel
================================================================================
