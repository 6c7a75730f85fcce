--------------------------------- MODULE Bridge ---------------------------------
(***************************************************************************)
(* What a pair of bus adapters promises, whatever bus lies between them: a *)
(* transaction given to the master has its words, and no others, asked of  *)
(* the memory behind the slave; it completes once, in the order of its     *)
(* socket, with OK exactly if the memory answered OK to all of its words,  *)
(* and with the words that belong to it.  Reset loses transactions: the    *)
(* memory may answer what it was asked for them, but no answer to a lost   *)
(* transaction is taken for that of another.                               *)
(***************************************************************************)
EXTENDS Naturals, Sequences

CONSTANTS Txn, Id, IdOf, LengthOf

BridgeAssumption == IdOf \in [Txn -> Id] /\ LengthOf \in [Txn -> Nat \ {0}]

VARIABLES
    rst,
    open,           (* for each socket, the transactions not completed *)
    asked,          (* words asked of the memory *)
    answer,         (* its answer for each word *)
    result          (* of each transaction *)

vars == <<rst, open, asked, answer, result>>

Words(t) == {<<t, k>> : k \in 1..LengthOf[t]}
Word == UNION {Words(t) : t \in Txn}
Elems(q) == {q[i] : i \in DOMAIN q}
Open == UNION {Elems(open[i]) : i \in Id}

Init ==
    /\ rst = TRUE
    /\ open = [i \in Id |-> <<>>] /\ asked = {}
    /\ answer = [w \in Word |-> "none"] /\ result = [t \in Txn |-> "none"]

Issue(t) ==
    /\ t \notin Open /\ result[t] = "none"
    /\ open' = [open EXCEPT ![IdOf[t]] = Append(@, t)]
    /\ UNCHANGED <<rst, asked, answer, result>>

(* The memory is asked for words of open transactions, and answers. *)
Serve ==
    /\ asked \subseteq asked' /\ asked' \subseteq asked \cup UNION {Words(t) : t \in Open}
    /\ DOMAIN answer' = Word
    /\ \A w \in Word :
         answer'[w] = answer[w] \/ (answer[w] = "none" /\ w \in asked' /\ answer'[w] \in {"ok", "failed"})

Outcome(t) == IF \A w \in Words(t) : answer[w] = "ok" THEN "ok" ELSE "failed"

(* The first transactions of some sockets complete; all their words have   *)
(* been answered.                                                          *)
Finish ==
    LET done == Open \ UNION {Elems(open'[i]) : i \in Id}
    IN  /\ DOMAIN open' = Id
        /\ \A i \in Id : \E n \in 0..Len(open[i]) : open'[i] = SubSeq(open[i], n + 1, Len(open[i]))
        /\ \A t \in done : \A w \in Words(t) : answer[w] # "none"
        /\ result' = [t \in Txn |-> IF t \in done THEN Outcome(t) ELSE result[t]]

Clock == Serve /\ Finish /\ UNCHANGED rst

Lose ==
    /\ rst
    /\ result' = [t \in Txn |-> IF t \in Open THEN "lost" ELSE result[t]]
    /\ open' = [i \in Id |-> <<>>]
    /\ UNCHANGED <<rst, asked, answer>>

Reset == rst' = ~rst /\ UNCHANGED <<open, asked, answer, result>>

Next == (\E t \in Txn : Issue(t)) \/ Clock \/ Lose \/ Reset

Spec == Init /\ [][Next]_vars
================================================================================
