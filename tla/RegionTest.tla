------------------------------- MODULE RegionTest -------------------------------
(***************************************************************************)
(* What a memory test with several outstanding requests promises.  A       *)
(* tester keeps a shadow of a memory and learns of its requests in three   *)
(* steps: it opens a request, the memory serves it at some later moment,   *)
(* and the tester closes it later still.  A request may be opened only if  *)
(* no open one conflicts with it.  A write that fails may have stored part *)
(* of its data.                                                            *)
(***************************************************************************)
CONSTANTS Loc, Txn, Value, Blank

RegionTestAssumption == Blank \in Value

VARIABLES
    open,           (* requests not closed *)
    req,            (* of each of them: read, words, strb and data *)
    answer,         (* "none", "ok" or "failed" *)
    got,            (* what a read returned *)
    store,          (* the memory *)
    shadow,         (* what the tester expects there *)
    initd,          (* where it knows *)
    miscompare

vars == <<open, req, answer, got, store, shadow, initd, miscompare>>

Request ==
    [read : BOOLEAN, words : SUBSET Loc, strb : SUBSET Loc, data : Value]

(* A read has no strobes; a write stores within its words. *)
Valid(r) == r.strb \subseteq r.words /\ (r.read => r.strb = {})

(* Of a request that is not open nothing is kept. *)
NoRequest == [read |-> TRUE, words |-> {}, strb |-> {}, data |-> Blank]
Nothing == [l \in Loc |-> Blank]

Init ==
    /\ open = {}
    /\ req = [t \in Txn |-> NoRequest] /\ answer = [t \in Txn |-> "none"]
    /\ got = [t \in Txn |-> Nothing]
    /\ store \in [Loc -> Value] /\ shadow \in [Loc -> Value]
    /\ initd = {}
    /\ miscompare = FALSE

Conflict(r, s) == (~r.read \/ ~s.read) /\ r.words \cap s.words # {}

(* The memory serves a request. *)
Written(r, part) == [l \in Loc |-> IF l \in part THEN r.data ELSE store[l]]
Fetched(r) == [l \in Loc |-> IF l \in r.words THEN store[l] ELSE Blank]

Served(t, r, a) ==
    /\ answer' = [answer EXCEPT ![t] = a]
    /\ got' = IF a = "ok" /\ r.read THEN [got EXCEPT ![t] = Fetched(r)] ELSE got
    /\ \/ a = "ok" /\ store' = Written(r, r.strb)
       \/ a = "failed" /\ \E part \in SUBSET r.strb : store' = Written(r, part)
       \/ a = "none" /\ store' = store

(* Opening a request, which may be served at once. *)
Open(t, r) ==
    /\ t \notin open /\ Valid(r)
    /\ \A u \in open : ~Conflict(r, req[u])
    /\ r.read => r.words \subseteq initd
    /\ open' = open \cup {t}
    /\ req' = [req EXCEPT ![t] = r]
    /\ \E a \in {"none", "ok", "failed"} : Served(t, r, a)
    /\ UNCHANGED <<shadow, initd, miscompare>>

Serve(t) ==
    /\ t \in open /\ answer[t] = "none"
    /\ \E a \in {"ok", "failed"} : Served(t, req[t], a)
    /\ UNCHANGED <<open, req, shadow, initd, miscompare>>

(* A failed write leaves its words unknown; one that stored all of its     *)
(* words makes them known.                                                 *)
Close(t) ==
    LET r == req[t]
    IN  /\ t \in open /\ answer[t] # "none"
        /\ open' = open \ {t}
        /\ IF r.read THEN UNCHANGED <<shadow, initd>>
           ELSE IF answer[t] = "failed" THEN initd' = initd \ r.words /\ UNCHANGED shadow
           ELSE /\ shadow' = [l \in Loc |-> IF l \in r.strb THEN r.data ELSE shadow[l]]
                /\ initd' = IF r.strb = r.words THEN initd \cup r.words ELSE initd
        /\ miscompare' =
             (miscompare \/ (r.read /\ answer[t] = "ok"
                                /\ \E l \in r.words : got[t][l] # shadow[l]))
        /\ req' = [req EXCEPT ![t] = NoRequest]
        /\ answer' = [answer EXCEPT ![t] = "none"]
        /\ got' = [got EXCEPT ![t] = Nothing]
        /\ UNCHANGED store

Next == \E t \in Txn : (\E r \in Request : Open(t, r)) \/ Serve(t) \/ Close(t)

Spec == Init /\ [][Next]_vars
--------------------------------------------------------------------------------
TypeOK ==
    /\ open \subseteq Txn
    /\ req \in [Txn -> Request]
    /\ answer \in [Txn -> {"none", "ok", "failed"}]
    /\ got \in [Txn -> [Loc -> Value]]
    /\ store \in [Loc -> Value] /\ shadow \in [Loc -> Value]
    /\ initd \subseteq Loc
    /\ miscompare \in BOOLEAN

(* Open requests are valid and do not conflict. *)
Separate ==
    /\ \A t \in open : Valid(req[t]) /\ (req[t].read => req[t].words \subseteq initd)
    /\ \A t, u \in open : t # u => ~Conflict(req[t], req[u])

(* Where the tester knows the memory and no open write reaches, the memory *)
(* holds what it expects; under an open write it may already hold the new  *)
(* data instead.                                                           *)
Agree ==
    /\ \A l \in initd :
          \/ store[l] = shadow[l]
          \/ \E t \in open : ~req[t].read /\ l \in req[t].strb /\ answer[t] # "none"
    /\ \A t \in open : ~req[t].read /\ answer[t] = "ok" =>
          \A l \in req[t].strb : store[l] = req[t].data
    /\ \A t \in open : req[t].read /\ answer[t] = "ok" =>
          \A l \in req[t].words : got[t][l] = shadow[l]

(* The tester never finds a wrong word: a conforming memory passes. *)
NoMiscompare == ~miscompare

IInv == TypeOK /\ Separate /\ Agree /\ NoMiscompare
================================================================================
