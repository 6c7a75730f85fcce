--------------------------------- MODULE MCBfm ---------------------------------
(***************************************************************************)
(* The bus adapters of the simulation library, each pair of a master and a *)
(* slave wired to each other, and the target behind which a master sits:   *)
(* unit says which one a behaviour is about.  Three transactions on two    *)
(* sockets, two of them on the same one.                                   *)
(***************************************************************************)
EXTENDS Integers, Sequences

CONSTANTS MaxResets, None

VARIABLES unit, rst, resets, issued, finished, status, pending, answer, master, bus, slave

Txn == 1..3
Id == {0, 1}
IdOf == <<0, 1, 0>>
LengthOf == <<2, 1, 1>>
Distinct == <<0, 8, 16>>
Adjacent == <<0, 2, 3>>
Failure == {"ADDRESS_ERROR"}

AxiRead == INSTANCE AxiTlmRead WITH
    AddrOf <- Distinct, IsRead <- <<TRUE, TRUE, TRUE>>, Failure <- {"ADDRESS_ERROR"}
AxiWrite == INSTANCE AxiTlmWrite WITH
    AddrOf <- Distinct, IsRead <- <<FALSE, FALSE, FALSE>>, Failure <- {"GENERIC_ERROR"}
Apb == INSTANCE ApbTlm WITH AddrOf <- Distinct, IsRead <- <<FALSE, TRUE, TRUE>>
Csr == INSTANCE CsrTlm WITH AddrOf <- Distinct, IsRead <- <<FALSE, TRUE, TRUE>>
Wishbone == INSTANCE WishboneTlm WITH
    AddrOf <- Distinct, IsRead <- <<TRUE, FALSE, TRUE>>,
    pipelined <- FALSE, registered <- TRUE, max_length <- 3, max_outstanding <- 2
Pipelined == INSTANCE WishboneTlm WITH
    MaxResets <- 0, AddrOf <- Adjacent, IsRead <- <<TRUE, TRUE, FALSE>>,
    pipelined <- TRUE, registered <- TRUE, max_length <- 3, max_outstanding <- 2
Target == INSTANCE TlmTarget WITH
    AddrOf <- Distinct, IsRead <- <<TRUE, TRUE, FALSE>>,
    Invalid <- {3}, Delays <- {0, 1}, MaxNow <- 2

ASSUME MCBfmAssumption ==
    /\ AxiRead!TlmBenchAssumption /\ AxiWrite!TlmBenchAssumption
    /\ Apb!TlmBenchAssumption /\ Csr!TlmBenchAssumption
    /\ Wishbone!TlmBenchAssumption /\ Wishbone!WishboneTlmAssumption
    /\ Pipelined!TlmBenchAssumption /\ Pipelined!WishboneTlmAssumption
    /\ Target!TlmBenchAssumption /\ Target!TlmTargetAssumption

vars == <<unit, rst, resets, issued, finished, status, pending, answer, master, bus, slave>>

Init ==
    \/ unit = "axi read" /\ AxiRead!Init
    \/ unit = "axi write" /\ AxiWrite!Init
    \/ unit = "apb" /\ Apb!Init
    \/ unit = "csr" /\ Csr!Init
    \/ unit = "wishbone" /\ Wishbone!Init
    \/ unit = "pipelined wishbone" /\ Pipelined!Init
    \/ unit = "target" /\ Target!Init

Step ==
    \/ unit = "axi read" /\ AxiRead!Next
    \/ unit = "axi write" /\ AxiWrite!Next
    \/ unit = "apb" /\ Apb!Next
    \/ unit = "csr" /\ Csr!Next
    \/ unit = "wishbone" /\ Wishbone!Next
    \/ unit = "pipelined wishbone" /\ Pipelined!Next
    \/ unit = "target" /\ Target!Next

Next == Step /\ UNCHANGED unit

(* The fairness of each unit: the clock with favourable draws, the memory  *)
(* and the end of reset; or the parts around the target.                   *)
Lucky ==
    \/ unit = "axi read" /\ AxiRead!Clk(TRUE)
    \/ unit = "axi write" /\ AxiWrite!Clk(TRUE)
    \/ unit = "apb" /\ Apb!Clk(TRUE)
    \/ unit = "csr" /\ Csr!Clk(TRUE)
    \/ unit = "wishbone" /\ Wishbone!Clk(TRUE)
    \/ unit = "pipelined wishbone" /\ Pipelined!Clk(TRUE)
Memory == unit # "target" /\ \E r \in pending : Csr!Answer(r)
Release == unit # "target" /\ Csr!ReleaseReset
Device == unit = "target" /\ \E t \in Txn : Target!ReadyMethod(t) \/ Target!Complete(t)
Responses == unit = "target" /\ (Target!CompleteMethod \/ Target!EndResp)
Time == unit = "target" /\ Target!Tick

Spec ==
    /\ Init /\ [][Next]_vars
    /\ SF_vars(Lucky /\ UNCHANGED unit)
    /\ WF_vars(Memory /\ UNCHANGED unit) /\ WF_vars(Release /\ UNCHANGED unit)
    /\ WF_vars(Device /\ UNCHANGED unit) /\ WF_vars(Responses /\ UNCHANGED unit)
    /\ WF_vars(Time /\ UNCHANGED unit)
--------------------------------------------------------------------------------
(* No assertion of the adapters fails, and no end of a bus sees the other  *)
(* break its rules: an unexpected response, a length that does not match,  *)
(* a cycle that ends early.                                                *)
NoError ==
    CASE unit = "axi read" -> AxiRead!NoError
      [] unit = "axi write" -> AxiWrite!NoError
      [] unit = "apb" -> Apb!NoError
      [] unit = "csr" -> Csr!NoError
      [] unit = "wishbone" -> Wishbone!NoError
      [] unit = "pipelined wishbone" -> Pipelined!NoError
      [] OTHER -> Target!NoError

(* The queues of the master, the signals and the queues of the slave hold  *)
(* the same transactions in the same order: this is what makes an answer   *)
(* that carries no more than an ID, or nothing, that of the transaction it *)
(* is taken for, and what keeps both ends from complaining.                *)
InOrder ==
    /\ NoError
    /\ CASE unit = "axi read" -> AxiRead!InOrder
         [] unit = "axi write" -> AxiWrite!InOrder
         [] unit = "apb" -> Apb!InOrder
         [] unit = "csr" -> Csr!InOrder
         [] unit = "wishbone" -> Wishbone!InOrder
         [] unit = "pipelined wishbone" -> Pipelined!InOrder
         [] OTHER -> Target!InOrder

(* Every pair of adapters is a bridge.  (The target has no bus: for it the *)
(* bridge stays empty.)                                                    *)
Waiting(i) ==
    CASE unit = "axi read" -> AxiRead!Waiting(i)
      [] unit = "axi write" -> AxiWrite!Waiting(i)
      [] unit = "apb" -> Apb!Waiting(i)
      [] unit = "csr" -> Csr!Waiting(i)
      [] unit = "wishbone" -> Wishbone!Waiting(i)
      [] unit = "pipelined wishbone" -> Pipelined!Waiting(i)
      [] OTHER -> <<>>
Answered(w) ==
    CASE answer[w] = "OK" -> "ok" [] answer[w] \in {"none", "CORRUPT"} -> answer[w]
      [] OTHER -> "failed"
Result(t) ==
    CASE unit = "target" \/ t \notin finished -> "none"
      [] status[t] = "OK" -> "ok"
      [] status[t] = "INCOMPLETE" -> "lost"
      [] status[t] = "CORRUPT" -> "corrupt"
      [] OTHER -> "failed"
Bridge_ == INSTANCE Bridge WITH
    open <- [i \in Id |-> Waiting(i)],
    asked <- {w \in DOMAIN answer : answer[w] # "none"
                                    \/ \E r \in pending : \E k \in DOMAIN r.beats : r.beats[k] = w},
    answer <- [w \in DOMAIN answer |-> Answered(w)],
    result <- [t \in Txn |-> Result(t)]

ImplementsBridge == Bridge_!Spec

(* Every transaction is answered in the end, whatever the random numbers   *)
(* hold up and whenever the memory answers.                                *)
EventuallyAnswered == \A t \in Txn : t \in issued ~> t \in finished
================================================================================
