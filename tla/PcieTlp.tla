--------------------------------- MODULE PcieTlp ---------------------------------
(***************************************************************************)
(* pcie_tlp (pcie/sim): a transaction-layer packet of PCI Express.  A      *)
(* caller builds it by a sequence of calls, in any order; serialize turns  *)
(* it into words and deserialize words into a packet.                      *)
(*                                                                         *)
(* A word, an address and a payload word are the sets of their bits that   *)
(* are one; the fields of the header are numbers, a flag 0 or 1.           *)
(***************************************************************************)
EXTENDS Integers, Sequences, SequencesExt, FiniteSetsExt, Folds, TLC

CONSTANTS
    Types,          (* values of set_type a packet is built with *)
    Plain,          (* values for the fields that are just assigned *)
    Lengths, Enables, Addresses, Payloads, Digests,     (* of the calls *)
    MaxCalls        (* bound on the calls that build a packet *)

VARIABLES
    tlp,
    calls           (* made since set_type *)

vars == <<tlp, calls>>

FMT_DATA == 2       \* FMT_3DW, FMT_4DW: 0, 1; with data: 2, 3
TYPE_MSG_BY_ADDR == 17
TYPE_MSG_BY_ID == 18
TYPE_CPL == 10
Class(type) ==
    CASE type \in {0, 1} -> "mem" [] type = 2 -> "io" [] type \in {4, 5} -> "cfg"
      [] type \in 16..21 -> "msg" [] type \in {10, 11} -> "cpl" [] OTHER -> "reserved"

PcieTlpAssumption ==
    /\ \A type \in Types : Class(type) # "reserved"
    /\ Lengths \subseteq 1..1024 /\ MaxCalls \in Nat
    /\ \A a \in Addresses : a \subseteq 2..63
    /\ \A d \in Payloads : Len(d) \in 1..1024
--------------------------------------------------------------------------------
(* clear; until set_type, no class is set and type says TYPE_MEM *)
Cleared ==
    [malformed |-> FALSE, fmt |-> 0, type |-> 0, tc |-> 0, td |-> 0, ep |-> 0,
     attr_ro |-> 0, attr_ns |-> 0, length |-> 1, src_id |-> 0, src_tag |-> 0,
     cpl_status |-> 0, cpl_bcm |-> 0, cpl_bytes |-> 1, be_last |-> 0, be_first |-> 0,
     msg_code |-> 0, dest_addr |-> {}, dest_id |-> 0, cpl_tag |-> 0, cpl_addr |-> 0,
     cfg_reg |-> 0, data |-> <<>>, digest |-> {}, fmt_size |-> 0, fmt_4dw |-> FALSE,
     fmt_data |-> FALSE, class |-> "none", non_posted |-> FALSE, digest_size |-> 0]

(* Mutant of WithFormat: non_posted is left to set_type. *)
WithFormatOnly(t, fmt) ==
    [t EXCEPT !.fmt = fmt, !.fmt_4dw = fmt % 2 = 1, !.fmt_data = fmt >= FMT_DATA,
              !.fmt_size = IF fmt % 2 = 1 THEN 4 ELSE 3]

(* set_format *)
WithFormat(t, fmt) ==
    [t EXCEPT !.fmt = fmt, !.fmt_4dw = fmt % 2 = 1, !.fmt_data = fmt >= FMT_DATA,
              !.fmt_size = IF fmt % 2 = 1 THEN 4 ELSE 3,
              !.non_posted = IF t.class = "mem" THEN fmt < FMT_DATA ELSE @]

(* set_type *)
WithType(t, type) ==
    [t EXCEPT !.type = type, !.class = Class(type),
              !.non_posted = CASE Class(type) = "mem" -> ~t.fmt_data
                               [] Class(type) \in {"io", "cfg", "msg"} -> TRUE
                               [] OTHER -> FALSE]

(* set_length *)
WithLength(t, n) == [t EXCEPT !.length = n, !.be_last = IF n = 1 THEN 0 ELSE @]

(* set_address, set_data: the format follows *)
WithAddress(t, a) ==
    [WithFormat(t, (IF t.fmt_data THEN FMT_DATA ELSE 0)
                   + (IF a \cap 32..63 # {} THEN 1 ELSE 0)) EXCEPT !.dest_addr = a]
WithData(t, d) ==
    [WithFormat(WithLength(t, Len(d)), FMT_DATA + (IF t.fmt_4dw THEN 1 ELSE 0)) EXCEPT !.data = d]
WithDigest(t, d) == [t EXCEPT !.td = 1, !.digest = d, !.digest_size = 1]
WithEnables(t, be) == [t EXCEPT !.be_first = be[1], !.be_last = be[2]]

(* set_completion *)
WithCompletion(t, status, bcm, bytes, tag, addr) ==
    LET c == [t EXCEPT !.cpl_status = status, !.cpl_bcm = bcm, !.cpl_bytes = bytes,
                       !.cpl_tag = tag, !.cpl_addr = addr]
    IN  IF t.class # "cpl" THEN WithType(c, TYPE_CPL) ELSE c
--------------------------------------------------------------------------------
(* Bits hi..lo of a word. *)
Ones(n, hi, lo) == {lo + k : k \in {i \in 0..(hi - lo) : (n \div 2^i) % 2 = 1}}
Range_(word, hi, lo) == MapThenSumSet(LAMBDA b : 2^(b - lo), word \cap lo..hi)
Swapped(word) == {(8 * (3 - (b \div 8))) + (b % 8) : b \in word}

Requests == {"mem", "io", "cfg"}
Routed(t) == t.class \in {"mem", "io"} \/ t.type = TYPE_MSG_BY_ADDR
Only(condition, fields) == IF condition THEN fields ELSE <<>>

(* serialize: where each field goes, its word, from 1, and bits. *)
WrittenAt(t) ==
    [fmt |-> <<1, 30, 29>>, type |-> <<1, 28, 24>>, tc |-> <<1, 22, 20>>, td |-> <<1, 15, 15>>,
     ep |-> <<1, 14, 14>>, attr_ro |-> <<1, 13, 13>>, attr_ns |-> <<1, 12, 12>>,
     length |-> <<1, 9, 0>>, src_id |-> <<2, 31, 16>>]
    @@ Only(t.class \in Requests \cup {"msg"}, [src_tag |-> <<2, 15, 8>>])
    @@ Only(t.class = "cpl",
            [cpl_status |-> <<2, 15, 13>>, cpl_bcm |-> <<2, 12, 12>>, cpl_bytes |-> <<2, 11, 0>>,
             cpl_tag |-> <<3, 15, 8>>, cpl_addr |-> <<3, 6, 0>>])
    @@ Only(t.class \in Requests, [be_last |-> <<2, 7, 4>>, be_first |-> <<2, 3, 0>>])
    @@ Only(t.class = "msg", [msg_code |-> <<2, 7, 0>>])
    @@ Only(t.class \in {"cfg", "cpl"} \/ t.type = TYPE_MSG_BY_ID, [dest_id |-> <<3, 31, 16>>])
    @@ Only(t.class = "cfg", [cfg_reg |-> <<3, 11, 2>>])

(* The largest value of a count is written as zero. *)
Written(t, f) ==
    IF (f = "length" /\ t.length = 1024) \/ (f = "cpl_bytes" /\ t.cpl_bytes = 4096)
    THEN 0 ELSE t[f]

Serialize(t) ==
    LET at == WrittenAt(t)
        word(i) == UNION {Ones(Written(t, f), at[f][2], at[f][3]) :
                            f \in {g \in DOMAIN at : at[g][1] = i}}
        route == IF Routed(t)
                 THEN (IF t.fmt_4dw THEN <<{b - 32 : b \in t.dest_addr \cap 32..63}>> ELSE <<>>)
                      \o <<t.dest_addr \cap 2..31>>
                 ELSE <<word(3)>> \o (IF t.fmt_4dw THEN <<{}>> ELSE <<>>)
        header == <<word(1), word(2)>> \o route
        all == IF t.fmt_data THEN header \o t.data ELSE header
    IN  [i \in DOMAIN all |-> IF t.fmt_data /\ i > t.fmt_size THEN Swapped(all[i]) ELSE all[i]]
        \o (IF t.td = 1 THEN <<t.digest>> ELSE <<>>)
--------------------------------------------------------------------------------
(* deserialize: where each field is taken from. *)
ReadAt(t) ==
    [tc |-> <<1, 22, 20>>, td |-> <<1, 15, 15>>, ep |-> <<1, 14, 14>>, attr_ro |-> <<1, 13, 13>>,
     attr_ns |-> <<1, 12, 12>>, length |-> <<1, 9, 0>>, src_id |-> <<2, 31, 16>>]
    @@ Only(t.class \in Requests \cup {"msg"}, [src_tag |-> <<2, 15, 8>>])
    @@ Only(t.class = "cpl",
            [cpl_status |-> <<2, 15, 13>>, cpl_bcm |-> <<2, 12, 12>>, cpl_bytes |-> <<2, 11, 0>>])
    @@ Only(t.class \in Requests, [be_last |-> <<2, 7, 4>>, be_first |-> <<2, 3, 0>>])
    @@ Only(t.class = "msg", [msg_code |-> <<2, 7, 0>>])
    @@ Only(t.class \in {"cfg", "cpl"} \/ t.type = TYPE_MSG_BY_ID, [dest_id |-> <<3, 31, 16>>])
    @@ Only(t.class = "cpl", [cpl_tag |-> <<3, 15, 8>>, cpl_addr |-> <<3, 6, 0>>])
    @@ Only(t.class = "cfg", [cfg_reg |-> <<3, 11, 2>>])

ReadField(dw, at, f) ==
    LET n == Range_(dw[at[1]], at[2], at[3])
    IN  IF f = "length" /\ n = 0 THEN 1024 ELSE IF f = "cpl_bytes" /\ n = 0 THEN 4096 ELSE n

ReadAddress(t, dw) ==
    IF ~Routed(t) THEN {}
    ELSE IF t.fmt_4dw THEN {b + 32 : b \in dw[3]} \cup (dw[4] \cap 2..31)
    ELSE dw[3] \cap 2..31

(* Mutant of Header: the digest is taken for payload. *)
HeaderNoDigest(t, dw) ==
    LET at == ReadAt(t)
        fields == [f \in DOMAIN at |-> ReadField(dw, at[f], f)]
    IN  [dest_addr |-> ReadAddress(t, dw)] @@ fields @@ t

(* The header, when it is long enough and its type is known. *)
Header(t, dw) ==
    LET at == ReadAt(t)
        fields == [f \in DOMAIN at |-> ReadField(dw, at[f], f)]
    IN  [dest_addr |-> ReadAddress(t, dw), digest_size |-> fields.td] @@ fields @@ t

Payload(t, dw) == SubSeq(dw, t.fmt_size + 1, Len(dw) - t.digest_size)

Deserialize(dw) ==
    LET format == WithFormat(Cleared, Range_(dw[1], 30, 29))
        typed == WithType(format, Range_(dw[1], 28, 24))
        t == Header(typed, dw)
        size == Len(dw) - t.fmt_size - t.digest_size
    IN  IF Len(dw) < format.fmt_size
        THEN [ok |-> FALSE, tlp |-> [format EXCEPT !.malformed = TRUE]]
        ELSE IF typed.class = "reserved"
        THEN [ok |-> FALSE, tlp |-> [typed EXCEPT !.malformed = TRUE]]
        ELSE IF size # (IF t.fmt_data THEN t.length ELSE 0) THEN [ok |-> FALSE, tlp |-> t]
        ELSE [ok |-> TRUE,
              tlp |-> [t EXCEPT
                 !.data = IF t.fmt_data THEN [i \in 1..size |-> Swapped(Payload(t, dw)[i])] ELSE <<>>,
                 !.digest = IF t.td = 1 THEN dw[Len(dw)] ELSE {}]]

(* validate: the assertions hold.  (A length counts words, the offset in   *)
(* a page counts bytes.)                                                   *)
Validate(t) ==
    /\ ~t.malformed
    /\ t.class \in {"mem", "io"} =>
         /\ Range_(t.dest_addr, 11, 0) + t.length <= 4096
         /\ t.fmt_4dw => t.dest_addr \cap 32..63 # {}
    /\ t.class \in Requests =>
         IF t.length = 1 THEN t.be_last = 0 ELSE t.be_first # 0 /\ t.be_last # 0
    /\ t.class \in {"io", "cfg"} =>
         t.fmt % 2 = 0 /\ t.tc = 0 /\ t.attr_ro = 0 /\ t.attr_ns = 0 /\ t.length = 1
    /\ t.class = "msg" => t.attr_ro = 0 /\ t.attr_ns = 0
    /\ t.class = "cpl" => t.fmt % 2 = 0

(* operator== *)
Compared(t) ==
    {"fmt", "type", "tc", "td", "ep", "attr_ro", "attr_ns", "length", "src_id"}
    \cup (IF t.class \in Requests \cup {"msg"} THEN {"src_tag"} ELSE {})
    \cup (IF t.class = "cpl" THEN {"cpl_status", "cpl_bcm", "cpl_bytes", "cpl_tag", "cpl_addr"} ELSE {})
    \cup (IF t.class \in Requests THEN {"be_last", "be_first"} ELSE {})
    \cup (IF t.class = "msg" THEN {"msg_code"} ELSE {})
    \cup (IF t.class \in {"mem", "io"} THEN {"dest_addr"} ELSE {})
    \cup (IF t.class \in {"cfg", "cpl"} THEN {"dest_id"} ELSE {})
    \cup (IF t.class = "cfg" THEN {"cfg_reg"} ELSE {})
    \cup (IF t.fmt_data THEN {"data"} ELSE {}) \cup (IF t.td = 1 THEN {"digest"} ELSE {})
Equal(t, u) == \A f \in Compared(t) : t[f] = u[f]
--------------------------------------------------------------------------------
Init == calls = 0 /\ \E type \in Types : tlp = WithType(Cleared, type)

Call(t) == calls < MaxCalls /\ calls' = calls + 1 /\ tlp' = t

(* The calls that only assign (set_traffic_class, set_source, set_tag, ... *)
(* and the assignments to fields without one).                             *)
Assign == \E f \in DOMAIN Plain : \E v \in Plain[f] : Call([tlp EXCEPT ![f] = v])
SetFormat == \E fmt \in 0..3 : Call(WithFormat(tlp, fmt))
SetType == \E type \in Types : Call(WithType(tlp, type))
SetLength == \E n \in Lengths : Call(WithLength(tlp, n))
SetEnables == \E be \in Enables : Call(WithEnables(tlp, be))
SetAddress == \E a \in Addresses : Call(WithAddress(tlp, a))
SetData == \E d \in Payloads : Call(WithData(tlp, d))
SetDigest == \E d \in Digests : Call(WithDigest(tlp, d))
SetCompletion == Call(WithCompletion(tlp, 4, 1, 4096, 129, 65))

Next ==
    \/ Assign \/ SetFormat \/ SetType \/ SetLength \/ SetEnables
    \/ SetAddress \/ SetData \/ SetDigest \/ SetCompletion

Spec == Init /\ [][Next]_vars
--------------------------------------------------------------------------------
(* What a caller must see to: the length is that of the payload, and an    *)
(* address above 4 GB has a format to go with it.                          *)
Complete(t) ==
    /\ t.fmt_data => Len(t.data) = t.length
    /\ Routed(t) /\ t.dest_addr \cap 32..63 # {} => t.fmt_4dw

(* What is decoded from the format and the type, from scratch. *)
Decoded(t) ==
    LET u == WithType(WithFormat(Cleared, t.fmt), t.type)
    IN  [f \in {"fmt_4dw", "fmt_data", "class", "non_posted"} |-> u[f]]

(* Whatever calls built it, in whatever order, a complete packet comes out *)
(* of deserialize as it went into serialize: each field its class has, its *)
(* address, payload and digest, what is decoded from the format and the    *)
(* type, and the verdict of validate.  One whose length is not that of its *)
(* payload is rejected.                                                    *)
RoundTrip ==
    LET received == Deserialize(Serialize(tlp))
        same == DOMAIN WrittenAt(tlp)
                \cup (IF Routed(tlp) THEN {"dest_addr"} ELSE {})
                \cup (IF tlp.fmt_data THEN {"data"} ELSE {})
                \cup (IF tlp.td = 1 THEN {"digest"} ELSE {})
    IN  /\ \A f \in DOMAIN Decoded(tlp) : tlp[f] = Decoded(tlp)[f]
        /\ Complete(tlp) =>
             /\ received.ok
             /\ \A f \in same \cup DOMAIN Decoded(tlp) : received.tlp[f] = tlp[f]
             /\ Equal(tlp, received.tlp) /\ Equal(received.tlp, tlp)
             /\ Validate(received.tlp) = Validate(tlp)
        /\ tlp.fmt_data /\ Len(tlp.data) # tlp.length => ~received.ok

(* Bits that mean nothing: those deserialize warns of, and those it does   *)
(* not look at.                                                            *)
Reserved(t, i) ==
    CASE i = 1 -> {31, 23, 19, 18, 17, 16, 11, 10}
      [] i = 2 -> {}
      [] i > t.fmt_size -> {}
      [] OTHER -> IF Routed(t) THEN (IF i = t.fmt_size THEN {0, 1} ELSE {})
                  ELSE IF i = 4 THEN 0..31
                  ELSE CASE t.class = "cpl" -> {7}
                         [] t.class = "cfg" -> {15, 14, 13, 12, 1, 0}
                         [] t.type = TYPE_MSG_BY_ID -> 0..15
                         [] OTHER -> 0..31

(* One bit of one word changed, a word lost or a word too many. *)
Flips == {0, 7, 9, 10, 12, 15, 16, 23, 24, 28, 29, 30, 31}
Changed(word, b) == IF b \in word THEN word \ {b} ELSE word \cup {b}
Damaged(dw) ==
    {[dw EXCEPT ![i] = Changed(@, b)] : i \in DOMAIN dw, b \in Flips}
    \cup {Front(dw), Append(dw, {0})}

(* Words that are not a packet are rejected: whatever deserialize accepts  *)
(* is, but for the bits that mean nothing, what serialize makes of it; and *)
(* it calls malformed what has too short a header or a reserved type.      *)
NothingInvented ==
    \A dw \in Damaged(Serialize(tlp)) :
        LET r == Deserialize(dw)
        IN  /\ r.ok => Serialize(r.tlp) = [i \in DOMAIN dw |-> dw[i] \ Reserved(r.tlp, i)]
            /\ r.tlp.malformed =>
                 ~r.ok /\ (Len(dw) < r.tlp.fmt_size \/ Class(r.tlp.type) = "reserved")
================================================================================
