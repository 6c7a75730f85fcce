---------------------------- MODULE AxiRouterChannel ----------------------------
(***************************************************************************)
(* dlsc_axi_router_channel (axi/rtl) with its sources, sinks, lanes and    *)
(* arbiter: the data of several sources on its way to several sinks over a *)
(* few shared lanes.  Each command names a source and a sink, for one      *)
(* burst; every source and every sink queues its commands, so a burst may  *)
(* pass when it is the oldest of both.  A grant connects source, lane and  *)
(* sink until the last beat.  The queues are popped one cycle after the    *)
(* grant, and masks keep the old heads from being used again meanwhile.    *)
(*                                                                         *)
(* A beat is its kind: the last of its burst ("last") or not ("beat").     *)
(***************************************************************************)
EXTENDS Naturals, Sequences, FiniteSets

CONSTANTS SOURCES, SINKS, LANES, MOT, BUFFER, None

Sources == 0..SOURCES-1
Sinks == 0..SINKS-1
Lanes == 0..LANES-1
Beat == {"beat", "last"}
Command == [source : Sources, sink : Sinks]

(* Depth of the data buffers. *)
DEPTH == 2

AxiRouterChannelAssumption ==
    /\ SOURCES \in Nat \ {0} /\ SINKS \in Nat \ {0} /\ SOURCES + SINKS > 2
    /\ LANES \in Nat \ {0} /\ MOT \in Nat \ {0, 1} /\ BUFFER \in BOOLEAN
    /\ None \notin Beat /\ None \notin Lanes /\ None \notin Command

VARIABLES
    source,     \* of each source: cmds, pop (arb_grant_r), buf, lane, grant_mask
    sink,       \* of each sink: the same
    lane,       \* of each lane: the source and sink it connects, or None
    pri,        \* the source the arbiter looks at first
    rst         \* the reset at the last edge

vars == <<source, sink, lane, pri, rst>>

(* The lane of a port is None when it has no grant: the number the code    *)
(* keeps then is not looked at.  Nor is what an idle lane was used for.    *)

(* A port needs no queue when there is only one port opposite. *)
cmd_full_source(s) == SINKS > 1 /\ Len(source[s].cmds) >= MOT - 1
cmd_full_sink(k) == SOURCES > 1 /\ Len(sink[k].cmds) >= MOT - 1

arb_req_sink(s) == IF SINKS > 1 THEN Head(source[s].cmds) ELSE 0
arb_source(k) == IF SOURCES > 1 THEN Head(sink[k].cmds) ELSE 0
SourceEmpty(s) == SINKS > 1 /\ source[s].cmds = <<>>
SinkEmpty(k) == SOURCES > 1 /\ sink[k].cmds = <<>>
--------------------------------------------------------------------------------
(* A cycle: offer[s] is the beat on source s or None, ready the sinks that *)
(* are.  First the wires between the parts.                                *)
InBeat(s, offer) ==
    IF BUFFER THEN IF source[s].buf = <<>> THEN None ELSE Head(source[s].buf)
    ELSE offer[s]
OutReady(k, ready) ==
    IF BUFFER THEN ~rst /\ Len(sink[k].buf) < DEPTH ELSE k \in ready

OutBeat(l, offer) == InBeat(lane[l].source, offer)
InReady(l, ready) == OutReady(lane[l].sink, ready)

(* buf_ready and buf_valid with their data: the beat that leaves a source, *)
(* enters a sink, or passes a lane.                                        *)
SourceBeat(s, offer, ready) ==
    IF source[s].lane # None /\ InReady(source[s].lane, ready) THEN InBeat(s, offer) ELSE None
SinkBeat(k, offer, ready) ==
    IF sink[k].lane # None /\ OutReady(k, ready) THEN OutBeat(sink[k].lane, offer) ELSE None
LaneBeat(l, offer, ready) ==
    IF InReady(l, ready) THEN OutBeat(l, offer) ELSE None

(* Mutant of LaneIdle: the last beat does not free the lane. *)
LaneIdleNever(l, offer, ready) == lane[l] = None

(* Idle, or about to be. *)
LaneIdle(l, offer, ready) == lane[l] = None \/ LaneBeat(l, offer, ready) = "last"
SinkIdle(k, offer, ready) ==
    /\ sink[k].lane = None \/ SinkBeat(k, offer, ready) = "last"
    /\ ~sink[k].grant_mask
    /\ BUFFER => ~rst /\ Len(sink[k].buf) < DEPTH - 1
SourceIdle(s, offer, ready) ==
    /\ source[s].lane = None \/ SourceBeat(s, offer, ready) = "last"
    /\ ~source[s].grant_mask

(* Mutant of Requests: no masks. *)
RequestsUnmasked(offer, ready) ==
    {s \in Sources :
        /\ InBeat(s, offer) # None
        /\ source[s].lane = None \/ SourceBeat(s, offer, ready) = "last"
        /\ ~SourceEmpty(s)
        /\ LET k == arb_req_sink(s) IN
             /\ sink[k].lane = None \/ SinkBeat(k, offer, ready) = "last"
             /\ ~SinkEmpty(k) /\ arb_source(k) = s}

(* arb_req: a beat is there, and the burst is the next of both ports. *)
Requests(offer, ready) ==
    {s \in Sources :
        /\ InBeat(s, offer) # None
        /\ SourceIdle(s, offer, ready) /\ ~SourceEmpty(s)
        /\ LET k == arb_req_sink(s) IN
             SinkIdle(k, offer, ready) /\ ~SinkEmpty(k) /\ arb_source(k) = s}

(* dlsc_arbiter: the first request from pri on, going round. *)
Distance(s) == (s + SOURCES - pri) % SOURCES

(* The grant of the cycle, or None: one source, its sink, the first lane. *)
Grant(offer, ready) ==
    LET requests == Requests(offer, ready)
        lanes == {l \in Lanes : LaneIdle(l, offer, ready)}
    IN  IF requests = {} \/ lanes = {} THEN None
        ELSE LET s == CHOOSE t \in requests : \A u \in requests : Distance(t) <= Distance(u)
             IN  [source |-> s, sink |-> arb_req_sink(s),
                  lane |-> CHOOSE l \in lanes : \A m \in lanes : l <= m]
--------------------------------------------------------------------------------
(* What a port makes of the cycle: it pops the command of its last grant,  *)
(* takes a new one, and follows its grant.                                 *)
Queue(p, push, cmd) ==
    LET rest == IF p.pop THEN Tail(p.cmds) ELSE p.cmds
    IN  IF push THEN Append(rest, cmd) ELSE rest

Connect(p, granted, l, beat, queued) ==
    [p EXCEPT !.pop = granted /\ queued,
              !.lane = IF granted THEN l ELSE IF beat = "last" THEN None ELSE @,
              !.grant_mask = granted]

Store(buf, beat, taken) ==
    LET rest == IF taken THEN Tail(buf) ELSE buf
    IN  IF beat = None THEN rest ELSE Append(rest, beat)

(* wr_ready of the buffer, or buf_ready: the sources whose offer is taken. *)
TakenSources(offer, ready) ==
    {s \in Sources : offer[s] # None /\
        IF BUFFER THEN ~rst /\ Len(source[s].buf) < DEPTH
        ELSE SourceBeat(s, offer, ready) # None}

SourceNext(s, cmd, offer, ready, g) ==
    LET beat == SourceBeat(s, offer, ready)
        p == Connect(source[s], g # None /\ g.source = s, g.lane, beat, SINKS > 1)
    IN  [p EXCEPT
           !.cmds = Queue(source[s], SINKS > 1 /\ cmd # None /\ cmd.source = s, cmd.sink),
           !.buf = IF BUFFER
                   THEN Store(@, IF s \in TakenSources(offer, ready) THEN offer[s] ELSE None,
                              beat # None)
                   ELSE @]

SinkNext(k, cmd, offer, ready, g) ==
    LET beat == SinkBeat(k, offer, ready)
        p == Connect(sink[k], g # None /\ g.sink = k, g.lane, beat, SOURCES > 1)
    IN  [p EXCEPT
           !.cmds = Queue(sink[k], SOURCES > 1 /\ cmd # None /\ cmd.sink = k, cmd.source),
           !.buf = IF BUFFER THEN Store(@, beat, @ # <<>> /\ k \in ready) ELSE @]

LaneNext(l, offer, ready, g) ==
    IF g # None /\ g.lane = l
    THEN [source |-> g.source, sink |-> g.sink]
    ELSE IF LaneIdle(l, offer, ready) THEN None ELSE lane[l]

(* cmd is the command pushed in this cycle, or None. *)
Clk(cmd, offer, ready) ==
    LET g == Grant(offer, ready) IN
    /\ source' = [s \in Sources |-> SourceNext(s, cmd, offer, ready, g)]
    /\ sink' = [k \in Sinks |-> SinkNext(k, cmd, offer, ready, g)]
    /\ lane' = [l \in Lanes |-> LaneNext(l, offer, ready, g)]
    /\ pri' = IF g = None THEN pri ELSE (pri + 1) % SOURCES
    /\ rst' = FALSE

IdlePort == [cmds |-> <<>>, pop |-> FALSE, buf |-> <<>>, lane |-> None, grant_mask |-> FALSE]

Reset ==
    /\ source' = [s \in Sources |-> IdlePort]
    /\ sink' = [k \in Sinks |-> IdlePort]
    /\ lane' = [l \in Lanes |-> None]
    /\ pri' = 0
    /\ rst' = TRUE

Init ==
    /\ source = [s \in Sources |-> IdlePort]
    /\ sink = [k \in Sinks |-> IdlePort]
    /\ lane = [l \in Lanes |-> None]
    /\ pri = 0
    /\ rst = TRUE
--------------------------------------------------------------------------------
(* The commands of a port that have not been granted. *)
Waiting(p) == IF p.pop THEN Tail(p.cmds) ELSE p.cmds
Times(x, seq) == Cardinality({i \in DOMAIN seq : seq[i] = x})

(* The queues never overflow nor run empty under a pop, and the queues of  *)
(* the two sides hold the same commands.                                   *)
QueuesAgree ==
    /\ \A s \in Sources : Len(source[s].cmds) <= MOT /\ (source[s].pop => source[s].cmds # <<>>)
    /\ \A k \in Sinks : Len(sink[k].cmds) <= MOT /\ (sink[k].pop => sink[k].cmds # <<>>)
    /\ SOURCES > 1 /\ SINKS > 1 =>
         \A s \in Sources, k \in Sinks :
             Times(k, Waiting(source[s])) = Times(s, Waiting(sink[k]))

(* Source, lane and sink of a burst agree on it, from grant to last beat.  *)
GrantsAgree ==
    /\ \A s \in Sources : source[s].lane # None =>
         lane[source[s].lane] # None /\ lane[source[s].lane].source = s
    /\ \A k \in Sinks : sink[k].lane # None =>
         lane[sink[k].lane] # None /\ lane[sink[k].lane].sink = k
    /\ \A l \in Lanes : lane[l] # None =>
         source[lane[l].source].lane = l /\ sink[lane[l].sink].lane = l
================================================================================
