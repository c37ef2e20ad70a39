-------------------------------- MODULE Hula --------------------------------
(***************************************************************************)
(* HULA load balancing (hula/hula.p4) in a leaf-spine network: probes      *)
(* collect the deepest queue on the way from one top-of-rack switch to     *)
(* another; the destination returns the ones that improve on its best path *)
(* and they set the next hops on their way back.  A data flow takes the    *)
(* best next hop it finds with its first packet and keeps it.              *)
(*                                                                         *)
(* A port is named by what it is connected to: a switch, the rack's hosts  *)
(* ("host"), or nothing ("none", port 0, what an unwritten register says). *)
(* A probe's source route is the spine it goes through, which is also what *)
(* its digest identifies.  Links are first-in first-out.                   *)
(***************************************************************************)
EXTENDS Naturals, Sequences, FiniteSets

CONSTANTS
    ToRs, Spines,
    Flows, FlowSrc, FlowDst,  \* data flows and the racks they connect
    FlowHash,                 \* their index in flow_port_reg
    Probed,                   \* pairs of racks the generator probes
    InitDepth,                \* 256: srcindex_qdepth_reg in the commands
    MaxDepth,                 \* bound: the deepest queue
    MaxInFlight,              \* bound: probes under way
    MaxData,                  \* bound: packets of a flow
    MaxLoss                   \* bound: probes lost

Switches == ToRs \cup Spines
Links == {l \in (Switches \cup {"host"}) \X Switches :
             l[1] \in ToRs <=> l[2] \in Spines}
Ports == Switches \cup {"host", "none"}
Hashes == {FlowHash[f] : f \in Flows}

ASSUME HulaAssumption ==
    /\ ToRs \cap Spines = {} /\ {"host", "none"} \cap Switches = {}
    /\ Probed \subseteq {r \in ToRs \X ToRs : r[1] # r[2]}
    /\ FlowSrc \in [Flows -> ToRs] /\ FlowDst \in [Flows -> ToRs]
    /\ FlowHash \in [Flows -> Hashes]
    /\ {InitDepth, MaxDepth, MaxInFlight, MaxData, MaxLoss} \subseteq Nat

VARIABLES
    srcindex_qdepth, \* [ToR -> [source ToR -> depth of its best path]]
    srcindex_digest, \* [ToR -> [source ToR -> its best path]]
    dstindex_nhop,   \* [switch -> [destination ToR -> port]]
    flow_port,       \* [switch -> [hash -> port]]
    link,            \* packets on each link
    sent,            \* data packets each flow has sent
    delivered,       \* data packets the hosts got, in order
    losses,
    latest           \* history: [ToR -> [source -> [spine -> last depth]]]

best == <<srcindex_qdepth, srcindex_digest, latest>>
data == <<flow_port, sent, delivered>>
vars == <<best, dstindex_nhop, data, link, losses>>

Init ==
    /\ srcindex_qdepth = [b \in ToRs |-> [a \in ToRs |-> InitDepth]]
    /\ srcindex_digest = [b \in ToRs |-> [a \in ToRs |-> "none"]]
    /\ dstindex_nhop = [x \in Switches |->
                           [b \in ToRs |-> IF x = b THEN "host" ELSE "none"]]
    /\ flow_port = [x \in Switches |-> [h \in Hashes |-> "none"]]
    /\ link = [l \in Links |-> <<>>]
    /\ sent = [f \in Flows |-> 0]
    /\ delivered = <<>>
    /\ losses = 0
    /\ latest = [b \in ToRs |-> [a \in ToRs |-> [s \in Spines |-> InitDepth]]]

IsProbe(p) == p.kind = "hula"

Probes == UNION {{<<l, i>> : i \in {j \in DOMAIN link[l] : IsProbe(link[l][j])}}
                 : l \in Links}

\* Switch x takes the packet that waits on the link from y, and sends p to z.
Take(y, x) == [link EXCEPT ![<<y, x>>] = Tail(@)]
TakeSend(y, x, z, p) == [link EXCEPT ![<<y, x>>] = Tail(@), ![<<x, z>>] = Append(@, p)]

-----------------------------------------------------------------------------
(* The hosts and the links.                                               *)

\* The generator of probes: one for the path from a to b through s.
SendProbe(a, b, s) ==
    /\ Cardinality(Probes) < MaxInFlight
    /\ link' = [link EXCEPT ![<<"host", a>>] =
                   Append(@, [kind |-> "hula", src |-> a, dst |-> b, via |-> s,
                              dir |-> 0, qdepth |-> 0])]
    /\ UNCHANGED <<best, dstindex_nhop, data, losses>>

SendData(f) ==
    /\ sent[f] < MaxData
    /\ sent' = [sent EXCEPT ![f] = @ + 1]
    /\ link' = [link EXCEPT ![<<"host", FlowSrc[f]>>] =
                   Append(@, [kind |-> "data", flow |-> f, n |-> sent'[f]])]
    /\ UNCHANGED <<best, dstindex_nhop, flow_port, delivered, losses>>

Lose(y, x) ==
    /\ losses < MaxLoss
    /\ link[<<y, x>>] # <<>> /\ IsProbe(Head(link[<<y, x>>]))
    /\ losses' = losses + 1
    /\ link' = Take(y, x)
    /\ UNCHANGED <<best, dstindex_nhop, data>>

-----------------------------------------------------------------------------
(* Probes.                                                                *)

\* Forward, before the destination: hula_fwd misses and runs srcRoute_nhop,
\* and the egress keeps the deepest queue.
srcRoute_nhop(p, x) ==
    CASE p.dir = 0 /\ x \in ToRs -> p.via
      [] p.dir = 0 /\ x \in Spines -> p.dst
      [] p.dir = 1 -> p.src

MaxQdepth(p, deq_qdepth) ==
    [p EXCEPT !.qdepth = IF p.qdepth < deq_qdepth THEN deq_qdepth ELSE p.qdepth]

hula_fwd(y, x) ==
    LET p == Head(link[<<y, x>>])
    IN /\ link[<<y, x>>] # <<>> /\ IsProbe(p) /\ p.dir = 0 /\ x # p.dst
       /\ \E deq_qdepth \in 0..MaxDepth :
             link' = TakeSend(y, x, srcRoute_nhop(p, x), MaxQdepth(p, deq_qdepth))
       /\ UNCHANGED <<best, dstindex_nhop, data, losses>>

\* At the destination: a better probe is recorded and returned, one of the
\* best path refreshes its depth, and both this one and the others end here.
Better(old, new) == old > new

\* What identifies a path.
Digest(p) == p.via

\* (A switch that keeps the depth it recorded first.)
Refresh_Never(old, p) == old

Refresh(old, p) == p.qdepth

Returned(b, p) == Better(srcindex_qdepth[b][p.src], p.qdepth)

hula_dst(y, b) ==
    LET p == Head(link[<<y, b>>])
        old == srcindex_qdepth[b][p.src]
    IN /\ link[<<y, b>>] # <<>> /\ IsProbe(p) /\ p.dir = 0 /\ b = p.dst
       /\ IF Better(old, p.qdepth)
          THEN /\ srcindex_qdepth' = [srcindex_qdepth EXCEPT ![b][p.src] = p.qdepth]
               /\ srcindex_digest' = [srcindex_digest EXCEPT ![b][p.src] = Digest(p)]
          ELSE /\ srcindex_qdepth' = [srcindex_qdepth EXCEPT ![b][p.src] =
                     IF srcindex_digest[b][p.src] = Digest(p) THEN Refresh(old, p) ELSE old]
               /\ UNCHANGED srcindex_digest
       /\ link' = IF Returned(b, p) THEN TakeSend(y, b, y, [p EXCEPT !.dir = 1])
                  ELSE Take(y, b)
       /\ latest' = [latest EXCEPT ![b][p.src][p.via] = p.qdepth]
       /\ UNCHANGED <<dstindex_nhop, data, losses>>

\* Backward: every hop points to where the probe came from; the source ends it.
\* (A switch that only passes it on.)
hula_set_nhop_OnlyToRs(x, b, y) ==
    IF x \in Spines THEN dstindex_nhop ELSE [dstindex_nhop EXCEPT ![x][b] = y]

hula_set_nhop(x, b, y) == [dstindex_nhop EXCEPT ![x][b] = y]

hula_bwd(y, x) ==
    LET p == Head(link[<<y, x>>])
    IN /\ link[<<y, x>>] # <<>> /\ IsProbe(p) /\ p.dir = 1
       /\ dstindex_nhop' = hula_set_nhop(x, p.dst, y)
       /\ link' = IF x = p.src THEN Take(y, x)
                  ELSE TakeSend(y, x, srcRoute_nhop(p, x), p)
       /\ UNCHANGED <<best, data, losses>>

-----------------------------------------------------------------------------
(* Data.                                                                  *)

\* The port saved for the flow, or the best one now.
\* (A switch that follows the best path with every packet.)
NextHop_Best(x, f) == dstindex_nhop[x][FlowDst[f]]

NextHop(x, f) ==
    LET port == flow_port[x][FlowHash[f]]
    IN IF port = "none" THEN dstindex_nhop[x][FlowDst[f]] ELSE port

forward(y, x) ==
    LET p == Head(link[<<y, x>>])
        port == NextHop(x, p.flow)
    IN /\ link[<<y, x>>] # <<>> /\ ~IsProbe(p)
       /\ flow_port' = [flow_port EXCEPT ![x][FlowHash[p.flow]] = port]
       /\ delivered' = IF port = "host"
                       THEN Append(delivered, [flow |-> p.flow, n |-> p.n, at |-> x])
                       ELSE delivered
       /\ link' = IF <<x, port>> \in Links THEN TakeSend(y, x, port, p) ELSE Take(y, x)
       /\ UNCHANGED <<best, dstindex_nhop, sent, losses>>

Receive(y, x) == hula_fwd(y, x) \/ hula_dst(y, x) \/ hula_bwd(y, x) \/ forward(y, x)

Next ==
    \/ \E r \in Probed, s \in Spines : SendProbe(r[1], r[2], s)
    \/ \E f \in Flows : SendData(f)
    \/ \E l \in Links : Receive(l[1], l[2]) \/ Lose(l[1], l[2])

Spec == Init /\ [][Next]_vars

-----------------------------------------------------------------------------
(* Properties.                                                            *)

Packet ==
    [kind : {"hula"}, src : ToRs, dst : ToRs, via : Spines, dir : 0..1, qdepth : Nat]
    \cup [kind : {"data"}, flow : Flows, n : Nat]

\* Next hops lead to the destination: a rack that points to a spine finds that
\* spine pointing on to the rack, although probes of several paths return in
\* any order and some are lost.
RoutesReach ==
    \A a, b \in ToRs : a # b /\ dstindex_nhop[a][b] # "none" =>
        /\ dstindex_nhop[a][b] \in Spines
        /\ dstindex_nhop[dstindex_nhop[a][b]][b] = b

\* "saves the queue depth of the best path": the recorded depth is the last one
\* measured on the recorded path, however often others were compared with it.
BestFresh ==
    \A a, b \in ToRs : srcindex_digest[b][a] # "none" =>
        srcindex_qdepth[b][a] = latest[b][a][srcindex_digest[b][a]]

\* "old flows still use old path to avoid oscilation and packet reordering":
\* a flow's packets arrive at its own rack and in the order they were sent.
InOrder ==
    \A i, j \in DOMAIN delivered :
        /\ delivered[i].at = FlowDst[delivered[i].flow]
        /\ i < j /\ delivered[i].flow = delivered[j].flow => delivered[i].n < delivered[j].n

=============================================================================
