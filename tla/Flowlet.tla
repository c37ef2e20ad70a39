------------------------------- MODULE Flowlet -------------------------------
(***************************************************************************)
(* Flowlet switching (flowlet.p4): a flow that pauses for longer than the  *)
(* timeout may take another path, because packets still under way on the   *)
(* old one arrive before it can be overtaken.  Flows share the 13 indices  *)
(* of the registers, and the clock is cut to 32 bits.                      *)
(***************************************************************************)
EXTENDS Integers

CONSTANTS
    Flows,       \* values of the five fields that are hashed
    Index,       \* Index[f]: crc16 of the flow modulo 13
    Offset,      \* Offset[f, id]: ecmp_offset, the next hop for a flow and a flowlet
    Delay,       \* Delay[p]: how long packets are under way on next hop p
    TIMEOUT,     \* 50000
    TimeMod,     \* 2^32
    IdMod,       \* 2^16
    MaxTime      \* bound on the time a behaviour lasts

VARIABLES
    now,
    flowlet_id,
    flowlet_lasttime,
    arrival      \* arrival[f]: when the last packet f sent arrives

vars == <<now, flowlet_id, flowlet_lasttime, arrival>>

Indices == {Index[f] : f \in Flows}

Init ==
    /\ now = 0
    /\ flowlet_id = [x \in Indices |-> 0]
    /\ flowlet_lasttime = [x \in Indices |-> 0]
    /\ arrival = [f \in Flows |-> 0]

Tick == now < MaxTime /\ now' = now + 1 /\ UNCHANGED <<flowlet_id, flowlet_lasttime, arrival>>

ingress_global_timestamp == now % TimeMod

flow_ipg_Restarted(x) ==
    IF ingress_global_timestamp >= flowlet_lasttime[x]
    THEN ingress_global_timestamp - flowlet_lasttime[x]
    ELSE TimeMod - 1

flow_ipg(x) == (ingress_global_timestamp - flowlet_lasttime[x]) % TimeMod

update_flowlet_id(x) == (flowlet_id[x] + 1) % IdMod

\* The ingress pipeline: lookup_flowlet_map, new_flowlet, ecmp_group, ecmp_nhop.
Packet(f) ==
    LET x == Index[f]
        id == IF flow_ipg(x) > TIMEOUT THEN update_flowlet_id(x) ELSE flowlet_id[x]
    IN  /\ flowlet_lasttime' = [flowlet_lasttime EXCEPT ![x] = ingress_global_timestamp]
        /\ flowlet_id' = [flowlet_id EXCEPT ![x] = id]
        /\ arrival' = [arrival EXCEPT ![f] = now + Delay[Offset[f, id]]]
        /\ UNCHANGED now

Next == Tick \/ \E f \in Flows : Packet(f)

Spec == Init /\ [][Next]_vars

-----------------------------------------------------------------------------

\* The packets of a flow arrive in the order they were sent, if no next hop is
\* slower than another by more than the timeout: the next hop changes only when
\* flow_ipg has exceeded it, also when the clock wraps and when flows share an
\* index and so refresh one another's flowlet_lasttime.
InOrder == [][\A f \in Flows : arrival'[f] >= arrival[f]]_vars

=============================================================================
