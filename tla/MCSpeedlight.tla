---------------------------- MODULE MCSpeedlight ----------------------------
(* Instances of Speedlight for TLC: a switch with two ports.               *)
EXTENDS Speedlight

TwoPorts == 1..2

(* Port 1 leads to a host, and a packet may be lost; both ports lead to    *)
(* neighbours, and the ids wrap.                                           *)
Channel(prog, n) ==
    [prog |-> prog, hosts |-> {1}, idMod |-> 4, max_snapshots |-> 4,
     windowed |-> FALSE, pkts |-> n, losses |-> 1]
Wrapping(prog) ==
    [prog |-> prog, hosts |-> {}, idMod |-> 2, max_snapshots |-> 2,
     windowed |-> TRUE, pkts |-> 3, losses |-> 0]

MCSetups ==
    {Channel("Pkt", 1), Channel("Pkt_WC", 2), Wrapping("Pkt_W"), Wrapping("Pkt_WC")}
=============================================================================
