----------------------------- MODULE MCNetChain -----------------------------
(* NetChain on the topology and the tables of controller/config.           *)
EXTENDS NetChain, TLC

CONSTANTS s1, s2, s3, s4

MCChain == <<s1, s2, s3>>

Setup(n, fail, w, r, l) ==
    [vgroup |-> [k \in 1..n |-> k], mayFail |-> fail, seqMod |-> 65536,
     writes |-> w, reads |-> r, losses |-> l]

(* Two keys in a virtual group each, with a packet lost or with a read;    *)
(* one key with both; and one key whose writes outrun the sequence         *)
(* numbers, with a replica that may crash.                                 *)
MCSetups ==
    {Setup(2, {1, 2, 3}, 2, 0, 1), Setup(2, {1, 3}, 2, 1, 0), Setup(1, {1, 2, 3}, 2, 1, 1),
     [Setup(1, {2}, 3, 0, 0) EXCEPT !.seqMod = 3]}

(* An ipv4_route table: addresses it does not list have no route.          *)
Table(entries) ==
    [a \in Addresses |-> IF a \in DOMAIN entries THEN entries[a] ELSE END]

(* commands_1.txt, commands_2.txt, commands_3.txt and commands.txt, with   *)
(* the links of topo.txt: s4 reaches itself through s2.                    *)
MCRoute ==
    s1 :> Table(Client :> s4 @@ s2 :> s2 @@ s3 :> s4 @@ s4 :> s4) @@
    s2 :> Table(Client :> s4 @@ s1 :> s1 @@ s3 :> s3 @@ s4 :> s4) @@
    s3 :> Table(Client :> s4 @@ s1 :> s4 @@ s2 :> s2 @@ s4 :> s4) @@
    s4 :> Table(Client :> Client @@ s1 :> s1 @@ s2 :> s2 @@ s3 :> s3 @@ s4 :> s2)

MCPopAgainAt == {s3}
=============================================================================
