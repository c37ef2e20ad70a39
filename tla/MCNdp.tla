------------------------------- MODULE MCNdp -------------------------------
(* Two senders to one receiver, and one alone that loses packets. *)
EXTENDS Ndp

Pair == [resend |-> FALSE, size |-> [f \in Flows |-> IF f = 1 THEN 2 ELSE 1]]
Alone == [resend |-> TRUE, size |-> [f \in Flows |-> IF f = 1 THEN 2 ELSE 0]]

PairOrAlone == {Pair, Alone}

MCFaults == [resends \in BOOLEAN |-> IF resends THEN 2 ELSE 3]
=============================================================================
