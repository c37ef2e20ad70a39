------------------------------- MODULE Channel -------------------------------
(***************************************************************************)
(* What a ring buffer promises the two threads it connects: tuples come    *)
(* out in the order they went in, each of them once, and no more than a    *)
(* fixed number of them is on the way.                                     *)
(***************************************************************************)
EXTENDS Naturals, Sequences

CONSTANTS Tuples, Capacity

VARIABLES
    sent,        \* the tuples written so far
    delivered    \* the tuples read so far

Init == sent = <<>> /\ delivered = <<>>

Put ==
    /\ Len(sent) - Len(delivered) < Capacity
    /\ \E t \in Tuples : sent' = Append(sent, t)
    /\ UNCHANGED delivered

Get ==
    /\ Len(delivered) < Len(sent)
    /\ delivered' = Append(delivered, sent[Len(delivered) + 1])
    /\ UNCHANGED sent

Next == Put \/ Get

Spec == Init /\ [][Next]_<<sent, delivered>>

=============================================================================
