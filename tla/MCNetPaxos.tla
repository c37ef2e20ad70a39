----------------------------- MODULE MCNetPaxos -----------------------------
(* Three acceptors, any two of which are a quorum.                         *)
EXTENDS NetPaxos

CONSTANTS a1, a2, a3

MCQuorums == {{a1, a2}, {a1, a3}, {a2, a3}}
=============================================================================
