----------------------------- MODULE MCNetCache -----------------------------
(* Instances of NetCache for TLC.                                          *)
EXTENDS NetCache

\* All keys share the cells of a sketch of two; keys 1 and 2 differ in the
\* filter and between them set every bit of key 3.
SharedHash ==
    [i \in 1..3 |-> [k \in Keys |-> CASE k = 1 -> 0
                                      [] k = 2 -> 2
                                      [] OTHER -> IF i = 1 THEN 0 ELSE 2]]
=============================================================================
