----------------------------- MODULE MCRegisters -----------------------------
(***************************************************************************)
(* Two programs whose registers are indexed by a hash of the flow, so that *)
(* flows collide: a switch runs HashPipe or flowlet switching.             *)
(*                                                                         *)
(* HashPipe: sources 1 and 2 meet in both tables; 3 meets them in the      *)
(* first table and has a cell of its own in the second; 4 has one in the   *)
(* first.  Flowlets: flows 1 and 2 share an index, flow 3 has its own; the *)
(* next hops take turns.                                                   *)
(***************************************************************************)
EXTENDS HashPipe, Integers

CONSTANTS Flows, Index, Offset, Delay, TIMEOUT, TimeMod, IdMod, MaxTime

VARIABLES program, now, flowlet_id, flowlet_lasttime, arrival

flowlets == <<now, flowlet_id, flowlet_lasttime, arrival>>

Flow == INSTANCE Flowlet

Hash1 == [k \in Sources \cup {0} |-> IF k = 4 THEN 1 ELSE 0]
Hash2 == [k \in Sources \cup {0} |-> IF k \in {0, 3} THEN 1 ELSE 0]

SharedIndex == [f \in Flows |-> IF f = 3 THEN 1 ELSE 0]
Alternate == [fi \in Flows \X (0 .. IdMod) |-> (fi[1] + fi[2]) % 2]
SlowAndFast == [p \in 0 .. 1 |-> IF p = 0 THEN TIMEOUT + 1 ELSE 1]

EitherInit == program \in {"hashpipe", "flowlet"} /\ Init /\ Flow!Init

EitherNext ==
    \/ program = "hashpipe" /\ Next /\ UNCHANGED <<program, flowlets>>
    \/ program = "flowlet" /\ Flow!Next /\ UNCHANGED <<program, vars>>

EitherSpec == EitherInit /\ [][EitherNext]_<<program, vars, flowlets>>

\* The packets of a flow arrive in the order they were sent (lookup_flowlet_map
\* and update_flowlet_id of flowlet.p4).
FlowletInOrder == Flow!InOrder

=============================================================================
