------------------------------- MODULE HashPipe -------------------------------
(***************************************************************************)
(* The two tables with which hashpipe_14.p4 counts the packets of the      *)
(* largest flows.  The first always takes the packet's source address and  *)
(* evicts whatever it held; the second keeps the larger of what it holds   *)
(* and what was evicted.  A flow can be in both tables, and the parts of   *)
(* its count are merged only when it is evicted again.                     *)
(*                                                                         *)
(* Forwarding, and drops_register, which counts only while the control     *)
(* plane enables it, share no state with the tables and are left out.      *)
(***************************************************************************)
EXTENDS Naturals, FiniteSetsExt

CONSTANTS
    Sources,     \* values of ipv4.srcAddr; 0 also stands for packets that are not IPv4
    Slots,       \* indices of the registers, 0 .. 31
    my_hash_1,
    my_hash_2,
    MaxPackets   \* bound on the packets of a behaviour, below 2^32

ASSUME SourcesAssumption ==
    /\ Sources \subseteq Nat
    /\ my_hash_1 \in [Sources \cup {0} -> Slots]
    /\ my_hash_2 \in [Sources \cup {0} -> Slots]
    /\ MaxPackets \in Nat

VARIABLES
    stage1,      \* flow_tracker_stage1, packet_counter_stage1, valid_bit_stage1
    stage2,
    sent         \* history: the packets of each source

vars == <<stage1, stage2, sent>>

Cells == [key : Sources \cup {0}, count : Nat, valid : {0, 1}]

Init ==
    /\ stage1 = [i \in Slots |-> [key |-> 0, count |-> 0, valid |-> 0]]
    /\ stage2 = [i \in Slots |-> [key |-> 0, count |-> 0, valid |-> 0]]
    /\ sent = [k \in Sources |-> 0]

Same(cell, key) == cell.valid = 0 \/ cell.key = key

\* What leaves a cell for the next table.
Evicted(cell, key) ==
    IF Same(cell, key) THEN [key |-> 0, count |-> 0]
                       ELSE [key |-> cell.key, count |-> cell.count]

do_stage1(cell, key) ==
    [key |-> key, count |-> IF Same(cell, key) THEN cell.count + 1 ELSE 1, valid |-> 1]

do_stage2_AnyKey(cell, in) ==
    [key |-> IF Same(cell, in.key) THEN in.key ELSE cell.key,
     count |-> cell.count + in.count,
     valid |-> IF cell.valid = 0 /\ in.key = 0 THEN 0 ELSE 1]

do_stage2(cell, in) ==
    [key |-> IF Same(cell, in.key) \/ cell.count < in.count THEN in.key ELSE cell.key,
     count |-> IF Same(cell, in.key) THEN cell.count + in.count
               ELSE IF cell.count < in.count THEN in.count ELSE cell.count,
     valid |-> IF cell.valid = 0 /\ in.key = 0 THEN 0 ELSE 1]

Packet(key) ==
    LET i == my_hash_1[key]
        carried == Evicted(stage1[i], key)
        j == my_hash_2[carried.key]
    IN  /\ MapThenSumSet(LAMBDA k : sent[k], Sources) < MaxPackets
        /\ stage1' = [stage1 EXCEPT ![i] = do_stage1(@, key)]
        /\ stage2' = [stage2 EXCEPT ![j] = do_stage2(@, carried)]
        /\ sent' = [sent EXCEPT ![key] = @ + 1]

Next == \E key \in Sources : Packet(key)

Spec == Init /\ [][Next]_vars

-----------------------------------------------------------------------------

\* Every cell of the registers holds a source, its count and a valid bit.
TypeOK ==
    /\ stage1 \in [Slots -> Cells]
    /\ stage2 \in [Slots -> Cells]
    /\ sent \in [Sources -> Nat]

In(cell, key) == IF cell.valid = 1 /\ cell.key = key THEN cell.count ELSE 0

\* The packets of a source that the two tables account for.
Counted(key) == In(stage1[my_hash_1[key]], key) + In(stage2[my_hash_2[key]], key)

\* No source is credited with more packets than it sent, wherever the parts of
\* its count have been evicted to, merged or replaced.
NoOvercount == \A key \in Sources : Counted(key) <= sent[key]

=============================================================================
