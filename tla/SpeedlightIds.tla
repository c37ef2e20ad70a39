---------------------------- MODULE SpeedlightIds ----------------------------
(***************************************************************************)
(* How a Speedlight processing unit compares the snapshot id a packet      *)
(* carries with its own: the subtractions of aCheckRollover and            *)
(* aCheckSnapshotCase(Rollover), the conditional register writes of the    *)
(* primitives added to the switch (primitives.append), and the ternary     *)
(* tables that turn the differences into a case (generate_rules.py).  The  *)
(* ingress and the egress versions are the same functions.                 *)
(*                                                                         *)
(*   id    snapshot_header.snapshot_id of the packet                       *)
(*   reg   reg_snapshot_id of the unit, read into former_id                *)
(*   fls   former_last_seen: the id the same sender's last packet carried  *)
(***************************************************************************)
EXTENDS Integers

\* subtract() on a field declared saturating (headers.p4).
Sat(x, y) == IF x > y THEN x - y ELSE 0

\* snapshot_case: 0 forward, 1 new snapshot, 2 in flight.
Forward  == 0
NewSS    == 1
InFlight == 2

\* snapshot_rollover_check of aCheckRollover: non-zero when the sender's id
\* fell, which a sender whose ids only grow does by wrapping.
rollover_check(fls, id) == Sat(fls, id)

\* The register after the three primitives.
riUpdateSnapshotId(reg, id) == IF id > reg THEN id ELSE reg

riUpdateSnapshotIdNoRollover(reg, fls, id) ==
    IF reg >= fls /\ id > reg THEN id ELSE reg

riUpdateSnapshotIdRollover(reg, fls, id) ==
    IF reg < fls /\ id > reg THEN id
    ELSE IF reg >= fls THEN id ELSE reg

\* The case tables, over the saturating differences
\* switch_rollover_check, switch_greater and packet_greater.
Compared(reg, id) ==
    IF Sat(reg, id) = 0 /\ Sat(id, reg) = 0 THEN Forward
    ELSE IF Sat(reg, id) = 0 THEN NewSS
    ELSE InFlight

SetSnapshotCase(reg, id) == Compared(reg, id)

\* A table that leaves the wrap of the unit's own id out of the comparison.
SetSnapshotCaseRollover_IgnoresWrap(reg, fls, id) == Compared(reg, id)

SetSnapshotCaseNoRollover(reg, fls, id) ==
    IF Sat(fls, reg) = 0 THEN Compared(reg, id) ELSE InFlight

SetSnapshotCaseRollover(reg, fls, id) ==
    IF Sat(fls, reg) = 0 THEN NewSS ELSE Compared(reg, id)

\* What the comment above tiUpdateSnapshotIdRollover asks of the comparison:
\* with all three ids written out in full (U the unit's, P the packet's), the
\* unit moves to the larger one, and the case says which was larger.
Larger(U, P) == IF P > U THEN P ELSE U

TrueCase(U, P) ==
    IF P = U THEN Forward ELSE IF P > U THEN NewSS ELSE InFlight
==============================================================================
