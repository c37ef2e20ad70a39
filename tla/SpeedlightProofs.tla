-------------------------- MODULE SpeedlightProofs --------------------------
(***************************************************************************)
(* The wraparound comparison of Speedlight is the comparison of the full   *)
(* snapshot numbers, for every id width, as long as nothing the unit       *)
(* compares is IdMod or more snapshots apart.                              *)
(***************************************************************************)
EXTENDS SpeedlightIds, TLAPS

\* Division with remainder.
LEMMA Division ==
    ASSUME NEW a \in Nat, NEW m \in Nat \ {0}
    PROVE  \E q \in Nat : \E r \in 0..(m - 1) : a = m * q + r /\ a % m = r
<1>1. /\ a % m \in 0..(m - 1)
      /\ a \div m \in Nat
      /\ a = m * (a \div m) + (a % m)
  BY SMT
<1> QED BY <1>1, Zenon

\* A number written as a multiple of m plus less than m has that rest.
LEMMA Remainder ==
    ASSUME NEW q \in Nat, NEW m \in Nat \ {0}, NEW r \in 0..(m - 1)
    PROVE  (m * q + r) % m = r
BY SMTT(30)

\* A number less than m above b has the remainder of b, moved up by the
\* difference and possibly wrapped once.
LEMMA Shift ==
    ASSUME NEW m \in Nat \ {0}, NEW b \in Nat, NEW a \in Nat, b <= a, a < b + m
    PROVE  /\ b % m \in 0..(m - 1)
           /\ a % m \in 0..(m - 1)
           /\ a % m = (b % m) + (a - b) \/ a % m = (b % m) + (a - b) - m
<1>1. PICK q \in Nat, r \in 0..(m - 1) : b = m * q + r /\ b % m = r
  BY Division, Zenon
<1>2. PICK k \in Nat, s \in 0..(m - 1) : a = m * k + s /\ a % m = s
  BY Division, Zenon
<1>3. CASE r + (a - b) < m
  <2>1. PICK t \in 0..(m - 1) : t = r + (a - b)
    BY <1>3
  <2>2. (m * q + t) % m = t
    BY Remainder
  <2>3. a = m * q + t
    <3>1. m * q \in Int
      OBVIOUS
    <3> QED BY <1>1, <2>1, <3>1
  <2> QED BY <1>1, <1>2, <2>1, <2>2, <2>3
<1>4. CASE r + (a - b) >= m
  <2>1. PICK t \in 0..(m - 1) : t = r + (a - b) - m
    BY <1>4
  <2>2. (m * (q + 1) + t) % m = t
    BY Remainder
  <2>3. a = m * (q + 1) + t
    <3>1. m * q \in Int /\ m * (q + 1) = m * q + m
      OBVIOUS
    <3> QED BY <1>1, <2>1, <3>1
  <2> QED BY <1>1, <1>2, <2>1, <2>2, <2>3
<1> QED BY <1>1, <1>2, <1>3, <1>4

\* The postcondition stated above tiUpdateSnapshotId(No)Rollover, "max(...)
\* includes wrapping/rollover", and the meaning of snapshot_case.  L is the
\* full id of the sender's last packet, U of the unit, P of this packet; the
\* code sees them modulo M.  If U and P are at most M - 1 snapshots past L, the
\* branch that snapshot_rollover_check selects leaves the larger of U and P in
\* the register, and the case is the one the full ids give.
THEOREM WindowedCompare ==
    ASSUME NEW M \in Nat \ {0}, NEW L \in Nat, NEW U \in Nat, NEW P \in Nat,
           L <= U, U < L + M, L <= P, P < L + M
    PROVE  /\ rollover_check(L % M, P % M) = 0 =>
                /\ riUpdateSnapshotIdNoRollover(U % M, L % M, P % M)
                     = Larger(U, P) % M
                /\ SetSnapshotCaseNoRollover(U % M, L % M, P % M)
                     = TrueCase(U, P)
           /\ rollover_check(L % M, P % M) # 0 =>
                /\ riUpdateSnapshotIdRollover(U % M, L % M, P % M)
                     = Larger(U, P) % M
                /\ SetSnapshotCaseRollover(U % M, L % M, P % M)
                     = TrueCase(U, P)
<1>1. PICK l \in 0..(M - 1) : l = L % M
  BY Shift
<1>2. PICK u \in 0..(M - 1) : u = U % M /\ (u = l + (U - L) \/ u = l + (U - L) - M)
  BY <1>1, Shift, ZenonT(60)
<1>3. PICK p \in 0..(M - 1) : p = P % M /\ (p = l + (P - L) \/ p = l + (P - L) - M)
  BY <1>1, Shift, Zenon
<1>4. Larger(U, P) % M = IF P > U THEN p ELSE u
  BY <1>2, <1>3 DEF Larger
<1>5. ASSUME rollover_check(l, p) = 0
      PROVE  /\ riUpdateSnapshotIdNoRollover(u, l, p) = IF P > U THEN p ELSE u
             /\ SetSnapshotCaseNoRollover(u, l, p) = TrueCase(U, P)
  BY <1>2, <1>3, <1>5
  DEF rollover_check, riUpdateSnapshotIdNoRollover, SetSnapshotCaseNoRollover,
      Compared, TrueCase, Sat, Forward, NewSS, InFlight
<1>6. ASSUME rollover_check(l, p) # 0
      PROVE  /\ riUpdateSnapshotIdRollover(u, l, p) = IF P > U THEN p ELSE u
             /\ SetSnapshotCaseRollover(u, l, p) = TrueCase(U, P)
  BY <1>2, <1>3, <1>6
  DEF rollover_check, riUpdateSnapshotIdRollover, SetSnapshotCaseRollover,
      Compared, TrueCase, Sat, Forward, NewSS, InFlight
<1> QED BY <1>1, <1>2, <1>3, <1>4, <1>5, <1>6

\* Without wraparound (Pkt.p4) the plain comparison needs no window.
THEOREM PlainCompare ==
    ASSUME NEW U \in Nat, NEW P \in Nat
    PROVE  /\ riUpdateSnapshotId(U, P) = Larger(U, P)
           /\ SetSnapshotCase(U, P) = TrueCase(U, P)
BY DEF riUpdateSnapshotId, SetSnapshotCase, Compared, Sat, Larger, TrueCase,
       Forward, NewSS, InFlight
=============================================================================
