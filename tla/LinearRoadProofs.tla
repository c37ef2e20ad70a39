--------------------------- MODULE LinearRoadProofs ---------------------------
(***************************************************************************)
(* The counters of the Linear Road switch agree with the registers of the  *)
(* cars for every set of cars, road and width of the counters.  Both       *)
(* proofs follow one car's report: the set of cars a counter stands for    *)
(* gains or loses at most that car, and the counter is bumped accordingly. *)
(***************************************************************************)
EXTENDS LinearRoad, FiniteSetTheorems, TLAPS

\* A number between 0 and M that differs from n by a multiple of M is the
\* residue of n.
LEMMA ModUnique ==
    ASSUME NEW M \in Nat \ {0}, NEW k \in Int, NEW s \in 0 .. M - 1
    PROVE  (M * k + s) % M = s
PROOF
<1>0. PICK n \in Int : n = M * k + s
  BY SMT
<1>1. PICK q \in Int : q = n \div M
  BY SMT
<1>2. PICK r \in 0 .. M - 1 : r = n % M
  BY SMT
<1>3. n = M * q + r
  BY <1>1, <1>2, SMT
<1>4. M * (q - k) = s - r
  BY <1>0, <1>3, SMT
<1>5. ~(q - k >= 1)
  <2> SUFFICES ASSUME q - k >= 1 PROVE FALSE
    OBVIOUS
  <2>1. M * (q - k) >= M
    BY SMT
  <2> QED BY <2>1, <1>4, SMT
<1>6. ~(q - k <= -1)
  <2> SUFFICES ASSUME q - k <= -1 PROVE FALSE
    OBVIOUS
  <2>1. M * (q - k) <= -M
    BY SMT
  <2> QED BY <2>1, <1>4, SMT
<1>7. q = k
  BY <1>5, <1>6, SMT
<1> QED BY <1>0, <1>7, <1>4, <1>2, SMT

\* A count kept modulo M may be incremented or decremented without losing the
\* residue.
LEMMA ModBump ==
    ASSUME NEW M \in Nat \ {0}, NEW n \in Int, NEW d \in Int
    PROVE  ((n % M) + d) % M = (n + d) % M
PROOF
<1>1. PICK q \in Int : q = n \div M
  BY SMT
<1>2. PICK r \in 0 .. M - 1 : r = n % M
  BY SMT
<1>3. n = M * q + r
  BY <1>1, <1>2, SMT
<1>4. PICK p \in Int : p = (r + d) \div M
  BY SMT
<1>5. PICK s \in 0 .. M - 1 : s = (r + d) % M
  BY SMT
<1>6. r + d = M * p + s
  BY <1>4, <1>5, SMT
<1>7. n + d = M * (q + p) + s
  BY <1>3, <1>6, SMT
<1>8. (n + d) % M = s
  <2>1. PICK k \in Int : k = q + p
    BY SMT
  <2>2. PICK m \in Int : m = n + d
    BY SMT
  <2>3. m = M * k + s
    BY <1>7, <2>1, <2>2
  <2>4. (M * k + s) % M = s
    BY ModUnique, Zenon
  <2> QED BY <2>2, <2>3, <2>4
<1> QED BY <1>8, <1>5, <1>2

\* What a set of cars gains or loses with one car v.
LEMMA OneCar ==
    ASSUME NEW S, IsFiniteSet(S), NEW v
    PROVE  /\ Cardinality(S) \in Nat
           /\ v \notin S => Cardinality(S \cup {v}) = Cardinality(S) + 1
           /\ v \in S => Cardinality(S \ {v}) = Cardinality(S) - 1
PROOF
BY FS_CardinalityType, FS_AddElement, FS_RemoveElement, Zenon

\* A count that is bumped when its set of cars gains or loses a car still is
\* the size of the set modulo the width.
LEMMA BumpCounts ==
    ASSUME NEW S, IsFiniteSet(S), NEW v
    PROVE  /\ v \notin S => ((Cardinality(S) % CntMod) + 1) % CntMod =
                              Cardinality(S \cup {v}) % CntMod
           /\ v \in S => ((Cardinality(S) % CntMod) + -1) % CntMod =
                            Cardinality(S \ {v}) % CntMod
PROOF
<1>1. CntMod \in Nat \ {0}
  BY RoadAssumption
<1>2. PICK n \in Int : n = Cardinality(S)
  <2>1. Cardinality(S) \in Nat
    BY OneCar, Zenon
  <2> QED BY <2>1
<1>3. ((n % CntMod) + 1) % CntMod = (n + 1) % CntMod
  <2>1. 1 \in Int
    BY SMT
  <2> QED BY <1>1, <2>1, ModBump, Zenon
<1>4. ((n % CntMod) + -1) % CntMod = (n + -1) % CntMod
  <2>1. -1 \in Int
    BY SMT
  <2> QED BY <1>1, <2>1, ModBump, Zenon
<1>5. n - 1 = n + -1
  BY SMT
<1>6. ASSUME v \notin S
      PROVE  ((n % CntMod) + 1) % CntMod = Cardinality(S \cup {v}) % CntMod
  BY <1>2, <1>3, <1>6, OneCar, Zenon
<1>7. ASSUME v \in S
      PROVE  ((n % CntMod) + -1) % CntMod = Cardinality(S \ {v}) % CntMod
  BY <1>2, <1>4, <1>5, <1>7, OneCar, Zenon
<1> QED BY <1>2, <1>6, <1>7

\* An increment and a decrement of one count cancel.
LEMMA TwoBumps ==
    ASSUME NEW n \in Int
    PROVE  ((((n % CntMod) + 1) % CntMod) + -1) % CntMod = n % CntMod
PROOF
<1>1. CntMod \in Nat \ {0} /\ 1 \in Int /\ -1 \in Int
  BY RoadAssumption, SMT
<1>2. ((n % CntMod) + 1) % CntMod = (n + 1) % CntMod
  BY <1>1, ModBump, Zenon
<1>3. PICK m \in Int : m = n + 1
  BY SMT
<1>4. ((m % CntMod) + -1) % CntMod = (m + -1) % CntMod
  BY <1>1, ModBump, Zenon
<1>5. m + -1 = n
  BY <1>3, SMT
<1> QED BY <1>2, <1>3, <1>4, <1>5, Zenon

-----------------------------------------------------------------------------

\* The inductive invariant: the registers are typed and the counts are exact.
CountsTyped ==
    /\ v_valid_reg \in [Vids -> BOOLEAN]
    /\ DOMAIN v_loc = Vids
    /\ v_nomove_cnt_reg \in [Vids -> 0 .. 3]
    /\ DOMAIN stopped_cnt_reg = Cells
    /\ DOMAIN seg_vol_reg = Dirsegs

\* The saturating counter stays in its range and sticks at 3.
LEMMA Saturates ==
    ASSUME NEW p \in 0 .. 3
    PROVE  /\ SaturatingInc(p) \in 0 .. 3
           /\ p = 3 => SaturatingInc(p) = 3
PROOF
<1>1. p = 0 \/ p = 1 \/ p = 2 \/ p = 3
  BY SMT
<1>2. CASE p = 0
  BY <1>2, SMT DEF SaturatingInc
<1>3. CASE p = 1
  BY <1>3, SMT DEF SaturatingInc
<1>4. CASE p = 2
  BY <1>4, SMT DEF SaturatingInc
<1>5. CASE p = 3
  BY <1>5, SMT DEF SaturatingInc
<1> QED BY <1>1, <1>2, <1>3, <1>4, <1>5

\* The registers keep their types.
LEMMA TypesKept ==
    CountsTyped /\ [Next]_vars => CountsTyped'
PROOF
<1> SUFFICES ASSUME CountsTyped, [Next]_vars PROVE CountsTyped'
  OBVIOUS
<1>1. ASSUME NEW v \in Vids, NEW l \in Locs, NEW spd \in Speeds,
             PosReport(v, l, spd)
      PROVE  CountsTyped'
  <2>1. nomove_cnt(v, l) \in 0 .. 3
    <3>1. v_nomove_cnt_reg[v] \in 0 .. 3
      BY DEF CountsTyped
    <3> QED BY <3>1, Saturates DEF nomove_cnt
  <2>2. (v_valid_reg \in [Vids -> BOOLEAN])' /\ (DOMAIN v_loc = Vids)'
    BY <1>1 DEF PosReport, CountsTyped
  <2>3. (v_nomove_cnt_reg \in [Vids -> 0 .. 3])'
    BY <1>1, <2>1 DEF PosReport, CountsTyped
  <2>4. (DOMAIN stopped_cnt_reg = Cells)'
    BY <1>1 DEF PosReport, CountsTyped, update_stopped, Bump
  <2>5. (DOMAIN seg_vol_reg = Dirsegs)'
    BY <1>1 DEF PosReport, CountsTyped, update_vol_state, Bump
  <2> QED BY <2>2, <2>3, <2>4, <2>5 DEF CountsTyped
<1>2. CASE ClearToll
  BY <1>2 DEF ClearToll, regs, CountsTyped
<1>3. ASSUME NEW s \in Settings, AddToll(s) PROVE CountsTyped'
  BY <1>3 DEF AddToll, regs, CountsTyped
<1>4. CASE UNCHANGED vars
  BY <1>4 DEF vars, regs, CountsTyped
<1> QED BY <1>1, <1>2, <1>3, <1>4 DEF Next

\* A report keeps the counts of stopped cars exact.  A car that was stopped and
\* is no longer leaves the set of the cell it was in; one that has just stopped
\* joins the set of the cell it is in; any other report leaves every set alone.
LEMMA StoppedKept ==
    ASSUME CountsTyped, StoppedCounted,
           NEW v \in Vids, NEW l \in Locs, NEW spd \in Speeds,
           PosReport(v, l, spd)
    PROVE  StoppedCounted'
PROOF
<1>1. /\ v_loc' = [v_loc EXCEPT ![v] = l]
      /\ v_nomove_cnt_reg' = [v_nomove_cnt_reg EXCEPT ![v] = nomove_cnt(v, l)]
      /\ stopped_cnt_reg' = update_stopped(v, l)
  BY DEF PosReport
<1>2. v_nomove_cnt_reg[v] \in 0 .. 3
  BY DEF CountsTyped
<1>3. nomove_cnt(v, l) \in 0 .. 3
  BY <1>2, Saturates DEF nomove_cnt
<1>4. \A w \in Vids : w # v => /\ v_loc'[w] = v_loc[w]
                               /\ v_nomove_cnt_reg'[w] = v_nomove_cnt_reg[w]
  BY <1>1 DEF CountsTyped
<1>5. v_loc'[v] = l /\ v_nomove_cnt_reg'[v] = nomove_cnt(v, l)
  BY <1>1 DEF CountsTyped
<1> SUFFICES ASSUME NEW c \in Cells
             PROVE  stopped_cnt_reg'[c] = Cardinality(StoppedIn(c)') % CntMod
  BY DEF StoppedCounted
<1>6. stopped_cnt_reg[c] = Cardinality(StoppedIn(c)) % CntMod
  BY DEF StoppedCounted
<1>7. IsFiniteSet(StoppedIn(c))
  BY FS_Subset, RoadAssumption DEF StoppedIn
<1>8. CASE v_nomove_cnt_reg[v] = 3 /\ nomove_cnt(v, l) < 3
  <2>1. stopped_cnt_reg'[c] = IF c = Cell(v_loc[v])
                              THEN (stopped_cnt_reg[c] + -1) % CntMod
                              ELSE stopped_cnt_reg[c]
    BY <1>1, <1>8 DEF update_stopped, Bump, CountsTyped
  <2>2. nomove_cnt(v, l) # 3
    BY <1>3, <1>8
  <2>3. StoppedIn(c)' = StoppedIn(c) \ {v}
    BY <1>4, <1>5, <2>2, Zenon DEF StoppedIn
  <2>4. v \in StoppedIn(c) <=> c = Cell(v_loc[v])
    BY <1>8 DEF StoppedIn
  <2>5. CASE c = Cell(v_loc[v])
    <3>1. ((Cardinality(StoppedIn(c)) % CntMod) + -1) % CntMod =
              Cardinality(StoppedIn(c) \ {v}) % CntMod
      BY <2>4, <2>5, <1>7, BumpCounts
    <3> QED BY <3>1, <2>1, <2>3, <2>5, <1>6
  <2>6. CASE c # Cell(v_loc[v])
    <3>1. StoppedIn(c)' = StoppedIn(c)
      BY <2>3, <2>4, <2>6
    <3> QED BY <3>1, <2>1, <2>6, <1>6
  <2> QED BY <2>5, <2>6
<1>9. CASE v_nomove_cnt_reg[v] < 3 /\ nomove_cnt(v, l) = 3
  <2>0. v_nomove_cnt_reg[v] # 3
    BY <1>2, <1>9
  <2>1. stopped_cnt_reg'[c] = IF c = Cell(l)
                              THEN (stopped_cnt_reg[c] + 1) % CntMod
                              ELSE stopped_cnt_reg[c]
    BY <1>1, <1>9, <2>0 DEF update_stopped, Bump, CountsTyped
  <2>2. v \notin StoppedIn(c)
    BY <2>0 DEF StoppedIn
  <2>3. CASE c = Cell(l)
    <3>1. StoppedIn(c)' = StoppedIn(c) \cup {v}
      BY <1>4, <1>5, <1>9, <2>2, <2>3, Zenon DEF StoppedIn
    <3>2. ((Cardinality(StoppedIn(c)) % CntMod) + 1) % CntMod =
              Cardinality(StoppedIn(c) \cup {v}) % CntMod
      BY <2>2, <1>7, BumpCounts
    <3> QED BY <3>1, <3>2, <2>1, <2>3, <1>6
  <2>4. CASE c # Cell(l)
    <3>1. StoppedIn(c)' = StoppedIn(c)
      BY <1>4, <1>5, <2>0, <2>4, Zenon DEF StoppedIn
    <3> QED BY <3>1, <2>1, <2>4, <1>6
  <2> QED BY <2>3, <2>4
<1>10. CASE /\ ~(v_nomove_cnt_reg[v] = 3 /\ nomove_cnt(v, l) < 3)
            /\ ~(v_nomove_cnt_reg[v] < 3 /\ nomove_cnt(v, l) = 3)
  <2>1. stopped_cnt_reg'[c] = stopped_cnt_reg[c]
    BY <1>1, <1>10 DEF update_stopped
  <2>2. v_nomove_cnt_reg[v] = 3 <=> nomove_cnt(v, l) = 3
    BY <1>2, <1>3, <1>10
  <2>3. nomove_cnt(v, l) = 3 => v_loc[v] = l
    BY DEF nomove_cnt
  <2>4. StoppedIn(c)' = StoppedIn(c)
    BY <1>4, <1>5, <2>2, <2>3, Zenon DEF StoppedIn
  <2> QED BY <2>1, <2>4, <1>6
<1> QED BY <1>8, <1>9, <1>10

\* A report keeps the volumes exact when cars do not turn within a segment
\* number: a new car joins a set, a car in a new segment leaves one set and
\* joins another, and any other report leaves the car where it was.
LEMMA VolKept ==
    ASSUME Turns = FALSE, CountsTyped, VolCounted,
           NEW v \in Vids, NEW l \in Locs, NEW spd \in Speeds,
           PosReport(v, l, spd)
    PROVE  VolCounted'
PROOF
<1>1. /\ v_loc' = [v_loc EXCEPT ![v] = l]
      /\ v_valid_reg' = [v_valid_reg EXCEPT ![v] = TRUE]
      /\ seg_vol_reg' = update_vol_state(v, l)
  BY DEF PosReport
<1>2. \A w \in Vids : w # v => /\ v_loc'[w] = v_loc[w]
                               /\ v_valid_reg'[w] = v_valid_reg[w]
  BY <1>1 DEF CountsTyped
<1>3. v_loc'[v] = l /\ v_valid_reg'[v] = TRUE
  BY <1>1 DEF CountsTyped
<1> SUFFICES ASSUME NEW d \in Dirsegs
             PROVE  seg_vol_reg'[d] = Cardinality(CarsIn(d)') % CntMod
  BY DEF VolCounted
<1>4. seg_vol_reg[d] = Cardinality(CarsIn(d)) % CntMod
  BY DEF VolCounted
<1>5. IsFiniteSet(CarsIn(d))
  BY FS_Subset, RoadAssumption DEF CarsIn
<1>6. CASE ~v_valid_reg[v]
  <2>1. seg_vol_reg'[d] = IF d = Dirseg(l) THEN (seg_vol_reg[d] + 1) % CntMod
                          ELSE seg_vol_reg[d]
    BY <1>1, <1>6 DEF update_vol_state, new_seg, Bump, CountsTyped
  <2>2. v \notin CarsIn(d)
    BY <1>6 DEF CarsIn
  <2>3. CASE d = Dirseg(l)
    <3>1. CarsIn(d)' = CarsIn(d) \cup {v}
      BY <1>2, <1>3, <2>2, <2>3, Zenon DEF CarsIn
    <3>2. ((Cardinality(CarsIn(d)) % CntMod) + 1) % CntMod =
              Cardinality(CarsIn(d) \cup {v}) % CntMod
      BY <2>2, <2>3, <1>5, BumpCounts
    <3> QED BY <3>1, <3>2, <2>1, <2>3, <1>4
  <2>4. CASE d # Dirseg(l)
    <3>1. CarsIn(d)' = CarsIn(d)
      BY <1>2, <1>3, <1>6, <2>4, Zenon DEF CarsIn
    <3> QED BY <3>1, <2>1, <2>4, <1>4
  <2> QED BY <2>3, <2>4
<1>7. CASE v_valid_reg[v] /\ v_loc[v].seg # l.seg
  <2> DEFINE mid == IF d = Dirseg(l) THEN (seg_vol_reg[d] + 1) % CntMod
                    ELSE seg_vol_reg[d]
  <2>1. seg_vol_reg'[d] = IF d = Dirseg(v_loc[v]) THEN (mid + -1) % CntMod
                          ELSE mid
    BY <1>1, <1>7 DEF update_vol_state, new_seg, Bump, CountsTyped
  <2>2. v \in CarsIn(d) <=> d = Dirseg(v_loc[v])
    BY <1>7 DEF CarsIn
  <2>3. CASE d = Dirseg(l) /\ d = Dirseg(v_loc[v])
    <3>1. CarsIn(d)' = CarsIn(d)
      BY <1>2, <1>3, <1>7, <2>3, Zenon DEF CarsIn
    <3>2. seg_vol_reg'[d] = (((seg_vol_reg[d] + 1) % CntMod) + -1) % CntMod
      BY <2>1, <2>3
    <3>3. PICK n \in Int : n = Cardinality(CarsIn(d))
      <4>1. Cardinality(CarsIn(d)) \in Nat
        BY <1>5, OneCar, Zenon
      <4> QED BY <4>1
    <3>4. ((((n % CntMod) + 1) % CntMod) + -1) % CntMod = n % CntMod
      BY TwoBumps
    <3> QED BY <3>1, <3>2, <3>3, <3>4, <1>4
  <2>4. CASE d = Dirseg(l) /\ d # Dirseg(v_loc[v])
    <3>1. CarsIn(d)' = CarsIn(d) \cup {v}
      BY <1>2, <1>3, <2>2, <2>4, Zenon DEF CarsIn
    <3>2. ((Cardinality(CarsIn(d)) % CntMod) + 1) % CntMod =
              Cardinality(CarsIn(d) \cup {v}) % CntMod
      BY <2>2, <2>4, <1>5, BumpCounts
    <3> QED BY <3>1, <3>2, <2>1, <2>4, <1>4
  <2>5. CASE d # Dirseg(l) /\ d = Dirseg(v_loc[v])
    <3>1. CarsIn(d)' = CarsIn(d) \ {v}
      BY <1>2, <1>3, <2>2, <2>5, Zenon DEF CarsIn
    <3>2. ((Cardinality(CarsIn(d)) % CntMod) + -1) % CntMod =
              Cardinality(CarsIn(d) \ {v}) % CntMod
      BY <2>2, <2>5, <1>5, BumpCounts
    <3> QED BY <3>1, <3>2, <2>1, <2>5, <1>4
  <2>6. CASE d # Dirseg(l) /\ d # Dirseg(v_loc[v])
    <3>1. CarsIn(d)' = CarsIn(d)
      BY <1>2, <1>3, <2>6, Zenon DEF CarsIn
    <3> QED BY <3>1, <2>1, <2>6, <1>4
  <2> QED BY <2>3, <2>4, <2>5, <2>6
<1>8. CASE v_valid_reg[v] /\ v_loc[v].seg = l.seg
  <2>1. v_loc[v].xway = l.xway /\ v_loc[v].dir = l.dir
    BY <1>8 DEF PosReport, MayReport
  <2>2. Dirseg(v_loc[v]) = Dirseg(l)
    BY <1>8, <2>1 DEF Dirseg
  <2>3. CarsIn(d)' = CarsIn(d)
    BY <1>2, <1>3, <1>8, <2>2, Zenon DEF CarsIn
  <2>4. seg_vol_reg'[d] = seg_vol_reg[d]
    BY <1>1, <1>8 DEF update_vol_state, new_seg
  <2> QED BY <2>3, <2>4, <1>4
<1>9. v_valid_reg[v] \in BOOLEAN
  BY DEF CountsTyped
<1> QED BY <1>6, <1>7, <1>8, <1>9

-----------------------------------------------------------------------------

\* Initially every count is 0 and every set is empty.
LEMMA CountsInit ==
    Init => CountsTyped /\ StoppedCounted /\ VolCounted
PROOF
<1> SUFFICES ASSUME Init PROVE CountsTyped /\ StoppedCounted /\ VolCounted
  OBVIOUS
<1>1. CountsTyped
  BY DEF Init, CountsTyped
<1>2. 0 % CntMod = 0
  BY RoadAssumption, SMT
<1>3. Cardinality({}) = 0
  BY FS_EmptySet
<1>4. \A c \in Cells : StoppedIn(c) = {}
  BY DEF Init, StoppedIn
<1>5. \A d \in Dirsegs : CarsIn(d) = {}
  BY DEF Init, CarsIn
<1>6. StoppedCounted
  BY <1>2, <1>3, <1>4 DEF Init, StoppedCounted
<1>7. VolCounted
  BY <1>2, <1>3, <1>5 DEF Init, VolCounted
<1> QED BY <1>1, <1>6, <1>7

\* However cars stop, move and stop again, a cell's count (inc_stopped,
\* dec_prev_stopped) is the number of cars whose registers say they are stopped
\* in it, modulo the width of the count.
THEOREM StoppedHolds == Spec => []StoppedCounted
PROOF
<1>1. Init => CountsTyped /\ StoppedCounted
  BY CountsInit
<1>2. CountsTyped /\ StoppedCounted /\ [Next]_vars
          => CountsTyped' /\ StoppedCounted'
  <2> SUFFICES ASSUME CountsTyped, StoppedCounted, [Next]_vars
               PROVE  StoppedCounted'
    BY TypesKept
  <2>1. ASSUME NEW v \in Vids, NEW l \in Locs, NEW spd \in Speeds,
               PosReport(v, l, spd)
        PROVE  StoppedCounted'
    BY <2>1, StoppedKept
  <2>2. CASE UNCHANGED regs
    BY <2>2 DEF regs, StoppedCounted, StoppedIn
  <2>3. ClearToll \/ (\E s \in Settings : AddToll(s)) \/ UNCHANGED vars
            => UNCHANGED regs
    BY DEF ClearToll, AddToll, vars
  <2> QED BY <2>1, <2>2, <2>3 DEF Next
<1> QED BY <1>1, <1>2, PTL DEF Spec

\* If no car turns within one segment number, the volume of a segment
\* (update_vol_state) is the number of cars whose last report came from it,
\* modulo the width of the count.
THEOREM VolHolds ==
    ASSUME Turns = FALSE
    PROVE  Spec => []VolCounted
PROOF
<1>1. Init => CountsTyped /\ VolCounted
  BY CountsInit
<1>2. CountsTyped /\ VolCounted /\ [Next]_vars
          => CountsTyped' /\ VolCounted'
  <2> SUFFICES ASSUME CountsTyped, VolCounted, [Next]_vars
               PROVE  VolCounted'
    BY TypesKept
  <2>1. ASSUME NEW v \in Vids, NEW l \in Locs, NEW spd \in Speeds,
               PosReport(v, l, spd)
        PROVE  VolCounted'
    BY <2>1, VolKept, Zenon
  <2>2. CASE UNCHANGED regs
    BY <2>2 DEF regs, VolCounted, CarsIn
  <2>3. ClearToll \/ (\E s \in Settings : AddToll(s)) \/ UNCHANGED vars
            => UNCHANGED regs
    BY DEF ClearToll, AddToll, vars
  <2> QED BY <2>1, <2>2, <2>3 DEF Next
<1> QED BY <1>1, <1>2, PTL DEF Spec

\* inc_stopped, dec_prev_stopped, update_vol_state: all the counts agree with the
\* cars, for any number of cars, cells and reports.
THEOREM CountsHold == Spec => []CountsAgree
PROOF
<1>1. CASE Turns = FALSE
  <2>1. StoppedCounted /\ VolCounted => CountsAgree
    BY DEF CountsAgree
  <2> QED BY <1>1, <2>1, StoppedHolds, VolHolds, PTL
<1>2. CASE Turns # FALSE
  <2>1. StoppedCounted => CountsAgree
    BY <1>2 DEF CountsAgree
  <2> QED BY <2>1, StoppedHolds, PTL
<1> QED BY <1>1, <1>2

\* The average calc_ewma_spd stores lies between the old average and the speed
\* reported, for averages and speeds of 8 bits.
THEOREM EwmaBetween ==
    ASSUME NEW avg \in 0 .. 255, NEW spd \in 0 .. 255
    PROVE  /\ avg <= spd => /\ avg <= calc_ewma_spd(avg, spd)
                             /\ calc_ewma_spd(avg, spd) <= spd
           /\ spd <= avg => /\ spd <= calc_ewma_spd(avg, spd)
                             /\ calc_ewma_spd(avg, spd) <= avg
PROOF
BY SMT DEF calc_ewma_spd
=============================================================================
