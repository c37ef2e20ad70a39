------------------------------ MODULE LinearRoad ------------------------------
(***************************************************************************)
(* The Linear Road switch (linearroad/linear_road.p4app).  Cars send       *)
(* position reports; the switch keeps, in registers, the last position of  *)
(* every car, the number of reports it sent without moving, the number of  *)
(* stopped cars of every cell of the road, and the number of cars and the  *)
(* average speed of every segment.  From those it raises accident alerts   *)
(* and charges tolls.  The controller may replace the toll rule.           *)
(*                                                                         *)
(* One report is one action: the switch runs the ingress pipeline of one   *)
(* packet at a time and the egress pipeline touches no register.           *)
(***************************************************************************)
EXTENDS LinearRoadOps, FiniteSets

CONSTANTS
    Vids,         \* vehicle ids, all below MAX_VID
    Xways, Segs, Dirs, Lanes, Speeds,   \* what the reports of a run may carry
    LR_NUM_XWAY, LR_NUM_SEG, LR_NUM_DIR, LR_NUM_LANE,   \* size of the road
    CntMod,       \* 2^width of stopped_cnt_reg and seg_vol_reg (2^8)
    TollSpd, TollCars,   \* 40 and 50 in commands.txt
    Settings,     \* the toll settings setToll may be called with
    Turns,        \* TRUE: a car may change xway or dir within one seg number
    MaxBal        \* bound of a run on a balance before a further report;
                  \* far below 2^32, so that the 32-bit balance does not wrap

ASSUME RoadAssumption ==
    /\ IsFiniteSet(Vids)
    /\ Xways \subseteq Nat /\ Segs \subseteq Nat
    /\ Dirs \subseteq Nat /\ Lanes \subseteq Nat
    /\ Speeds \subseteq Nat
    /\ LR_NUM_XWAY \in Nat /\ LR_NUM_SEG \in Nat
    /\ LR_NUM_DIR \in Nat /\ LR_NUM_LANE \in Nat
    /\ CntMod \in Nat \ {0}
    /\ TollSpd \in Nat /\ TollCars \in Nat /\ MaxBal \in Nat
    /\ Turns \in BOOLEAN
    /\ Settings \subseteq [min_spd : Nat, min_cars : Nat, base_toll : Nat]

VARIABLES
    v_valid_reg,       \* has the car reported before?
    v_loc,             \* v_xway_reg, v_seg_reg, v_dir_reg, v_lane_reg
    v_nomove_cnt_reg,
    v_accnt_bal_reg,
    stopped_cnt_reg,   \* stopped cars, by cell
    seg_vol_reg,       \* cars, by direction and segment
    seg_ewma_spd_reg,
    check_toll,        \* the entries of the toll table: none or one
    last,              \* the last report: its car, the segments an alert may
                       \* name and the toll; empty before the first report
    same               \* ghost: consecutive reports of a car from one position

regs == <<v_valid_reg, v_loc, v_nomove_cnt_reg, v_accnt_bal_reg,
          stopped_cnt_reg, seg_vol_reg, seg_ewma_spd_reg>>

vars == <<regs, check_toll, last, same>>

-----------------------------------------------------------------------------
(* Positions and registers *)

Locs == [xway : Xways, seg : Segs, dir : Dirs, lane : Lanes]

\* What the four position registers of a car hold before its first report.
Origin == [xway |-> 0, seg |-> 0, dir |-> 0, lane |-> 0]

STOPPED_IDX(xway, seg, dir, lane) ==
    xway * (LR_NUM_SEG * LR_NUM_DIR * LR_NUM_LANE)
    + seg * LR_NUM_DIR * LR_NUM_LANE + dir * LR_NUM_LANE + lane

DIRSEG_IDX(xway, seg, dir) ==
    xway * (LR_NUM_SEG * LR_NUM_DIR) + seg * LR_NUM_DIR + dir

Cell(l) == STOPPED_IDX(l.xway, l.seg, l.dir, l.lane)

Dirseg(l) == DIRSEG_IDX(l.xway, l.seg, l.dir)

Cells == 0 .. LR_NUM_XWAY * LR_NUM_SEG * LR_NUM_DIR * LR_NUM_LANE - 1

Dirsegs == 0 .. LR_NUM_XWAY * LR_NUM_SEG * LR_NUM_DIR - 1

\* A register array of the switch: an access out of its bounds reads 0 (the
\* field keeps its initial value) and writes nothing.
Read(reg, i) == IF i \in DOMAIN reg THEN reg[i] ELSE 0

\* A read, an addition of k at the width of the register, and a write.
Bump(reg, i, k) ==
    [j \in DOMAIN reg |-> IF j = i THEN (reg[j] + k) % CntMod ELSE reg[j]]

-----------------------------------------------------------------------------
(* The tables a position report of car v from position l passes, in order *)

\* update_pos_state and update_new_seg.
new_seg(v, l) == ~v_valid_reg[v] \/ v_loc[v].seg # l.seg

\* A wrong version: the segment the car left keeps it.
update_vol_state_NoDec(v, l) ==
    IF ~new_seg(v, l) THEN seg_vol_reg ELSE Bump(seg_vol_reg, Dirseg(l), 1)

\* load_vol, load_and_inc_vol or load_and_inc_and_dec_vol.
update_vol_state(v, l) ==
    IF ~new_seg(v, l) THEN seg_vol_reg
    ELSE IF ~v_valid_reg[v] THEN Bump(seg_vol_reg, Dirseg(l), 1)
    ELSE Bump(Bump(seg_vol_reg, Dirseg(l), 1), Dirseg(v_loc[v]), -1)

\* seg_meta.vol: the volume of the car's segment, the car included.
vol(v, l) ==
    IF new_seg(v, l) THEN (Read(seg_vol_reg, Dirseg(l)) + 1) % CntMod
                     ELSE Read(seg_vol_reg, Dirseg(l))

\* set_spd for the only car of the segment, calc_ewma_spd otherwise.
update_ewma_spd(v, l, spd) ==
    IF vol(v, l) = 1 THEN spd
    ELSE calc_ewma_spd(Read(seg_ewma_spd_reg, Dirseg(l)), spd)

\* loc_not_changed or loc_changed; the position is compared with the registers
\* whether or not the car has reported before.
nomove_cnt(v, l) ==
    IF v_loc[v] = l THEN SaturatingInc(v_nomove_cnt_reg[v]) ELSE 0

\* dec_prev_stopped for a car that was stopped and moved, inc_stopped for one
\* that has just stopped.
update_stopped(v, l) ==
    IF v_nomove_cnt_reg[v] = 3 /\ nomove_cnt(v, l) < 3
    THEN Bump(stopped_cnt_reg, Cell(v_loc[v]), -1)
    ELSE IF v_nomove_cnt_reg[v] < 3 /\ nomove_cnt(v, l) = 3
    THEN Bump(stopped_cnt_reg, Cell(l), 1)
    ELSE stopped_cnt_reg

\* A wrong version: the fifth segment is not read.
accident_segs_FourSegs(stopped, l) ==
    {l.seg + k : k \in {j \in 0 .. 3 : \E n \in 1 .. 3 :
        Read(stopped, STOPPED_IDX(l.xway, l.seg + j, l.dir, n)) >= 2}}

\* load_stopped_ahead and check_accidents: the segments set_accident_meta may
\* be called with.  The OR of three counts is at least 2 when one of them is.
accident_segs(stopped, l) ==
    {l.seg + k : k \in {j \in 0 .. 4 : \E n \in 1 .. 3 :
        Read(stopped, STOPPED_IDX(l.xway, l.seg + j, l.dir, n)) >= 2}}

\* A wrong version: the toll is charged whether or not there is an accident ahead.
charged_rules_Accident(v, l, spd, accident) ==
    {r \in check_toll : /\ new_seg(v, l)
                        /\ update_ewma_spd(v, l, spd) <= r.spd_hi
                        /\ vol(v, l) >= r.vol_lo}

\* The entries of check_toll that match.
charged_rules(v, l, spd, accident) ==
    {r \in check_toll : /\ new_seg(v, l)
                        /\ update_ewma_spd(v, l, spd) <= r.spd_hi
                        /\ vol(v, l) >= r.vol_lo
                        /\ ~accident}

-----------------------------------------------------------------------------
(* State *)

\* The entry commands.txt installs.
InitialRule == [spd_hi |-> TollSpd - 1, vol_lo |-> TollCars + 1, base |-> 1]

Init ==
    /\ v_valid_reg = [v \in Vids |-> FALSE]
    /\ v_loc = [v \in Vids |-> Origin]
    /\ v_nomove_cnt_reg = [v \in Vids |-> 0]
    /\ v_accnt_bal_reg = [v \in Vids |-> 0]
    /\ stopped_cnt_reg = [c \in Cells |-> 0]
    /\ seg_vol_reg = [d \in Dirsegs |-> 0]
    /\ seg_ewma_spd_reg = [d \in Dirsegs |-> 0]
    /\ check_toll = {InitialRule}
    /\ last = {}
    /\ same = [v \in Vids |-> 0]

-----------------------------------------------------------------------------
(* Actions *)

\* Can car v report from position l next?
MayReport(v, l) ==
    \/ Turns
    \/ ~v_valid_reg[v]
    \/ v_loc[v].seg # l.seg
    \/ v_loc[v].xway = l.xway /\ v_loc[v].dir = l.dir

\* The switch handles a position report: the tables of the ingress pipeline,
\* then the alert and the toll notification the egress pipeline clones.
PosReport(v, l, spd) ==
    /\ MayReport(v, l)
    /\ v_accnt_bal_reg[v] <= MaxBal
    /\ LET segs    == accident_segs(update_stopped(v, l), l)
           rules   == charged_rules(v, l, spd, segs # {})
           tolls   == {toll(r.base, vol(v, l)) : r \in rules}
       IN  /\ v_valid_reg' = [v_valid_reg EXCEPT ![v] = TRUE]
           /\ v_loc' = [v_loc EXCEPT ![v] = l]
           /\ v_nomove_cnt_reg' =
                 [v_nomove_cnt_reg EXCEPT ![v] = nomove_cnt(v, l)]
           /\ seg_vol_reg' = update_vol_state(v, l)
           /\ seg_ewma_spd_reg' = [seg_ewma_spd_reg EXCEPT
                 ![Dirseg(l)] = update_ewma_spd(v, l, spd)]
           /\ stopped_cnt_reg' = update_stopped(v, l)
           /\ \/ /\ tolls = {}
                 /\ UNCHANGED v_accnt_bal_reg
              \/ \E t \in tolls : v_accnt_bal_reg' =
                    [v_accnt_bal_reg EXCEPT ![v] = @ + t]
           /\ last' = {[vid |-> v, accident |-> segs, toll |-> tolls]}
           /\ same' = [same EXCEPT ![v] =
                 IF v_valid_reg[v] /\ v_loc[v] = l
                 THEN IF @ < 4 THEN @ + 1 ELSE 4
                 ELSE 1]
    /\ UNCHANGED check_toll

\* setToll sends table_clear and then table_add: between the two no entry
\* matches.
ClearToll ==
    /\ Settings # {}
    /\ check_toll # {}
    /\ check_toll' = {}
    /\ UNCHANGED <<regs, last, same>>

AddToll(s) ==
    /\ check_toll = {}
    /\ check_toll' = {[spd_hi |-> s.min_spd, vol_lo |-> s.min_cars,
                       base |-> s.base_toll]}
    /\ UNCHANGED <<regs, last, same>>

Next ==
    \/ \E v \in Vids, l \in Locs, spd \in Speeds : PosReport(v, l, spd)
    \/ ClearToll
    \/ \E s \in Settings : AddToll(s)

Spec == Init /\ [][Next]_vars

-----------------------------------------------------------------------------
(* Properties *)

\* The cars the registers say are stopped in cell c.
StoppedIn(c) == {v \in Vids : v_nomove_cnt_reg[v] = 3 /\ Cell(v_loc[v]) = c}

\* inc_stopped and dec_prev_stopped stay in step: however the cars stop, move
\* and stop again, a cell counts exactly the cars whose own counter says they
\* are stopped in it, modulo the width of the count.
StoppedCounted ==
    \A c \in Cells : stopped_cnt_reg[c] = Cardinality(StoppedIn(c)) % CntMod

\* The cars whose last report came from segment and direction d.
CarsIn(d) == {v \in Vids : v_valid_reg[v] /\ Dirseg(v_loc[v]) = d}

\* The volume the toll is computed from is the number of cars whose last
\* report came from that segment ("the |cars| in seg", linear_road.p4), modulo
\* the width of the count.
VolCounted ==
    \A d \in Dirsegs : seg_vol_reg[d] = Cardinality(CarsIn(d)) % CntMod

\* The counters the alerts and the tolls are computed from agree with the cars,
\* however the cars stop, move on and cross segments: exactly, but for the volume
\* when cars change road within a segment number, which update_new_seg overlooks.
CountsAgree == StoppedCounted /\ (Turns = FALSE => VolCounted)

\* The cars that have really stopped at position l.
StoppedAt(l) == {v \in Vids : same[v] = 4 /\ v_loc[v] = l}

\* Is there a position of l's xway and direction, in segment s, where two cars
\* have really stopped?
AccidentIn(l, s) ==
    \E m \in Locs : /\ m.xway = l.xway /\ m.dir = l.dir /\ m.seg = s
                    /\ Cardinality(StoppedAt(m)) >= 2

\* Alerts are exact: an accident alert names a segment of the car's own road and
\* direction in which two cars have sent four reports from one position ("4
\* consec. positions", test.py), and a car that reports within four segments of
\* an accident gets one.
AlertsExact ==
    \A r \in last :
        LET l == v_loc[r.vid]
        IN  /\ \A s \in r.accident : AccidentIn(l, s)
            /\ \A s \in l.seg .. l.seg + 4 : AccidentIn(l, s) => r.accident # {}

\* A toll is charged only to a car that shares its segment with more than
\* TollCars cars in all, at an average speed below TollSpd, with no accident in
\* the five segments from its own on (the comments of check_toll).
TollsJustified ==
    \A r \in last : r.toll # {} =>
        LET l == v_loc[r.vid]
        IN  /\ Cardinality(CarsIn(Dirseg(l))) > TollCars
            /\ seg_ewma_spd_reg[Dirseg(l)] < TollSpd
            /\ \A s \in l.seg .. l.seg + 4 : ~AccidentIn(l, s)

=============================================================================
