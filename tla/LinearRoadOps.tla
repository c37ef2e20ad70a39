---------------------------- MODULE LinearRoadOps ----------------------------
(***************************************************************************)
(* The arithmetic of the Linear Road switch program                        *)
(* (linearroad/linear_road.p4app/p4src/linear_road.p4): the saturating     *)
(* counter of reports without a move, the moving average of the speed of a *)
(* segment and the toll, each at the width of the field it is stored in.   *)
(***************************************************************************)
EXTENDS Integers

\* The 3-bit counter of do_loc_not_changed: the incremented value, less its
\* bit 2 shifted to the unit.
SaturatingInc(p) ==
    LET n == (p + 1) % 8
    IN  (n - ((n \div 4) % 2)) % 8

\* The weighted average of calc_ewma_spd, computed in 32 bits, shifted right
\* by 7 and stored in 16 bits.
calc_ewma_spd(avg, spd) ==
    ((avg * (128 - 32) + spd * 32) \div 128) % 65536

\* The toll of issue_toll.  The difference is a 16-bit one, but the wrap of a
\* negative difference disappears when it is squared modulo 2^16.
toll(base_toll, vol) ==
    (base_toll * (vol - 50) * (vol - 50)) % 65536
=============================================================================
