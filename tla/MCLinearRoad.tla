----------------------------- MODULE MCLinearRoad -----------------------------
(***************************************************************************)
(* Instances of LinearRoad for TLC.                                        *)
(***************************************************************************)
EXTENDS LinearRoad

\* setToll is called with bounds that say, inclusively, what the comments of
\* check_toll say.
StrictSettings ==
    {[min_spd |-> TollSpd - 1, min_cars |-> TollCars + 1, base_toll |-> 2]}
=============================================================================
