------------------------------- MODULE MCHula -------------------------------
(* Racks behind two spines; flows and probes go from t1 to t2. *)
EXTENDS Hula

OneFlowSrc == [f \in Flows |-> "t1"]
OneFlowDst == [f \in Flows |-> "t2"]
OwnHash == [f \in Flows |-> f]

OneWay == {<<"t1", "t2">>}

=============================================================================
