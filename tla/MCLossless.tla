----------------------------- MODULE MCLossless -----------------------------
(* Hosts "h" and "k" send through switch "s"; one flow of "h" goes on through *)
(* switch "t" to a slow receiver, another leaves "s" by a link of its own.    *)
EXTENDS Lossless

MCLinks == {"hs", "ks", "st", "sg", "tr"}
MCFrom == [hs |-> "h", ks |-> "k", st |-> "s", sg |-> "s", tr |-> "t"]
MCTo == [hs |-> "s", ks |-> "s", st |-> "t", sg |-> "g", tr |-> "r"]
MCFlows == {"far", "near", "other"}
MCRoute == [far |-> <<"hs", "st", "tr">>, near |-> <<"hs", "sg">>, other |-> <<"ks", "st", "tr">>]
MCPrio == [far |-> 0, near |-> 2, other |-> 0]
MCWorkloads == {[mode |-> "input", packets |-> [far |-> 3, near |-> 2, other |-> 1]],
                [mode |-> "switch", packets |-> [far |-> 3, near |-> 3, other |-> 0]],
                [mode |-> "switch", packets |-> [far |-> 4, near |-> 0, other |-> 3]]}

=============================================================================
