------------------------------- MODULE MCTcp -------------------------------
EXTENDS Tcp

Flow(d, b, r, n) == [dctcp |-> d, bytes |-> b, runs |-> r, faults |-> n]

MCWorkloads == {Flow(FALSE, 16, 0, 2), Flow(TRUE, 8, 0, 2), Flow(FALSE, 6, 2, 2), Flow(TRUE, 6, 2, 1)}
=============================================================================
