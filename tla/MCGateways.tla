----------------------------- MODULE MCGateways -----------------------------
(* Gateways for TLC: two attaches of a subscriber and what follows each.    *)
EXTENDS Gateways

MCMaxSeq == [S5 |-> 3, S11 |-> 1]
=============================================================================
