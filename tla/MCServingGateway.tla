-------------------------- MODULE MCServingGateway --------------------------
(* ServingGateway for TLC: the subscriber's sessions, one after the other or at   *)
(* the same time, while numbers last.                                            *)
EXTENDS ServingGateway, TLC

Symmetry == Permutations(Handler)

MCMaxSeq == [S5 |-> 2, S11 |-> 1]
=============================================================================
