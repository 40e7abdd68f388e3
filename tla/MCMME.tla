-------------------------------- MODULE MCMME --------------------------------
(* Two calls from two eNBs, and one answer that comes twice. *)
EXTENDS MME, TLC
CONSTANTS c1, c2, e1, e2
MCEnbOf == (c1 :> e1) @@ (c2 :> e2)
MCRepeated == {c1}
=============================================================================
