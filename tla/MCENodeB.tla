------------------------------ MODULE MCENodeB ------------------------------
(* Two subscribers, one of which is attached again on a reload. *)
EXTENDS ENodeB
CONSTANTS s1, s2
=============================================================================
