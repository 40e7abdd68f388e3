----------------------------- MODULE MCUserPlane -----------------------------
(* UserPlane for TLC. *)
EXTENDS UserPlane, TLC

MCSubscriber == {"s1", "s2"}
MCMS == {"m1", "m2"}
MCMSsOf == [s \in MCSubscriber |-> IF s = "s1" THEN {"m1"} ELSE MCMS]
MCTEID == {11, 12}
MCPacket == {1}
=============================================================================
