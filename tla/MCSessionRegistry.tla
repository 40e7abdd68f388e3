------------------------- MODULE MCSessionRegistry -------------------------
(* SessionRegistry for TLC.  Two of the sessions are of one subscriber, so that *)
(* the sessions of one subscriber meet, and one is of another.                  *)
EXTENDS SessionRegistry, TLC

CONSTANTS i1, i2, s1, s2, s3

TwoOfOneSubscriber == s1 :> i1 @@ s2 :> i1 @@ s3 :> i2

Symmetry ==
  Permutations(Goroutine) \cup Permutations(TEID) \cup Permutations({s1, s2})
=============================================================================
