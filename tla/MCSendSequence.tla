-------------------------- MODULE MCSendSequence --------------------------
(* SendSequence for TLC: three callers, four sequence numbers in a word of eight. *)
EXTENDS SendSequence, TLC

CallerSymmetry == Permutations(Caller)
=============================================================================
