---------------------------- MODULE MCRequestPath ----------------------------
(* Every method, two ids, and a client and one derived from it with two      *)
(* sessions and at most two calls at once.                                   *)
EXTENDS RequestPath, TLC

CONSTANTS root, derived, s1, s2, k1, k2, i1, i2

Clients == {root, derived}
TwoSessions == {s1, s2}
TwoCalls == {k1, k2}
TwoIds == {i1, i2}
RequestSymmetry == Permutations(TwoSessions) \cup Permutations(TwoCalls) \cup Permutations(TwoIds)
=============================================================================
