---------------------------- MODULE MC_PublicSite ----------------------------
(* Model values and bounds for the runs of PublicSite. *)
EXTENDS PublicSite, TLC

CONSTANTS s1, s2, q1, q2, a1, a2, p1, p2, root, about, c1, c2

RenamingDoings == {"save", "rename", "publish", "unpublish"}
EveryDoing == Doings
PairSymmetry == Permutations({s1, s2})
Symmetry == Permutations({q1, q2}) \cup Permutations({c1, c2})
=============================================================================
