------------------------- MODULE MC_BackupScheduler -------------------------
(* Model values, periods and symmetry for the runs of BackupScheduler. *)
EXTENDS BackupScheduler, TLC

CONSTANTS p1, p2, adm, b1, b2, b3, b4, s1, s2

MCInstances == {p1, p2}
MCJobs == {p1, p2, adm}
MCIds == {b1, b2, b3, b4}
TwoIds == {b1, b2}
LocalOnly == {"local"}
MCPeriod == [f \in Frequencies |-> IF f = "daily" THEN 1 ELSE 2]
NoDoing == {{}}
EditDoings == {{"crash", "delete"}}
Failures == {{"crash", "db", "upload"}}
DeleteOnly == {{"delete"}}
NoEdit == {}
RetentionEdit == {"retention"}
ToggleEdit == {"enabled"}
Symmetry == Permutations(MCInstances) \cup Permutations(MCIds)
==============================================================================
