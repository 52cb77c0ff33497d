---------------------------- MODULE MC_BackupStore ----------------------------
(* Model values for the run of BackupStore, in two environments. *)
EXTENDS BackupStore, TLC

CONSTANTS j1, j2, b1, b2

MCJobs == {j1, j2}
MCIds == {b1, b2}
TwoDrivers == {"local", "s3"}
CalmOrAny == {{"create", "prune", "upload"}, Doings}

MCSpec == StoreSpec /\ StoreFairness

\* In a calm environment every backup ends: no row hangs in "running".  (The ids
\* are interchangeable, so one of them stands for all.)
CalmRunFinishes == (Calm /\ rows[b1].status = "running") ~> rows[b1].status # "running"
=============================================================================
