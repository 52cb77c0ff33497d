-------------------------- MODULE SingleFlightLock --------------------------
(***************************************************************************)
(* What a session advisory lock promises the jobs that take it: whoever is *)
(* inside is inside alone, and may leave at any moment, by unlocking or by *)
(* dying.  "Cross-instance single-flight" (backupScheduler.ts:59) and the  *)
(* startup migration lock (startupMigrations.ts) are both meant to be this.*)
(***************************************************************************)
CONSTANT Processes

VARIABLE inside   \* the processes between lock and unlock

TypeOK == inside \in SUBSET Processes

Init == inside = {}

Enter(p) == inside = {} /\ inside' = {p}
Leave(p) == inside = {p} /\ inside' = {}

Next == \E p \in Processes : Enter(p) \/ Leave(p)

Spec == Init /\ [][Next]_inside
=============================================================================
