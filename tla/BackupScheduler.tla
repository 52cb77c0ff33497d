--------------------------- MODULE BackupScheduler ---------------------------
(***************************************************************************)
(* The scheduled backup job of every server process                        *)
(* (core/server/jobs/backupScheduler.ts) on top of the backup store, and   *)
(* the schedule row it shares with the admins who edit it                  *)
(* (getBackupSchedule, setBackupSchedule, markScheduleRun of               *)
(* backupService.ts).  One session advisory lock serialises the processes; *)
(* inside a process the isRunning flag does, so each instance has one run. *)
(***************************************************************************)
EXTENDS BackupStore, Integers, Bags

CONSTANTS
  Instances,   \* server processes whose scheduler is enabled
  Schedules,   \* uuids of the backup_schedules table
  Frequencies, \* "daily" and what else an admin may choose
  Period,      \* frequency -> length of its period on the clock
  Seeded,      \* whether the table has its row already
  EditFields   \* fields an admin's PATCH may carry: "enabled", "frequency", "retention"

ASSUME InstancesAssumption == Instances \subseteq Jobs /\ "free" \notin Instances
ASSUME PeriodAssumption == "daily" \in Frequencies /\ Period \in [Frequencies -> Nat \ {0}]
ASSUME SeededAssumption == Seeded \in BOOLEAN
ASSUME EditAssumption == EditFields \subseteq {"enabled", "frequency", "retention"}

Admins == Jobs \ Instances
NoTime == -1           \* a null timestamp
NoInstance == "free"   \* nobody holds the advisory lock
NoSchedule == [enabled |-> FALSE, frequency |-> "none"]
DefaultRetention == CHOOSE r \in Retentions : \A q \in Retentions : r >= q

VARIABLES
  schedules,  \* the backup_schedules table
  lock,       \* the session that holds the advisory lock
  run,        \* per instance: where its runDueScheduledBackups is
  edit,       \* per admin: where its getBackupSchedule / setBackupSchedule is
  served      \* history: the bag of <<schedule, nextRunAt>> a backup was started for

schedulerVars == <<schedules, lock, run, edit, served>>
vars == <<storeVars, schedulerVars>>

\* computeNextRunAt: the first run hour at least a period after `from`.
ComputeNextRunAt(frequency, from) == from + Period[frequency]
Schedule == [enabled : BOOLEAN, frequency : Frequencies, retention : Retentions,
             nextRunAt : Nat \cup {NoTime}, lastRunAt : Nat \cup {NoTime}]
Existing == {s \in Schedules : schedules[s] # NoSchedule}

SeedRow(t) == [enabled |-> TRUE, frequency |-> "daily", retention |-> DefaultRetention,
               nextRunAt |-> ComputeNextRunAt("daily", t), lastRunAt |-> NoTime]

\* Local variables of a run: `at` is its now, `fresh` the row of the re-check, `seen`
\* the row markScheduleRun read before it writes.
Run == [pc : {"idle"}]
  \cup [pc : {"seed"}]
  \cup [pc : {"lock", "recheck"}, at : Nat]
  \cup [pc : {"unlock"}]
  \cup [pc : {"backup", "mark"}, at : Nat, id : Schedules, fresh : Schedule]
  \cup [pc : {"markWrite"}, at : Nat, id : Schedules, fresh : Schedule, seen : Schedule]
  \cup [pc : {"prune"}, at : Nat, fresh : Schedule]
  \cup [pc : {"pruning"}]

Edit == [pc : {"idle"}]
  \cup [pc : {"seed"}]
  \cup [pc : {"write"}, id : Schedules, seen : Schedule]

SchedulerTypeOK ==
  /\ schedules \in [Schedules -> Schedule \cup {NoSchedule}]
  /\ lock \in Instances \cup {NoInstance}
  /\ run \in [Instances -> Run]
  /\ edit \in [Admins -> Edit]
  /\ IsABag(served)

TypeOK == StoreTypeOK /\ SchedulerTypeOK

SchedulerInit ==
  /\ IF Seeded
     THEN \E s \in Schedules :
            schedules = [x \in Schedules |-> IF x = s THEN SeedRow(0) ELSE NoSchedule]
     ELSE schedules = [s \in Schedules |-> NoSchedule]
  /\ lock = NoInstance
  /\ run = [i \in Instances |-> [pc |-> "idle"]]
  /\ edit = [a \in Admins |-> [pc |-> "idle"]]
  /\ served = EmptyBag

Init == StoreInit /\ SchedulerInit

RunGoto(i, next) == run' = [run EXCEPT ![i] = next]
EditGoto(a, next) == edit' = [edit EXCEPT ![a] = next]
Due(row, at) == row.enabled /\ row.nextRunAt # NoTime /\ row.nextRunAt <= at

\* getBackupSchedule inserts the default row when its select found none; nothing
\* in the table keeps a second caller from doing the same.
InsertSeed ==
  \E s \in Schedules \ Existing : schedules' = [schedules EXCEPT ![s] = SeedRow(now)]

-----------------------------------------------------------------------------
(* runDueScheduledBackups *)

\* The timer fires: the cheap check before the lock.  (select ... limit 1 returns
\* any row of the table.)
TickDue(i) ==
  /\ run[i].pc = "idle"
  /\ \E s \in Existing : Due(schedules[s], now)
  /\ RunGoto(i, [pc |-> "lock", at |-> now])
  /\ UNCHANGED <<storeVars, schedules, lock, edit, served>>

TickUnseeded(i) ==
  /\ run[i].pc = "idle"
  /\ Existing = {}
  /\ RunGoto(i, [pc |-> "seed"])
  /\ UNCHANGED <<storeVars, schedules, lock, edit, served>>

\* The row it inserts is not due yet, so the run ends here.
TickSeed(i) ==
  /\ run[i].pc = "seed"
  /\ InsertSeed
  /\ RunGoto(i, [pc |-> "idle"])
  /\ UNCHANGED <<storeVars, lock, edit, served>>

\* Mutant: the answer of pg_try_advisory_lock is not looked at.
TryLockIgnored(i) ==
  /\ run[i].pc = "lock"
  /\ lock' = i
  /\ RunGoto(i, [pc |-> "recheck", at |-> run[i].at])
  /\ UNCHANGED <<storeVars, schedules, edit, served>>

\* pg_try_advisory_lock on a session of its own.
TryLock(i) ==
  /\ run[i].pc = "lock"
  /\ IF lock = NoInstance
     THEN lock' = i /\ RunGoto(i, [pc |-> "recheck", at |-> run[i].at])
     ELSE lock' = lock /\ RunGoto(i, [pc |-> "idle"])
  /\ UNCHANGED <<storeVars, schedules, edit, served>>

\* Mutant: no second look at the row once the lock is held.
RecheckSkipped(i) ==
  /\ run[i].pc = "recheck"
  /\ \E s \in Existing :
       RunGoto(i, [pc |-> "backup", at |-> run[i].at, id |-> s, fresh |-> schedules[s]])
  /\ UNCHANGED <<storeVars, schedules, lock, edit, served>>

Recheck(i) ==
  /\ run[i].pc = "recheck"
  /\ \E s \in Existing :
       IF Due(schedules[s], run[i].at)
       THEN RunGoto(i, [pc |-> "backup", at |-> run[i].at, id |-> s, fresh |-> schedules[s]])
       ELSE RunGoto(i, [pc |-> "unlock"])
  /\ UNCHANGED <<storeVars, schedules, lock, edit, served>>

StartBackup(i) ==
  /\ run[i].pc = "backup"
  /\ CreateRead(i, "scheduled")
  /\ RunGoto(i, [pc |-> "mark", at |-> run[i].at, id |-> run[i].id, fresh |-> run[i].fresh])
  /\ served' = served (+) SetToBag({<<run[i].id, run[i].fresh.nextRunAt>>})
  /\ UNCHANGED <<schedules, lock, edit>>

\* createBackup settled.  markScheduleRun reads the row it will advance ...
MarkRead(i) ==
  /\ run[i].pc = "mark" /\ job[i].pc = "done"
  /\ Goto(i, Idle)
  /\ RunGoto(i, [pc |-> "markWrite", at |-> run[i].at, id |-> run[i].id,
                 fresh |-> run[i].fresh, seen |-> schedules[run[i].id]])
  /\ UNCHANGED <<now, driver, rows, used, store, torn, faults, schedules, lock, edit, served>>

\* ... and writes lastRunAt and nextRunAt from what it read.
MarkWrite(i) ==
  /\ run[i].pc = "markWrite"
  /\ schedules' = [schedules EXCEPT
       ![run[i].id].lastRunAt = run[i].at,
       ![run[i].id].nextRunAt = IF run[i].seen.enabled
                                THEN ComputeNextRunAt(run[i].seen.frequency, run[i].at)
                                ELSE NoTime]
  /\ RunGoto(i, [pc |-> "prune", at |-> run[i].at, fresh |-> run[i].fresh])
  /\ UNCHANGED <<storeVars, lock, edit, served>>

\* pruneIfAvailable, with the now of the tick and the retention of the re-check.
StartPrune(i) ==
  /\ run[i].pc = "prune"
  /\ PruneSelect(i, run[i].fresh.retention, run[i].at)
  /\ RunGoto(i, [pc |-> "pruning"])
  /\ UNCHANGED <<schedules, lock, edit, served>>

PruneDone(i) ==
  /\ run[i].pc = "pruning" /\ job[i].pc = "done"
  /\ Goto(i, Idle)
  /\ RunGoto(i, [pc |-> "unlock"])
  /\ UNCHANGED <<now, driver, rows, used, store, torn, faults, schedules, lock, edit, served>>

\* createBackup threw: the finally blocks run, the schedule is not advanced.
BackupThrew(i) ==
  /\ run[i].pc = "mark" /\ job[i].pc = "threw"
  /\ Goto(i, Idle)
  /\ RunGoto(i, [pc |-> "unlock"])
  /\ UNCHANGED <<now, driver, rows, used, store, torn, faults, schedules, lock, edit, served>>

Unlock(i) ==
  /\ run[i].pc = "unlock"
  /\ lock' = NoInstance
  /\ RunGoto(i, [pc |-> "idle"])
  /\ UNCHANGED <<storeVars, schedules, edit, served>>

\* Mutant: the lock is taken on a pooled session, which outlives the process.
CrashLeaksLock(i) ==
  /\ run[i].pc # "idle"
  /\ Fault("crash")
  /\ lock' = lock
  /\ RunGoto(i, [pc |-> "idle"])
  /\ Goto(i, Idle)
  /\ UNCHANGED <<now, driver, rows, used, store, torn, schedules, edit, served>>

\* The process dies: its session goes, and with it the lock.
Crash(i) ==
  /\ run[i].pc # "idle"
  /\ Fault("crash")
  /\ lock' = IF lock = i THEN NoInstance ELSE lock
  /\ RunGoto(i, [pc |-> "idle"])
  /\ Goto(i, Idle)
  /\ UNCHANGED <<now, driver, rows, used, store, torn, schedules, edit, served>>

RunStep(i) ==
  /\ UNCHANGED allowed
  /\ \/ TickDue(i) \/ TickUnseeded(i) \/ TickSeed(i) \/ TryLock(i) \/ Recheck(i)
     \/ StartBackup(i) \/ MarkRead(i) \/ MarkWrite(i) \/ BackupThrew(i)
     \/ StartPrune(i) \/ PruneDone(i) \/ Unlock(i)

-----------------------------------------------------------------------------
(* Admin requests on the schedule *)

\* GET /backups/schedule, or the read a PATCH starts with, on an empty table.
EditUnseeded(a) ==
  /\ edit[a].pc = "idle" /\ EditFields # {}
  /\ Existing = {}
  /\ EditGoto(a, [pc |-> "seed"])
  /\ UNCHANGED <<storeVars, schedules, lock, run, served>>

EditSeed(a) ==
  /\ edit[a].pc = "seed"
  /\ InsertSeed
  /\ EditGoto(a, [pc |-> "idle"])
  /\ UNCHANGED <<storeVars, lock, run, served>>

\* setBackupSchedule reads the row ...
EditRead(a) ==
  /\ edit[a].pc = "idle" /\ EditFields # {}
  /\ \E s \in Existing : EditGoto(a, [pc |-> "write", id |-> s, seen |-> schedules[s]])
  /\ UNCHANGED <<storeVars, schedules, lock, run, served>>

\* A PATCH sets one field of the row it read, or none; the others keep the values read.
Patched(seen) ==
  {seen} \cup (IF "enabled" \in EditFields THEN {[seen EXCEPT !.enabled = e] : e \in BOOLEAN} ELSE {})
         \cup (IF "frequency" \in EditFields THEN {[seen EXCEPT !.frequency = f] : f \in Frequencies} ELSE {})
         \cup (IF "retention" \in EditFields THEN {[seen EXCEPT !.retention = r] : r \in Retentions} ELSE {})

NextRunAfterEdit(seen, next) ==
  IF ~next.enabled THEN NoTime
  ELSE IF next.frequency # seen.frequency \/ ~seen.enabled \/ seen.nextRunAt = NoTime
  THEN ComputeNextRunAt(next.frequency, now)
  ELSE seen.nextRunAt

\* ... and writes every editable column and nextRunAt from it, not lastRunAt.
EditWrite(a) ==
  /\ edit[a].pc = "write"
  /\ \E next \in Patched(edit[a].seen) :
       schedules' = [schedules EXCEPT ![edit[a].id] =
         [next EXCEPT !.nextRunAt = NextRunAfterEdit(edit[a].seen, next),
                      !.lastRunAt = schedules[edit[a].id].lastRunAt]]
  /\ EditGoto(a, [pc |-> "idle"])
  /\ UNCHANGED <<storeVars, lock, run, served>>

EditStep(a) == EditUnseeded(a) \/ EditSeed(a) \/ EditRead(a) \/ EditWrite(a)

Service(j) == ServiceStep(j) /\ UNCHANGED schedulerVars

AdminStep(a) ==
  \/ Service(a)
  \/ (Request(a) \/ Return(a) \/ CrashJob(a)) /\ UNCHANGED schedulerVars

Next ==
  /\ UNCHANGED allowed
  /\ \/ \E i \in Instances : RunStep(i) \/ Crash(i) \/ Service(i)
     \/ \E a \in Admins : EditStep(a) \/ AdminStep(a)
     \/ (ClockTick \/ SetDriver) /\ UNCHANGED schedulerVars

\* A live process keeps its interval timer firing and its awaited calls settling;
\* admins, crashes and the clock are free.
Fairness ==
  \A i \in Instances : WF_vars(RunStep(i)) /\ WF_vars(Service(i))

Spec == Init /\ [][Next]_vars
FairSpec == Spec /\ Fairness

-----------------------------------------------------------------------------
(* Properties *)

InCriticalSection(i) ==
  run[i].pc \in {"recheck", "backup", "mark", "markWrite", "prune", "pruning", "unlock"}

\* At most one process is between its re-check and its unlock, and it is the session
\* that holds the lock, though a crash drops the lock at any step.
SingleFlight ==
  /\ \A i \in Instances : InCriticalSection(i) <=> lock = i
  /\ \A i, k \in Instances : InCriticalSection(i) /\ InCriticalSection(k) => i = k

\* The processes in their critical section behave as the abstract lock allows.
Inside == {i \in Instances : InCriticalSection(i)}
Lock == INSTANCE SingleFlightLock WITH Processes <- Instances, inside <- Inside
LockSpec == Lock!Spec

\* One scheduled backup per due time, and one more at most for every crash or failed
\* call: two processes that both saw the row due do not both run it.
NoDoubleRun == \A k \in DOMAIN served : served[k] <= 1 + faults

\* A due schedule is run: no crash leaves the lock behind and no failed backup
\* leaves the row due for ever.
DueEventuallyRuns ==
  \A s \in Schedules :
    (schedules[s] # NoSchedule /\ Due(schedules[s], now)) ~> ~Due(schedules[s], now)

\* "createBackup ... never throws (it self-marks failed)" (backupScheduler.ts:77).
CreateNeverThrows == \A i \in Instances : run[i].pc = "mark" => job[i].pc # "threw"

=============================================================================
