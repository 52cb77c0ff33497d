----------------------------- MODULE BackupStore -----------------------------
(***************************************************************************)
(* Backup rows and their stored artifacts: createBackup, deleteBackup and  *)
(* pruneExpiredBackups of core/services/backups/backupService.ts, run by   *)
(* concurrent callers.  Every await of the service is a step boundary, so  *)
(* callers interleave between the reads and the writes of one call.        *)
(*                                                                         *)
(* A caller is an admin request or the scheduler of a server process; the  *)
(* scheduler itself is module BackupScheduler, which extends this one.     *)
(***************************************************************************)
EXTENDS Naturals

CONSTANTS
  Jobs,       \* callers that may be inside the service at the same time
  Ids,        \* uuids of the backups table
  Drivers,    \* storage drivers an operator can configure, "local" included
  Retentions, \* retentionDays an operator can configure, in clock units
  Environments, \* what callers and environment may do: subsets of Doings to choose from
  MaxTime,    \* bound: the clock stops here
  MaxFaults   \* bound: process crashes and failed I/O together

\* Calls of the admin routes, a switch of the storage driver, and the
\* failures: a process dies, storage refuses a write or a removal, the database
\* refuses a statement.
Doings == {"create", "delete", "prune", "drift", "crash", "upload", "unlink", "db"}

ASSUME EnvironmentsAssumption == Environments \subseteq SUBSET Doings
ASSUME JobsAssumption == "local" \in Drivers /\ MaxTime \in Nat /\ MaxFaults \in Nat
ASSUME RetentionAssumption == Retentions \subseteq Nat \ {0}

NoRow == [status |-> "none"]
Kinds == {"manual", "scheduled"}
Terminal == {"complete", "failed"}

\* A backups row; "path" and "key" say whether artifact_path and artifact_key
\* are set (a local artifact has a path only, a remote one has both).
Row == [status : {"running"} \cup Terminal, kind : Kinds, driver : Drivers,
        path : BOOLEAN, key : BOOLEAN, createdAt : Nat]

VARIABLES
  now,     \* the clock
  driver,  \* storageSettings.driver
  rows,    \* the backups table
  used,    \* uuids handed out so far
  store,   \* artifacts present, whole or in part: <<backend, id>>
  torn,    \* history: what writes left behind that were then reported as failed
  job,     \* what each caller is doing inside the service
  faults,  \* crashes and I/O failures so far
  allowed  \* what callers and environment do, in this behaviour

storeVars == <<now, driver, rows, used, store, torn, job, faults, allowed>>

\* A caller's local variables: the row it creates or deletes, the row as
\* deleteBackup read it ("existing"), and the ids a sweep has left.
Idle == [pc |-> "idle"]
Creating(pc, k, d) == [pc |-> pc, kind |-> k, driver |-> d]
Holding(pc, id, d) == [pc |-> pc, id |-> id, driver |-> d]
Deleting(pc, id, row, todo, sweep) ==
  [pc |-> pc, id |-> id, row |-> row, todo |-> todo, sweep |-> sweep]
Sweeping(todo) == [pc |-> "sweep", todo |-> todo]

Job == {Idle, [pc |-> "done"], [pc |-> "threw"]}
  \cup [pc : {"insert"}, kind : Kinds, driver : Drivers]
  \cup [pc : {"write", "complete", "fail"}, id : Ids, driver : Drivers]
  \cup [pc : {"deleteRow", "deleteArtifact"}, id : Ids, row : Row,
        todo : SUBSET Ids, sweep : BOOLEAN]
  \cup [pc : {"sweep"}, todo : SUBSET Ids]

StoreTypeOK ==
  /\ now \in 0..MaxTime
  /\ driver \in Drivers
  /\ rows \in [Ids -> Row \cup {NoRow}]
  /\ used \in SUBSET Ids
  /\ store \in SUBSET (Drivers \X Ids)
  /\ torn \in SUBSET (Drivers \X Ids)
  /\ job \in [Jobs -> Job]
  /\ faults \in 0..MaxFaults
  /\ allowed \in Environments

StoreInit ==
  /\ now = 0
  /\ driver \in Drivers
  /\ rows = [id \in Ids |-> NoRow]
  /\ used = {}
  /\ store = {}
  /\ torn = {}
  /\ job = [j \in Jobs |-> Idle]
  /\ faults = 0
  /\ allowed \in Environments

Goto(j, next) == job' = [job EXCEPT ![j] = next]

Fault(kind) == kind \in allowed /\ faults < MaxFaults /\ faults' = faults + 1

-----------------------------------------------------------------------------
(* createBackup *)

\* Reads the configured driver; the row is inserted after the await.
CreateRead(j, kind) ==
  /\ job[j].pc = "idle"
  /\ Goto(j, Creating("insert", kind, driver))
  /\ UNCHANGED <<now, driver, rows, used, store, torn, faults>>

\* Mutant: the insert leaves the status to the default of the table, "queued".
FreshRowQueued(j) ==
  [status |-> "queued", kind |-> job[j].kind, driver |-> job[j].driver,
   path |-> FALSE, key |-> FALSE, createdAt |-> now]

FreshRow(j) ==
  [status |-> "running", kind |-> job[j].kind, driver |-> job[j].driver,
   path |-> FALSE, key |-> FALSE, createdAt |-> now]

Inserted(j, id) == used' = used \cup {id} /\ rows' = [rows EXCEPT ![id] = FreshRow(j)]

CreateInsert(j) ==
  /\ job[j].pc = "insert"
  /\ \E id \in Ids \ used :
       Inserted(j, id) /\ Goto(j, Holding("write", id, job[j].driver))
  /\ UNCHANGED <<now, driver, store, torn, faults>>

\* The INSERT fails, or commits and its answer is lost; nothing catches the throw.
CreateInsertFails(j) ==
  /\ job[j].pc = "insert"
  /\ Fault("db")
  /\ \/ UNCHANGED <<rows, used>>
     \/ \E id \in Ids \ used : Inserted(j, id)
  /\ Goto(j, [pc |-> "threw"])
  /\ UNCHANGED <<now, driver, store, torn>>

\* createBackupArtifact: a local row is written to its own file, any other one
\* goes through the adapter of the driver configured at this moment.
Artifact(j) == <<IF job[j].driver = "local" THEN "local" ELSE driver, job[j].id>>

WriteArtifact(j) ==
  /\ job[j].pc = "write"
  /\ store' = store \cup {Artifact(j)}
  /\ Goto(j, [job[j] EXCEPT !.pc = "complete"])
  /\ UNCHANGED <<now, driver, rows, used, torn, faults>>

\* Mutant: the failure of the upload is swallowed.
WriteArtifactFailsSwallowed(j) ==
  /\ job[j].pc = "write"
  /\ Fault("upload")
  /\ Goto(j, [job[j] EXCEPT !.pc = "complete"])
  /\ UNCHANGED <<now, driver, rows, used, store, torn>>

\* Mutant: the artifact is built outside the try, so its failure is not recorded.
WriteArtifactFailsUncaught(j) ==
  /\ job[j].pc = "write"
  /\ Fault("upload")
  /\ Goto(j, [pc |-> "threw"])
  /\ UNCHANGED <<now, driver, rows, used, store, torn>>

\* The snapshot, the file write or the upload throws: caught, row marked failed.  A
\* file may be there in part by then, or an object whole and only the answer lost.
WriteArtifactFails(j) ==
  /\ job[j].pc = "write"
  /\ Fault("upload")
  /\ \/ UNCHANGED <<store, torn>>
     \/ store' = store \cup {Artifact(j)} /\ torn' = torn \cup {Artifact(j)}
  /\ Goto(j, [job[j] EXCEPT !.pc = "fail"])
  /\ UNCHANGED <<now, driver, rows, used>>

\* UPDATE ... WHERE id: no row means "backup_not_found", which createBackup does
\* not catch (the promise is returned, not awaited, inside the try).
Finish(j, row) ==
  /\ rows' = IF rows[job[j].id] = NoRow THEN rows ELSE [rows EXCEPT ![job[j].id] = row]
  /\ Goto(j, [pc |-> IF rows[job[j].id] = NoRow THEN "threw" ELSE "done"])
  /\ UNCHANGED <<now, driver, used, store, torn>>

\* The update fails, or commits and its answer is lost: the caller only sees a throw.
FinishFails(j, row) ==
  /\ Fault("db")
  /\ \/ rows' = rows
     \/ rows[job[j].id] # NoRow /\ rows' = [rows EXCEPT ![job[j].id] = row]
  /\ Goto(j, [pc |-> "threw"])
  /\ UNCHANGED <<now, driver, used, store, torn>>

Completed(j) == [rows[job[j].id] EXCEPT
  !.status = "complete", !.path = TRUE, !.key = (job[j].driver # "local")]

Failed(j) == [rows[job[j].id] EXCEPT !.status = "failed", !.path = FALSE, !.key = FALSE]

MarkBackupComplete(j) ==
  job[j].pc = "complete" /\ Finish(j, Completed(j)) /\ UNCHANGED faults

MarkBackupFailed(j) ==
  job[j].pc = "fail" /\ Finish(j, Failed(j)) /\ UNCHANGED faults

MarkBackupCompleteFails(j) ==
  job[j].pc = "complete" /\ FinishFails(j, Completed(j))

MarkBackupFailedFails(j) ==
  job[j].pc = "fail" /\ FinishFails(j, Failed(j))

CreateStep(j) ==
  \/ CreateInsert(j) \/ CreateInsertFails(j)
  \/ WriteArtifact(j) \/ WriteArtifactFails(j)
  \/ MarkBackupComplete(j) \/ MarkBackupCompleteFails(j)
  \/ MarkBackupFailed(j) \/ MarkBackupFailedFails(j)

-----------------------------------------------------------------------------
(* deleteBackup and pruneExpiredBackups *)

\* Where a delete returns to: the sweep that called it, or the route handler.
Resume(j) == IF job[j].sweep THEN Sweeping(job[j].todo) ELSE [pc |-> "done"]
Rethrow(j) == IF job[j].sweep THEN Sweeping(job[j].todo) ELSE [pc |-> "threw"]

DeleteRead(j, id) ==
  /\ job[j].pc = "idle"
  /\ rows[id] # NoRow
  /\ Goto(j, Deleting("deleteRow", id, rows[id], {}, FALSE))
  /\ UNCHANGED <<now, driver, rows, used, store, torn, faults>>

\* DELETE ... RETURNING, then the artifact if the row had one when it was read.
DeleteRow(j) ==
  /\ job[j].pc = "deleteRow"
  /\ rows' = [rows EXCEPT ![job[j].id] = NoRow]
  /\ Goto(j, IF rows[job[j].id] = NoRow THEN Rethrow(j)
             ELSE IF job[j].row.path THEN [job[j] EXCEPT !.pc = "deleteArtifact"]
             ELSE Resume(j))
  /\ UNCHANGED <<now, driver, used, store, torn, faults>>

\* The DELETE fails, or commits and its answer is lost: no artifact is removed then.
DeleteThrows(j) ==
  /\ job[j].pc = "deleteRow"
  /\ Fault("db")
  /\ rows' \in {rows, [rows EXCEPT ![job[j].id] = NoRow]}
  /\ Goto(j, Rethrow(j))
  /\ UNCHANGED <<now, driver, used, store, torn>>

\* A remote object is deleted through the configured adapter, and skipped when the
\* configured driver is not the row's; a local file is removed from its directory.
Removed(j) ==
  IF ~job[j].row.key THEN {<<"local", job[j].id>>}
  ELSE IF driver = job[j].row.driver THEN {<<driver, job[j].id>>}
  ELSE {}

\* Mutant: remote objects are left to a lifecycle rule of the bucket.
DeleteArtifactLocalOnly(j) ==
  /\ job[j].pc = "deleteArtifact"
  /\ store' = store \ {<<"local", job[j].id>>}
  /\ Goto(j, Resume(j))
  /\ UNCHANGED <<now, driver, rows, used, torn, faults>>

DeleteArtifact(j) ==
  /\ job[j].pc = "deleteArtifact"
  /\ store' = store \ Removed(j)
  /\ Goto(j, Resume(j))
  /\ UNCHANGED <<now, driver, rows, used, torn, faults>>

\* Storage refuses, or the answer of a remote one is lost: swallowed for a remote
\* object, thrown for a local file.
DeleteArtifactFails(j) ==
  /\ job[j].pc = "deleteArtifact"
  /\ Fault("unlink")
  /\ \/ store' = store
     \/ job[j].row.key /\ store' = store \ Removed(j)
  /\ Goto(j, IF job[j].row.key THEN Resume(j) ELSE Rethrow(j))
  /\ UNCHANGED <<now, driver, rows, used, torn>>

\* Mutant: the sweep forgets to ask for finished rows.
ExpiredOfAnyStatus(retention, at) ==
  {id \in Ids : rows[id] # NoRow /\ rows[id].createdAt + retention < at}

Expired(retention, at) ==
  {id \in Ids : /\ rows[id] # NoRow
                /\ rows[id].status \in Terminal
                /\ rows[id].createdAt + retention < at}

PruneSelect(j, retention, at) ==
  /\ job[j].pc = "idle"
  /\ Goto(j, Sweeping(Expired(retention, at)))
  /\ UNCHANGED <<now, driver, rows, used, store, torn, faults>>

\* The sweep deletes one id after the other; a delete that throws is skipped.
PruneNext(j) ==
  /\ job[j].pc = "sweep"
  /\ \/ /\ job[j].todo = {}
        /\ Goto(j, [pc |-> "done"])
     \/ \E id \in job[j].todo :
          Goto(j, IF rows[id] = NoRow THEN Sweeping(job[j].todo \ {id})
                  ELSE Deleting("deleteRow", id, rows[id], job[j].todo \ {id}, TRUE))
  /\ UNCHANGED <<now, driver, rows, used, store, torn, faults>>

DeleteStep(j) ==
  \/ DeleteRow(j) \/ DeleteArtifact(j) \/ DeleteArtifactFails(j) \/ DeleteThrows(j)
  \/ PruneNext(j)

ServiceStep(j) == (CreateStep(j) \/ DeleteStep(j)) /\ UNCHANGED allowed

-----------------------------------------------------------------------------
(* The callers and their environment *)

\* The handler answers its request.
Return(j) ==
  /\ job[j].pc \in {"done", "threw"}
  /\ Goto(j, Idle)
  /\ UNCHANGED <<now, driver, rows, used, store, torn, faults>>

\* The process serving j dies: its local variables are gone, the tables stay.
CrashJob(j) ==
  /\ job[j].pc # "idle"
  /\ Fault("crash")
  /\ Goto(j, Idle)
  /\ UNCHANGED <<now, driver, rows, used, store, torn>>

ClockTick ==
  /\ now < MaxTime
  /\ now' = now + 1
  /\ UNCHANGED <<driver, rows, used, store, torn, job, faults>>

\* An operator switches the media storage driver.
SetDriver ==
  /\ "drift" \in allowed
  /\ driver' \in Drivers \ {driver}
  /\ UNCHANGED <<now, rows, used, store, torn, job, faults>>

\* A request reaches one of the routes of routes/backupRoutes.ts.
Request(j) ==
  \/ "create" \in allowed /\ CreateRead(j, "manual")
  \/ "delete" \in allowed /\ \E id \in Ids : DeleteRead(j, id)
  \/ "prune" \in allowed /\ \E r \in Retentions : PruneSelect(j, r, now)

StoreNext ==
  /\ UNCHANGED allowed
  /\ \/ \E j \in Jobs : Request(j) \/ ServiceStep(j) \/ Return(j) \/ CrashJob(j)
     \/ ClockTick \/ SetDriver

\* Callers create and sweep, uploads may fail, the driver stays put and nothing dies.
Calm == allowed \subseteq {"create", "prune", "upload"}

\* A call that runs keeps running (its promise chain is scheduled until it ends);
\* requests, the operator, failures and the clock promise nothing.  It is asked only of
\* the calm environment, the one a liveness property speaks of.
StoreFairness == \A j \in Jobs : WF_storeVars(Calm /\ ServiceStep(j))

StoreSpec == StoreInit /\ [][StoreNext]_storeVars

-----------------------------------------------------------------------------
(* Properties *)

\* A row that says "complete" always has an artifact behind it, whatever deletes,
\* sweeps, crashes and failed I/O interleave with the create that completed it.
CompleteHasArtifact ==
  \A id \in Ids : rows[id].status = "complete" => \E d \in Drivers : <<d, id>> \in store

\* A finished backup is never reopened, failed afterwards or restamped, only deleted;
\* and a sweep only removes finished rows, though it deletes by ids it selected earlier
\* ("terminal rows only", line 796): an admin named the running row that disappears.
RowsEndOnce ==
  [][\A id \in Ids :
       /\ rows[id].status \in Terminal => rows'[id] \in {rows[id], NoRow}
       /\ rows[id].status = "running" /\ rows'[id] = NoRow =>
            \E j \in Jobs : job[j].pc = "deleteRow" /\ job[j].id = id /\ ~job[j].sweep]_storeVars

\* In a calm environment no artifact outlives the row that names it, except what a failed
\* write left behind (its row never names it, so no sweep looks for it) and in the hands of
\* the delete that removes it next: what else sweeps remove they remove whole.
ArtifactAccounted ==
  Calm => \A d \in Drivers, id \in Ids :
    <<d, id>> \in store \ torn =>
      \/ rows[id] # NoRow
      \/ \E j \in Jobs : job[j].pc = "deleteArtifact" /\ job[j].id = id

=============================================================================
