---------------------------- MODULE Backups_proofs ----------------------------
(***************************************************************************)
(* Proofs about the backups. First the store, for any number of callers,   *)
(* backups and drivers: types, a complete row always has its artifact, a   *)
(* row ends once, and in a calm environment nothing but a failed write     *)
(* orphans an artifact. Then the scheduled job, for any number of          *)
(* processes, on top of it: the advisory lock serialises their runs, so    *)
(* the job implements the abstract single-flight lock, and each due time   *)
(* is backed up once.                                                      *)
(***************************************************************************)
EXTENDS BackupScheduler, TLAPS

-----------------------------------------------------------------------------
(* The store *)

\* A step of the store, or of the scheduled job as far as the store sees it: the
\* job creates, sweeps with the retention of its schedule, and leaves.
Leave(j) ==
  /\ Goto(j, Idle)
  /\ \/ job[j].pc \in {"done", "threw"} /\ faults' = faults
     \/ Fault("crash")
  /\ UNCHANGED <<now, driver, rows, used, store, torn>>

CallerStep(j) ==
  \/ \E k \in Kinds : CreateRead(j, k)
  \/ "delete" \in allowed /\ \E id \in Ids : DeleteRead(j, id)
  \/ \E r, t : PruneSelect(j, r, t)
  \/ CreateStep(j) \/ DeleteStep(j) \/ Leave(j)

StoreStep == UNCHANGED allowed /\ ((\E j \in Jobs : CallerStep(j)) \/ ClockTick \/ SetDriver)

LEMMA StoreSteps == [StoreNext]_storeVars => [StoreStep]_storeVars
  BY DEF StoreNext, Request, ServiceStep, Return, CrashJob, Leave, CallerStep, StoreStep, Kinds

LEMMA StepCases ==
  ASSUME StoreStep
  PROVE  \/ \E j \in Jobs : \/ \E k \in Kinds : CreateRead(j, k)
                            \/ "delete" \in allowed /\ \E id \in Ids : DeleteRead(j, id)
                            \/ \E r, t : PruneSelect(j, r, t)
                            \/ CreateInsert(j) \/ CreateInsertFails(j)
                            \/ WriteArtifact(j) \/ WriteArtifactFails(j)
                            \/ MarkBackupComplete(j) \/ MarkBackupCompleteFails(j)
                            \/ MarkBackupFailed(j) \/ MarkBackupFailedFails(j)
                            \/ DeleteRow(j) \/ DeleteArtifact(j) \/ DeleteArtifactFails(j)
                            \/ DeleteThrows(j) \/ PruneNext(j) \/ Leave(j)
         \/ ClockTick \/ SetDriver
  BY DEF StoreStep, CallerStep, CreateStep, DeleteStep

-----------------------------------------------------------------------------
(* Types *)

\* The type of a caller's local variables, by program counter.
LEMMA JobByPc ==
  ASSUME NEW x \in Job
  PROVE  /\ x.pc = "insert" => x.kind \in Kinds /\ x.driver \in Drivers
         /\ x.pc \in {"write", "complete", "fail"} =>
              /\ x.id \in Ids /\ x.driver \in Drivers
              /\ x = Holding(x.pc, x.id, x.driver)
         /\ x.pc \in {"deleteRow", "deleteArtifact"} =>
              /\ x.id \in Ids /\ x.row \in Row /\ x.todo \in SUBSET Ids /\ x.sweep \in BOOLEAN
              /\ x = Deleting(x.pc, x.id, x.row, x.todo, x.sweep)
         /\ x.pc = "sweep" => x.todo \in SUBSET Ids
  BY DEF Job, Idle, Holding, Deleting

\* The local variables the actions build are of that type.
LEMMA JobBuilt ==
  /\ Idle \in Job /\ [pc |-> "done"] \in Job /\ [pc |-> "threw"] \in Job
  /\ \A k \in Kinds, d \in Drivers : Creating("insert", k, d) \in Job
  /\ \A p \in {"write", "complete", "fail"}, id \in Ids, d \in Drivers : Holding(p, id, d) \in Job
  /\ \A p \in {"deleteRow", "deleteArtifact"}, id \in Ids, row \in Row, todo \in SUBSET Ids,
        s \in BOOLEAN : Deleting(p, id, row, todo, s) \in Job
  /\ \A todo \in SUBSET Ids : Sweeping(todo) \in Job
  BY DEF Job, Creating, Holding, Deleting, Sweeping

\* A step that sends j to a well-typed place leaves every caller well typed.
LEMMA GotoTyped ==
  ASSUME job \in [Jobs -> Job], NEW j \in Jobs, NEW x \in Job, Goto(j, x)
  PROVE  job' \in [Jobs -> Job]
  BY DEF Goto

LEMMA FaultTyped ==
  ASSUME faults \in 0..MaxFaults, NEW kind, Fault(kind)
  PROVE  faults' \in 0..MaxFaults
  BY JobsAssumption DEF Fault

\* A delete hands control back to something well typed.
LEMMA ReturnTyped ==
  ASSUME job \in [Jobs -> Job], NEW j \in Jobs,
         job[j].pc \in {"deleteRow", "deleteArtifact"}
  PROVE  Resume(j) \in Job /\ Rethrow(j) \in Job
  BY JobByPc, JobBuilt DEF Resume, Rethrow

LEMMA StoreTypeStep == StoreTypeOK /\ [StoreStep]_storeVars => StoreTypeOK'
<1> SUFFICES ASSUME StoreTypeOK, [StoreStep]_storeVars PROVE StoreTypeOK'
  OBVIOUS
<1>18. UNCHANGED allowed
  BY DEF StoreStep, storeVars
<1> USE <1>18 DEF StoreTypeOK
<1>1. ASSUME NEW j \in Jobs, NEW k \in Kinds, CreateRead(j, k) PROVE StoreTypeOK'
  <2>1. Creating("insert", k, driver) \in Job
    BY JobBuilt
  <2> QED BY <1>1, <2>1, GotoTyped DEF CreateRead
<1>2. ASSUME NEW j \in Jobs, NEW id \in Ids, DeleteRead(j, id) PROVE StoreTypeOK'
  <2>1. Deleting("deleteRow", id, rows[id], {}, FALSE) \in Job
    BY <1>2, JobBuilt DEF DeleteRead
  <2> QED BY <1>2, <2>1, GotoTyped DEF DeleteRead
<1>3. ASSUME NEW j \in Jobs, NEW r, NEW t, PruneSelect(j, r, t) PROVE StoreTypeOK'
  <2>1. Sweeping(Expired(r, t)) \in Job
    BY JobBuilt DEF Expired
  <2> QED BY <1>3, <2>1, GotoTyped DEF PruneSelect
<1>4. ASSUME NEW j \in Jobs, job[j].pc = "insert", NEW id \in Ids \ used, Inserted(j, id)
      PROVE  rows' \in [Ids -> Row \cup {NoRow}] /\ used' \in SUBSET Ids
  <2>1. job[j].kind \in Kinds /\ job[j].driver \in Drivers
    BY <1>4, JobByPc
  <2> QED BY <1>4, <2>1, JobsAssumption DEF Inserted, FreshRow, Row, Terminal
<1>5. ASSUME NEW j \in Jobs, CreateInsert(j) PROVE StoreTypeOK'
  <2>1. job[j].driver \in Drivers
    BY <1>5, JobByPc DEF CreateInsert
  <2>2. PICK id \in Ids \ used : Inserted(j, id) /\ Goto(j, Holding("write", id, job[j].driver))
    BY <1>5 DEF CreateInsert
  <2>3. Holding("write", id, job[j].driver) \in Job
    BY <2>1, JobBuilt
  <2>4. rows' \in [Ids -> Row \cup {NoRow}] /\ used' \in SUBSET Ids
    BY <1>4, <1>5, <2>2 DEF CreateInsert
  <2> QED BY <1>5, <2>2, <2>3, <2>4, GotoTyped DEF CreateInsert
<1>22. ASSUME NEW j \in Jobs, CreateInsertFails(j) PROVE StoreTypeOK'
  <2>1. rows' \in [Ids -> Row \cup {NoRow}] /\ used' \in SUBSET Ids
    BY <1>4, <1>22 DEF CreateInsertFails
  <2> QED BY <1>22, <2>1, JobBuilt, GotoTyped, FaultTyped DEF CreateInsertFails
<1>23. ASSUME NEW j \in Jobs, job[j].pc = "write"
       PROVE  /\ Artifact(j) \in Drivers \X Ids
              /\ \A pc \in {"complete", "fail"} : [job[j] EXCEPT !.pc = pc] \in Job
  <2>1. job[j].id \in Ids /\ job[j].driver \in Drivers
    BY <1>23, JobByPc
  <2>2. \A pc \in {"complete", "fail"} :
          [job[j] EXCEPT !.pc = pc] = Holding(pc, job[j].id, job[j].driver)
    BY <1>23, JobByPc DEF Holding
  <2> QED BY <2>1, <2>2, JobBuilt, JobsAssumption DEF Artifact
<1>24. ASSUME NEW j \in Jobs, WriteArtifact(j) PROVE StoreTypeOK'
  BY <1>23, <1>24, GotoTyped DEF WriteArtifact
<1>6. ASSUME NEW j \in Jobs, WriteArtifactFails(j) PROVE StoreTypeOK'
  <2>1. [job[j] EXCEPT !.pc = "fail"] \in Job /\ Artifact(j) \in Drivers \X Ids
    BY <1>6, <1>23 DEF WriteArtifactFails
  <2>2. job' \in [Jobs -> Job]
    BY <1>6, <2>1, GotoTyped DEF WriteArtifactFails
  <2> QED BY <1>6, <2>1, <2>2, FaultTyped DEF WriteArtifactFails
<1>7. ASSUME NEW j \in Jobs, NEW row, Finish(j, row), job[j].pc \in {"complete", "fail"},
             rows[job[j].id] # NoRow => row \in Row, UNCHANGED faults
      PROVE  StoreTypeOK'
  <2>1. job[j].id \in Ids
    BY <1>7, JobByPc
  <2>2. rows' \in [Ids -> Row \cup {NoRow}]
    BY <1>7, <2>1 DEF Finish
  <2>3. job' \in [Jobs -> Job]
    BY <1>7, JobBuilt, GotoTyped DEF Finish
  <2> QED BY <1>7, <2>2, <2>3 DEF Finish
<1>8. ASSUME NEW j \in Jobs, job[j].pc \in {"complete", "fail"}
      PROVE  rows[job[j].id] # NoRow => Completed(j) \in Row /\ Failed(j) \in Row
  <2> SUFFICES ASSUME rows[job[j].id] # NoRow PROVE Completed(j) \in Row /\ Failed(j) \in Row
    OBVIOUS
  <2>1. job[j].id \in Ids
    BY <1>8, JobByPc
  <2>2. rows[job[j].id] \in Row /\ (job[j].driver # "local") \in BOOLEAN
    BY <2>1
  <2>3. \A r \in Row, b \in BOOLEAN :
          /\ [r EXCEPT !.status = "complete", !.path = TRUE, !.key = b] \in Row
          /\ [r EXCEPT !.status = "failed", !.path = FALSE, !.key = FALSE] \in Row
    BY DEF Row, Terminal
  <2> QED BY <2>2, <2>3 DEF Completed, Failed
<1>9. ASSUME NEW j \in Jobs, MarkBackupComplete(j) \/ MarkBackupFailed(j) PROVE StoreTypeOK'
  BY <1>7, <1>8, <1>9 DEF MarkBackupComplete, MarkBackupFailed
<1>10. ASSUME NEW j \in Jobs, NEW row, FinishFails(j, row), job[j].pc \in {"complete", "fail"},
              rows[job[j].id] # NoRow => row \in Row
       PROVE  StoreTypeOK'
  <2>1. job[j].id \in Ids
    BY <1>10, JobByPc
  <2>2. rows' \in [Ids -> Row \cup {NoRow}]
    BY <1>10, <2>1 DEF FinishFails
  <2> QED BY <1>10, <2>2, JobBuilt, GotoTyped, FaultTyped DEF FinishFails
<1>11. ASSUME NEW j \in Jobs, MarkBackupCompleteFails(j) \/ MarkBackupFailedFails(j)
       PROVE  StoreTypeOK'
  BY <1>8, <1>10, <1>11 DEF MarkBackupCompleteFails, MarkBackupFailedFails
<1>12. ASSUME NEW j \in Jobs, DeleteRow(j) PROVE StoreTypeOK'
  <2>1. job[j].id \in Ids
    BY <1>12, JobByPc DEF DeleteRow
  <2>2. Resume(j) \in Job /\ Rethrow(j) \in Job
    BY <1>12, ReturnTyped DEF DeleteRow
  <2>3. [job[j] EXCEPT !.pc = "deleteArtifact"]
          = Deleting("deleteArtifact", job[j].id, job[j].row, job[j].todo, job[j].sweep)
    BY <1>12, JobByPc DEF DeleteRow, Deleting
  <2>4. [job[j] EXCEPT !.pc = "deleteArtifact"] \in Job
    BY <1>12, <2>3, JobByPc, JobBuilt DEF DeleteRow
  <2>5. job' \in [Jobs -> Job]
    BY <1>12, <2>2, <2>4, GotoTyped DEF DeleteRow
  <2> QED BY <1>12, <2>1, <2>5 DEF DeleteRow
<1>13. ASSUME NEW j \in Jobs, DeleteArtifact(j) PROVE StoreTypeOK'
  <2>1. Resume(j) \in Job
    BY <1>13, ReturnTyped DEF DeleteArtifact
  <2> QED BY <1>13, <2>1, GotoTyped DEF DeleteArtifact
<1>14. ASSUME NEW j \in Jobs, DeleteArtifactFails(j) PROVE StoreTypeOK'
  <2>1. Resume(j) \in Job /\ Rethrow(j) \in Job
    BY <1>14, ReturnTyped DEF DeleteArtifactFails
  <2>2. store' \in SUBSET (Drivers \X Ids)
    BY <1>14 DEF DeleteArtifactFails
  <2> QED BY <1>14, <2>1, <2>2, GotoTyped, FaultTyped DEF DeleteArtifactFails
<1>15. ASSUME NEW j \in Jobs, DeleteThrows(j) PROVE StoreTypeOK'
  <2>1. Rethrow(j) \in Job
    BY <1>15, ReturnTyped DEF DeleteThrows
  <2>2. rows' \in [Ids -> Row \cup {NoRow}]
    BY <1>15 DEF DeleteThrows
  <2> QED BY <1>15, <2>1, <2>2, GotoTyped, FaultTyped DEF DeleteThrows
<1>16. ASSUME NEW j \in Jobs, PruneNext(j) PROVE StoreTypeOK'
  <2>1. job[j].todo \in SUBSET Ids
    BY <1>16, JobByPc DEF PruneNext
  <2>2. CASE job[j].todo = {} /\ Goto(j, [pc |-> "done"])
    BY <1>16, <2>2, JobBuilt, GotoTyped DEF PruneNext
  <2>3. ASSUME NEW id \in job[j].todo,
               Goto(j, IF rows[id] = NoRow THEN Sweeping(job[j].todo \ {id})
                       ELSE Deleting("deleteRow", id, rows[id], job[j].todo \ {id}, TRUE))
        PROVE  StoreTypeOK'
    <3>1. (IF rows[id] = NoRow THEN Sweeping(job[j].todo \ {id})
           ELSE Deleting("deleteRow", id, rows[id], job[j].todo \ {id}, TRUE)) \in Job
      BY <2>1, JobBuilt
    <3> QED BY <1>16, <2>3, <3>1, GotoTyped DEF PruneNext
  <2> QED BY <1>16, <2>2, <2>3 DEF PruneNext
<1>17. ASSUME NEW j \in Jobs, Leave(j) PROVE StoreTypeOK'
  BY <1>17, JobBuilt, GotoTyped, FaultTyped DEF Leave
<1>19. CASE ClockTick
  BY <1>19, JobsAssumption DEF ClockTick
<1>20. CASE SetDriver
  BY <1>20 DEF SetDriver
<1>21. CASE UNCHANGED storeVars
  BY <1>21 DEF storeVars
<1> QED BY <1>1, <1>2, <1>3, <1>5, <1>6, <1>9, <1>11, <1>12, <1>13, <1>14, <1>15, <1>16, <1>17,
           <1>18, <1>19, <1>20, <1>21, <1>22, <1>24, StepCases

LEMMA StoreTypeInit == StoreInit => StoreTypeOK
  BY JobsAssumption, JobBuilt DEF StoreInit, StoreTypeOK

\* Rows, artifacts, and every caller's local variables keep their types.
THEOREM StoreTypeCorrect == StoreSpec => []StoreTypeOK
  BY StoreTypeInit, StoreTypeStep, StoreSteps, PTL DEF StoreSpec

-----------------------------------------------------------------------------
(* A complete row has its artifact *)

Stored(id) == \E d \in Drivers : <<d, id>> \in store

\* Inductive: uuids are not reused, so a delete that has removed its row is the only
\* call that may still remove the artifact, and the create that is about to complete
\* a row finds its artifact there unless the row is gone.
ArtifactInv ==
  /\ \A id \in Ids : rows[id] # NoRow => id \in used
  /\ \A id \in Ids : rows[id].status = "complete" => Stored(id)
  /\ \A j \in Jobs : job[j].pc \in {"write", "complete", "fail"} => job[j].id \in used
  /\ \A j \in Jobs : job[j].pc = "complete" /\ rows[job[j].id] # NoRow => Stored(job[j].id)
  /\ \A j \in Jobs : job[j].pc = "deleteArtifact" =>
                       job[j].id \in used /\ rows[job[j].id] = NoRow

\* The clauses of ArtifactInv that speak of callers hold of local variables x.
Sound(x) ==
  /\ x.pc \in {"write", "complete", "fail"} => x.id \in used
  /\ x.pc = "complete" /\ rows[x.id] # NoRow => Stored(x.id)
  /\ x.pc = "deleteArtifact" => x.id \in used /\ rows[x.id] = NoRow

\* A step that changes no table keeps the invariant if it sends j somewhere sound.
LEMMA ArtifactFrame ==
  ASSUME StoreTypeOK, ArtifactInv, NEW j \in Jobs, NEW x, Goto(j, x), Sound(x),
         UNCHANGED <<rows, used, store>>
  PROVE  ArtifactInv'
  BY DEF StoreTypeOK, ArtifactInv, Sound, Stored, Goto

\* What a caller goes to when it neither writes nor removes anything.
LEMMA Harmless ==
  ASSUME NEW x, x.pc \notin {"write", "complete", "fail", "deleteArtifact"}
  PROVE  Sound(x)
  BY DEF Sound

LEMMA ReturnHarmless ==
  ASSUME NEW j \in Jobs
  PROVE  /\ Resume(j).pc \notin {"write", "complete", "fail", "deleteArtifact"}
         /\ Rethrow(j).pc \notin {"write", "complete", "fail", "deleteArtifact"}
  BY DEF Resume, Rethrow, Sweeping

LEMMA ArtifactStep ==
  StoreTypeOK /\ ArtifactInv /\ [StoreStep]_storeVars => ArtifactInv'
<1> SUFFICES ASSUME StoreTypeOK, ArtifactInv, [StoreStep]_storeVars PROVE ArtifactInv'
  OBVIOUS
<1>1. ASSUME NEW j \in Jobs, NEW k \in Kinds, CreateRead(j, k) PROVE ArtifactInv'
  BY <1>1, ArtifactFrame, Harmless DEF CreateRead, Creating
<1>2. ASSUME NEW j \in Jobs, NEW id \in Ids, DeleteRead(j, id) PROVE ArtifactInv'
  BY <1>2, ArtifactFrame, Harmless DEF DeleteRead, Deleting
<1>3. ASSUME NEW j \in Jobs, NEW r, NEW t, PruneSelect(j, r, t) PROVE ArtifactInv'
  BY <1>3, ArtifactFrame, Harmless DEF PruneSelect, Sweeping
<1>4. ASSUME NEW j \in Jobs, NEW id \in Ids \ used, Inserted(j, id), UNCHANGED store,
             NEW x, Goto(j, x), x.pc \notin {"complete", "fail", "deleteArtifact"},
             x.pc = "write" => x.id = id
      PROVE  ArtifactInv'
  <2>1. used' = used \cup {id} /\ rows' = [rows EXCEPT ![id] = FreshRow(j)]
    BY <1>4 DEF Inserted
  <2>2. \A k \in Jobs : job[k].pc \in {"write", "complete", "fail", "deleteArtifact"} =>
                         job[k].id # id
    BY <2>1 DEF ArtifactInv
  <2>3. \A y \in Ids : y # id => rows'[y] = rows[y]
    BY <2>1 DEF StoreTypeOK
  <2>4. rows'[id].status = "running" /\ store' = store
    BY <1>4, <2>1 DEF StoreTypeOK, FreshRow
  <2>5. job'[j] = x /\ \A k \in Jobs \ {j} : job'[k] = job[k]
    BY <1>4 DEF StoreTypeOK, Goto
  <2>6. \A k \in Jobs : job[k].pc \in {"complete", "deleteArtifact"} => job[k].id \in Ids
    BY JobByPc DEF StoreTypeOK
  <2>7. \A y \in Ids : rows'[y] # NoRow => y \in used'
    BY <2>1, <2>3 DEF ArtifactInv
  <2>8. \A y \in Ids : rows'[y].status = "complete" => Stored(y)'
    BY <2>3, <2>4 DEF ArtifactInv, Stored
  <2>9. \A k \in Jobs : job'[k].pc \in {"write", "complete", "fail"} => job'[k].id \in used'
    BY <1>4, <2>1, <2>5 DEF ArtifactInv
  <2>10. \A k \in Jobs : job'[k].pc = "complete" /\ rows'[job'[k].id] # NoRow =>
                           \E d \in Drivers : <<d, job'[k].id>> \in store'
    BY <1>4, <2>2, <2>3, <2>4, <2>5, <2>6 DEF ArtifactInv, Stored
  <2>11. \A k \in Jobs : job'[k].pc = "deleteArtifact" =>
                           job'[k].id \in used' /\ rows'[job'[k].id] = NoRow
    BY <1>4, <2>1, <2>2, <2>3, <2>5, <2>6 DEF ArtifactInv
  <2> QED BY <2>7, <2>8, <2>9, <2>10, <2>11 DEF ArtifactInv, Stored
<1>19. ASSUME NEW j \in Jobs, CreateInsert(j) PROVE ArtifactInv'
  <2>1. PICK id \in Ids \ used : Inserted(j, id) /\ Goto(j, Holding("write", id, job[j].driver))
    BY <1>19 DEF CreateInsert
  <2>2. Holding("write", id, job[j].driver).pc = "write" /\ Holding("write", id, job[j].driver).id = id
    BY DEF Holding
  <2> QED BY <1>4, <1>19, <2>1, <2>2 DEF CreateInsert
<1>20. ASSUME NEW j \in Jobs, CreateInsertFails(j) PROVE ArtifactInv'
  <2>1. CASE UNCHANGED <<rows, used>>
    BY <1>20, <2>1, ArtifactFrame, Harmless DEF CreateInsertFails
  <2>2. ASSUME NEW id \in Ids \ used, Inserted(j, id) PROVE ArtifactInv'
    BY <1>4, <1>20, <2>2 DEF CreateInsertFails
  <2> QED BY <1>20, <2>1, <2>2 DEF CreateInsertFails
<1>5. ASSUME NEW j \in Jobs, WriteArtifact(j) PROVE ArtifactInv'
  <2>1. job[j].id \in Ids /\ job[j].id \in used
    BY <1>5, JobByPc DEF WriteArtifact, StoreTypeOK, ArtifactInv
  <2>2. job'[j].pc = "complete" /\ job'[j].id = job[j].id
    BY <1>5, JobByPc DEF WriteArtifact, StoreTypeOK, Goto, Holding
  <2>3. \A k \in Jobs \ {j} : job'[k] = job[k]
    BY <1>5 DEF WriteArtifact, StoreTypeOK, Goto
  <2>4. \E d \in Drivers : <<d, job[j].id>> \in store'
    BY <1>5, JobByPc, JobsAssumption DEF WriteArtifact, Artifact, Stored, StoreTypeOK
  <2>5. \A id : Stored(id) => Stored(id)'
    BY <1>5 DEF WriteArtifact, Stored
  <2> QED BY <1>5, <2>1, <2>2, <2>3, <2>4, <2>5 DEF ArtifactInv, WriteArtifact, Stored
<1>6. ASSUME NEW j \in Jobs, WriteArtifactFails(j) PROVE ArtifactInv'
  <2>1. [job[j] EXCEPT !.pc = "fail"] = Holding("fail", job[j].id, job[j].driver)
    BY <1>6, JobByPc DEF WriteArtifactFails, Holding, StoreTypeOK
  <2>2. job'[j] = Holding("fail", job[j].id, job[j].driver) /\ \A k \in Jobs \ {j} : job'[k] = job[k]
    BY <1>6, <2>1 DEF WriteArtifactFails, StoreTypeOK, Goto
  <2>3. job[j].id \in used /\ UNCHANGED <<rows, used>>
    BY <1>6 DEF WriteArtifactFails, ArtifactInv
  <2>4. \A id : Stored(id) => Stored(id)'
    BY <1>6 DEF WriteArtifactFails, Stored
  <2> QED BY <2>2, <2>3, <2>4 DEF ArtifactInv, Holding
<1>7. ASSUME NEW j \in Jobs, job[j].pc \in {"complete", "fail"}, UNCHANGED <<used, store>>,
             NEW x, x.pc \in {"done", "threw"}, Goto(j, x),
             NEW row, row # NoRow,
             \A id \in Ids : \/ rows'[id] = rows[id]
                             \/ id = job[j].id /\ rows[id] # NoRow /\ rows'[id] = row,
             row.status = "complete" => job[j].pc = "complete"
      PROVE  ArtifactInv'
  <2>1. job[j].id \in Ids
    BY <1>7, JobByPc DEF StoreTypeOK
  <2>2. \A k \in Jobs : k # j => job'[k] = job[k]
    BY <1>7 DEF StoreTypeOK, Goto
  <2>3. job'[j].pc \in {"done", "threw"}
    BY <1>7 DEF StoreTypeOK, Goto
  <2>4. \A id \in Ids : rows'[id] = NoRow <=> rows[id] = NoRow
    BY <1>7, <2>1 DEF StoreTypeOK
  <2>5. \A id \in Ids : rows'[id].status = "complete" => Stored(id)
    BY <1>7, <2>1 DEF StoreTypeOK, ArtifactInv
  <2>6. \A k \in Jobs : job[k].pc \in {"complete", "deleteArtifact"} => job[k].id \in Ids
    BY JobByPc DEF StoreTypeOK
  <2> QED BY <1>7, <2>2, <2>3, <2>4, <2>5, <2>6 DEF ArtifactInv, Stored
<1>8. ASSUME NEW j \in Jobs, NEW row, UNCHANGED <<used, store>>,
             NEW x, x.pc \in {"done", "threw"}, Goto(j, x),
             \/ job[j].pc = "complete" /\ row = Completed(j)
             \/ job[j].pc = "fail" /\ row = Failed(j),
             \/ rows' = rows
             \/ rows[job[j].id] # NoRow /\ rows' = [rows EXCEPT ![job[j].id] = row]
      PROVE  ArtifactInv'
  <2>0. /\ job[j].pc \in {"complete", "fail"} /\ UNCHANGED <<used, store>>
        /\ x.pc \in {"done", "threw"} /\ Goto(j, x)
    BY <1>8
  <2>1. CASE rows' = rows
    <3> DEFINE r == [status |-> "failed"]
    <3>1. r # NoRow /\ (r.status = "complete" => job[j].pc = "complete")
      BY DEF NoRow
    <3> HIDE DEF r
    <3> QED BY <1>7, <2>0, <2>1, <3>1
  <2>2. CASE rows[job[j].id] # NoRow /\ rows' = [rows EXCEPT ![job[j].id] = row]
    <3>1. job[j].id \in Ids /\ rows[job[j].id] \in Row
      BY <1>8, <2>2, JobByPc DEF StoreTypeOK
    <3>2. row # NoRow /\ (row.status = "complete" => job[j].pc = "complete")
      BY <1>8, <3>1 DEF Completed, Failed, Row, NoRow
    <3>3. \A id \in Ids : \/ rows'[id] = rows[id]
                          \/ id = job[j].id /\ rows[id] # NoRow /\ rows'[id] = row
      BY <2>2, <3>1 DEF StoreTypeOK
    <3> QED BY <1>7, <2>0, <3>2, <3>3
  <2> QED BY <1>8, <2>1, <2>2
<1>9. ASSUME NEW j \in Jobs, MarkBackupComplete(j) \/ MarkBackupFailed(j) PROVE ArtifactInv'
  <2>1. [pc |-> "done"].pc = "done" /\ [pc |-> "threw"].pc = "threw"
    OBVIOUS
  <2> QED BY <1>8, <1>9, <2>1 DEF MarkBackupComplete, MarkBackupFailed, Finish
<1>10. ASSUME NEW j \in Jobs, MarkBackupCompleteFails(j) \/ MarkBackupFailedFails(j)
       PROVE  ArtifactInv'
  BY <1>8, <1>10 DEF MarkBackupCompleteFails, MarkBackupFailedFails, FinishFails
<1>12. ASSUME NEW j \in Jobs, NEW x, Goto(j, x), x.pc \notin {"write", "complete", "fail"},
              job[j].pc = "deleteRow", UNCHANGED <<used, store>>,
              rows' = [rows EXCEPT ![job[j].id] = NoRow],
              x.pc = "deleteArtifact" => x.id = job[j].id /\ rows[job[j].id] # NoRow
       PROVE  ArtifactInv'
  <2>1. job[j].id \in Ids
    BY <1>12, JobByPc DEF StoreTypeOK
  <2>2. job'[j] = x /\ \A k \in Jobs : k # j => job'[k] = job[k]
    BY <1>12 DEF StoreTypeOK, Goto
  <2>4. rows'[job[j].id] = NoRow /\ \A id \in Ids : id # job[j].id => rows'[id] = rows[id]
    BY <1>12, <2>1 DEF StoreTypeOK
  <2>5. \A k \in Jobs : job[k].pc \in {"complete", "deleteArtifact"} => job[k].id \in Ids
    BY JobByPc DEF StoreTypeOK
  <2>6. used' = used /\ store' = store /\ NoRow.status = "none"
    BY <1>12 DEF NoRow
  <2>7. \A id \in Ids : rows'[id] # NoRow => rows'[id] = rows[id]
    BY <2>4
  <2>8. \A id \in Ids : rows[id] # NoRow => id \in used
    BY DEF ArtifactInv
  <2>9. \A k \in Jobs : job'[k].pc \in {"write", "complete", "fail"} => job'[k].id \in used'
    BY <1>12, <2>2, <2>6 DEF ArtifactInv
  <2>10. \A k \in Jobs : job'[k].pc = "complete" /\ rows'[job'[k].id] # NoRow =>
                           \E d \in Drivers : <<d, job'[k].id>> \in store'
    BY <1>12, <2>2, <2>5, <2>6, <2>7 DEF ArtifactInv, Stored
  <2>11. \A k \in Jobs : job'[k].pc = "deleteArtifact" =>
                           job'[k].id \in used' /\ rows'[job'[k].id] = NoRow
    BY <1>12, <2>1, <2>2, <2>4, <2>5, <2>6, <2>8 DEF ArtifactInv
  <2>12. \A id \in Ids : rows'[id].status = "complete" => Stored(id)'
    BY <2>4, <2>6 DEF ArtifactInv, Stored
  <2> QED BY <2>6, <2>7, <2>8, <2>9, <2>10, <2>11, <2>12 DEF ArtifactInv, Stored
<1>21. ASSUME NEW j \in Jobs, DeleteRow(j) PROVE ArtifactInv'
  <2> DEFINE x == IF rows[job[j].id] = NoRow THEN Rethrow(j)
                  ELSE IF job[j].row.path THEN [job[j] EXCEPT !.pc = "deleteArtifact"]
                  ELSE Resume(j)
  <2>1. job[j] = Deleting("deleteRow", job[j].id, job[j].row, job[j].todo, job[j].sweep)
    BY <1>21, JobByPc DEF DeleteRow, StoreTypeOK
  <2>2. /\ x.pc \notin {"write", "complete", "fail"}
        /\ x.pc = "deleteArtifact" => x.id = job[j].id /\ rows[job[j].id] # NoRow
    BY <2>1, ReturnHarmless DEF Deleting
  <2>3. Goto(j, x)
    BY <1>21 DEF DeleteRow
  <2> HIDE DEF x
  <2> QED BY <1>12, <1>21, <2>2, <2>3 DEF DeleteRow
<1>15. ASSUME NEW j \in Jobs, DeleteThrows(j) PROVE ArtifactInv'
  <2>1. CASE rows' = rows
    BY <1>15, <2>1, ReturnHarmless, ArtifactFrame, Harmless DEF DeleteThrows
  <2>2. CASE rows' = [rows EXCEPT ![job[j].id] = NoRow]
    BY <1>12, <1>15, <2>2, ReturnHarmless DEF DeleteThrows
  <2> QED BY <1>15, <2>1, <2>2 DEF DeleteThrows
<1>13. ASSUME NEW j \in Jobs, job[j].pc = "deleteArtifact", UNCHANGED <<rows, used>>,
              store' = store \ Removed(j), NEW x \in {Resume(j), Rethrow(j)}, Goto(j, x)
       PROVE  ArtifactInv'
  <2>1. job[j].id \in Ids /\ rows[job[j].id] = NoRow
    BY <1>13, JobByPc DEF StoreTypeOK, ArtifactInv
  <2>2. \A k \in Jobs : k # j => job'[k] = job[k]
    BY <1>13 DEF StoreTypeOK, Goto
  <2>3. job'[j].pc \notin {"write", "complete", "fail", "deleteArtifact"}
    BY <1>13, ReturnHarmless DEF StoreTypeOK, Goto
  <2>4. \A id \in Ids : rows[id] # NoRow /\ Stored(id) => Stored(id)'
    <3>1. \A e \in Removed(j) : e[2] = job[j].id
      BY DEF Removed
    <3> QED BY <1>13, <2>1, <3>1 DEF Stored
  <2>5. \A k \in Jobs : job[k].pc \in {"complete", "deleteArtifact"} => job[k].id \in Ids
    BY JobByPc DEF StoreTypeOK
  <2>6. NoRow.status = "none"
    BY DEF NoRow
  <2> QED BY <1>13, <2>1, <2>2, <2>3, <2>4, <2>5, <2>6 DEF ArtifactInv
<1>22. ASSUME NEW j \in Jobs, DeleteArtifact(j) PROVE ArtifactInv'
  BY <1>13, <1>22 DEF DeleteArtifact
<1>14. ASSUME NEW j \in Jobs, DeleteArtifactFails(j) PROVE ArtifactInv'
  <2>1. CASE store' = store
    BY <1>14, <2>1, ReturnHarmless, ArtifactFrame, Harmless DEF DeleteArtifactFails
  <2>2. CASE store' = store \ Removed(j)
    BY <1>13, <1>14, <2>2 DEF DeleteArtifactFails
  <2> QED BY <1>14, <2>1, <2>2 DEF DeleteArtifactFails
<1>16. ASSUME NEW j \in Jobs, PruneNext(j) PROVE ArtifactInv'
  <2>1. CASE Goto(j, [pc |-> "done"])
    BY <1>16, <2>1, ArtifactFrame, Harmless DEF PruneNext
  <2>2. ASSUME NEW id \in job[j].todo,
               Goto(j, IF rows[id] = NoRow THEN Sweeping(job[j].todo \ {id})
                       ELSE Deleting("deleteRow", id, rows[id], job[j].todo \ {id}, TRUE))
        PROVE  ArtifactInv'
    BY <1>16, <2>2, ArtifactFrame, Harmless DEF PruneNext, Sweeping, Deleting
  <2> QED BY <1>16, <2>1, <2>2 DEF PruneNext
<1>17. ASSUME NEW j \in Jobs, Leave(j) PROVE ArtifactInv'
  BY <1>17, ArtifactFrame, Harmless DEF Leave, Idle
<1>18. CASE ClockTick \/ SetDriver \/ UNCHANGED storeVars
  BY <1>18 DEF ClockTick, SetDriver, storeVars, ArtifactInv, Stored
<1> QED BY <1>1, <1>2, <1>3, <1>5, <1>6, <1>9, <1>10, <1>14, <1>15, <1>16, <1>17, <1>18, <1>19,
           <1>20, <1>21, <1>22, StepCases

LEMMA ArtifactInit == StoreInit => ArtifactInv
  BY DEF StoreInit, ArtifactInv, NoRow, Idle

\* A complete backup can always be fetched: no interleaving of creates, deletes,
\* sweeps, crashes and failed I/O leaves a complete row without an artifact.
THEOREM CompleteRowsHaveArtifacts == StoreSpec => []CompleteHasArtifact
<1>1. StoreSpec => []StoreTypeOK
  BY StoreTypeCorrect
<1>2. ArtifactInv => CompleteHasArtifact
  BY DEF ArtifactInv, CompleteHasArtifact, Stored
<1> QED BY <1>1, <1>2, ArtifactInit, ArtifactStep, StoreSteps, PTL DEF StoreSpec

-----------------------------------------------------------------------------
(* A finished row stays finished *)

\* x is in the middle of a create.
Writes(x) == x.pc \in {"write", "complete", "fail"}

\* The row id is there no longer, or is finished, and will not run again.
Settled(id, rs, us) == id \in us /\ rs[id].status # "running"

\* A create holds a row that is not finished; a sweep holds rows that are settled.
Ends(x, rs, us) ==
  /\ Writes(x) => rs[x.id].status \notin Terminal
  /\ x.pc = "sweep" => \A id \in x.todo : Settled(id, rs, us)
  /\ x.pc \in {"deleteRow", "deleteArtifact"} /\ x.sweep =>
       Settled(x.id, rs, us) /\ \A id \in x.todo : Settled(id, rs, us)

EndInv ==
  /\ \A j \in Jobs : Ends(job[j], rows, used)
  /\ \A j, k \in Jobs : Writes(job[j]) /\ Writes(job[k]) /\ j # k => job[j].id # job[k].id

\* What a step of j has to preserve.
LEMMA EndFrame ==
  ASSUME StoreTypeOK, EndInv, NEW j \in Jobs,
         \A k \in Jobs \ {j} : job'[k] = job[k],
         \A id \in Ids : Settled(id, rows, used) => Settled(id, rows', used'),
         \A k \in Jobs \ {j} : Writes(job[k]) => rows'[job[k].id].status \notin Terminal,
         Ends(job'[j], rows', used'),
         Writes(job'[j]) => \A k \in Jobs \ {j} : Writes(job[k]) => job[k].id # job'[j].id
  PROVE  EndInv'
<1>1. ASSUME NEW k \in Jobs \ {j} PROVE Ends(job'[k], rows', used')
  <2>1. /\ job[k].pc \in {"deleteRow", "deleteArtifact"} => job[k].id \in Ids
        /\ job[k].pc \in {"deleteRow", "deleteArtifact", "sweep"} => job[k].todo \subseteq Ids
    BY JobByPc DEF StoreTypeOK
  <2>2. Ends(job[k], rows, used)
    BY DEF EndInv
  <2> QED BY <1>1, <2>1, <2>2 DEF Ends
<1> QED BY <1>1 DEF EndInv

\* A step that changes no table.
LEMMA EndQuiet ==
  ASSUME StoreTypeOK, EndInv, NEW j \in Jobs, NEW x, Goto(j, x), Ends(x, rows, used),
         Writes(x) => Writes(job[j]) /\ x.id = job[j].id,
         UNCHANGED <<rows, used>>
  PROVE  EndInv'
<1>1. job'[j] = x /\ \A k \in Jobs \ {j} : job'[k] = job[k]
  BY DEF StoreTypeOK, Goto
<1>2. \A k \in Jobs \ {j} : Writes(job[k]) => rows'[job[k].id].status \notin Terminal
  BY DEF EndInv, Ends
<1>3. Writes(x) => \A k \in Jobs \ {j} : Writes(job[k]) => job[k].id # x.id
  BY DEF EndInv
<1> QED BY <1>1, <1>2, <1>3, EndFrame

\* What a caller goes to when it holds no row.
LEMMA EndIdle ==
  ASSUME NEW x, x.pc \notin {"write", "complete", "fail", "deleteRow", "deleteArtifact", "sweep"}
  PROVE  Ends(x, rows, used) /\ ~Writes(x)
  BY DEF Ends, Writes

LEMMA EndReturn ==
  ASSUME StoreTypeOK, EndInv, NEW j \in Jobs, job[j].pc \in {"deleteRow", "deleteArtifact"},
         NEW x \in {Resume(j), Rethrow(j)}
  PROVE  Ends(x, rows, used) /\ ~Writes(x)
<1>1. Ends(job[j], rows, used)
  BY DEF EndInv
<1> QED BY <1>1 DEF Ends, Writes, Resume, Rethrow, Sweeping

\* The end of a create: its row is finished, unless it is gone or the answer was lost.
LEMMA EndFinish ==
  ASSUME StoreTypeOK, EndInv, NEW j \in Jobs, job[j].pc \in {"complete", "fail"},
         UNCHANGED used, NEW x, x.pc \in {"done", "threw"}, Goto(j, x),
         NEW row, row.status \in Terminal,
         \/ rows' = rows
         \/ rows[job[j].id] # NoRow /\ rows' = [rows EXCEPT ![job[j].id] = row]
  PROVE  /\ EndInv'
         /\ \A id \in Ids : rows[id].status \in Terminal => rows'[id] = rows[id]
         /\ \A id \in Ids : rows'[id] = NoRow => rows[id] = NoRow
<1>1. job[j].id \in Ids /\ rows[job[j].id].status \notin Terminal /\ Writes(job[j])
  BY JobByPc DEF StoreTypeOK, EndInv, Ends, Writes
<1>2. job'[j] = x /\ \A k \in Jobs \ {j} : job'[k] = job[k]
  BY DEF StoreTypeOK, Goto
<1>3. \A id \in Ids \ {job[j].id} : rows'[id] = rows[id]
  BY <1>1 DEF StoreTypeOK
<1>4. rows'[job[j].id] = rows[job[j].id] \/ rows'[job[j].id] = row
  BY <1>1 DEF StoreTypeOK
<1>5. \A id \in Ids : Settled(id, rows, used) => Settled(id, rows', used')
  BY <1>3, <1>4 DEF Settled, Terminal
<1>6. \A k \in Jobs \ {j} : Writes(job[k]) => rows'[job[k].id].status \notin Terminal
  <2>1. \A k \in Jobs \ {j} : Writes(job[k]) => job[k].id \in Ids \ {job[j].id}
    BY <1>1, JobByPc DEF StoreTypeOK, EndInv, Writes
  <2> QED BY <1>3, <2>1 DEF EndInv, Ends
<1>7. Ends(job'[j], rows', used') /\ ~Writes(job'[j])
  BY <1>2 DEF Ends, Writes
<1>8. EndInv'
  BY <1>2, <1>5, <1>6, <1>7, EndFrame
<1>9. row # NoRow
  BY DEF NoRow, Terminal
<1> QED BY <1>1, <1>3, <1>4, <1>8, <1>9

\* The insert of a row, whether or not its answer arrives.
LEMMA EndInsert ==
  ASSUME StoreTypeOK, ArtifactInv, EndInv, NEW j \in Jobs, NEW id \in Ids \ used, Inserted(j, id),
         NEW x, Goto(j, x),
         x.pc \notin {"complete", "fail", "deleteRow", "deleteArtifact", "sweep"},
         x.pc = "write" => x.id = id
  PROVE  EndInv' /\ \A i \in Ids : rows[i] # NoRow => rows'[i] = rows[i]
<1>1. used' = used \cup {id} /\ rows' = [rows EXCEPT ![id] = FreshRow(j)]
  BY DEF Inserted
<1>2. /\ \A i \in Ids \ {id} : rows'[i] = rows[i]
      /\ rows'[id].status = "running"
      /\ job'[j] = x
      /\ \A k \in Jobs \ {j} : job'[k] = job[k]
  BY <1>1 DEF StoreTypeOK, FreshRow, Goto
<1>3. \A k \in Jobs : Writes(job[k]) => job[k].id # id /\ job[k].id \in Ids
  BY <1>1, JobByPc DEF ArtifactInv, Writes, StoreTypeOK
<1>4. \A i \in Ids : Settled(i, rows, used) => Settled(i, rows', used')
  BY <1>1, <1>2 DEF Settled
<1>5. \A k \in Jobs \ {j} : Writes(job[k]) => rows'[job[k].id].status \notin Terminal
  BY <1>2, <1>3 DEF EndInv, Ends
<1>6. Ends(job'[j], rows', used') /\ (Writes(job'[j]) => job'[j].id = id)
  BY <1>2 DEF Ends, Writes, Terminal
<1>7. EndInv'
  BY <1>2, <1>3, <1>4, <1>5, <1>6, EndFrame
<1> QED BY <1>1, <1>2, <1>7 DEF ArtifactInv

\* The removal of a row, whether or not its answer arrives.
LEMMA EndDelete ==
  ASSUME StoreTypeOK, ArtifactInv, EndInv, NEW j \in Jobs, job[j].pc = "deleteRow",
         rows' = [rows EXCEPT ![job[j].id] = NoRow], UNCHANGED used,
         NEW x \in {Resume(j), Rethrow(j), [job[j] EXCEPT !.pc = "deleteArtifact"]}, Goto(j, x)
  PROVE  /\ EndInv'
         /\ job[j].id \in Ids
         /\ \A id \in Ids : rows'[id] = IF id = job[j].id THEN NoRow ELSE rows[id]
         /\ job[j].sweep => rows[job[j].id].status # "running"
<1>1. /\ job[j].id \in Ids /\ job[j].pc = "deleteRow" /\ Ends(job[j], rows, used)
      /\ job[j] = Deleting("deleteRow", job[j].id, job[j].row, job[j].todo, job[j].sweep)
      /\ job[j].todo \subseteq Ids
  BY JobByPc DEF StoreTypeOK, EndInv
<1>2. /\ \A id \in Ids : rows'[id] = IF id = job[j].id THEN NoRow ELSE rows[id]
      /\ job'[j] = x /\ \A k \in Jobs \ {j} : job'[k] = job[k]
      /\ used' = used /\ NoRow.status = "none"
  BY <1>1 DEF StoreTypeOK, Goto, NoRow
<1>3. \A id \in Ids : Settled(id, rows, used) => Settled(id, rows', used')
  BY <1>2 DEF Settled
<1>4. \A k \in Jobs \ {j} : Writes(job[k]) => rows'[job[k].id].status \notin Terminal
  <2>1. \A k \in Jobs : Writes(job[k]) => job[k].id \in Ids
    BY JobByPc DEF StoreTypeOK, Writes
  <2> QED BY <1>2, <2>1 DEF EndInv, Ends, Terminal
<1>5. Ends(x, rows, used) /\ ~Writes(x)
  <2>1. CASE x \in {Resume(j), Rethrow(j)}
    BY <1>1, <2>1, EndReturn
  <2>2. CASE x = [job[j] EXCEPT !.pc = "deleteArtifact"]
    <3>1. x = Deleting("deleteArtifact", job[j].id, job[j].row, job[j].todo, job[j].sweep)
      BY <1>1, <2>2 DEF Deleting
    <3> QED BY <1>1, <3>1 DEF Ends, Writes, Deleting
  <2> QED BY <2>1, <2>2
<1>6. /\ x.pc \in {"deleteRow", "deleteArtifact"} => x.id \in Ids
      /\ x.pc \in {"deleteRow", "deleteArtifact", "sweep"} => x.todo \subseteq Ids
  <2>1. [job[j] EXCEPT !.pc = "deleteArtifact"]
          = Deleting("deleteArtifact", job[j].id, job[j].row, job[j].todo, job[j].sweep)
    BY <1>1 DEF Deleting
  <2>2. \/ x \in {Sweeping(job[j].todo), [pc |-> "done"], [pc |-> "threw"]}
        \/ x = Deleting("deleteArtifact", job[j].id, job[j].row, job[j].todo, job[j].sweep)
    BY <2>1 DEF Resume, Rethrow
  <2> QED BY <1>1, <2>2 DEF Sweeping, Deleting
<1>7. Ends(job'[j], rows', used')
  BY <1>2, <1>3, <1>5, <1>6 DEF Ends, Writes
<1>8. EndInv'
  BY <1>2, <1>3, <1>4, <1>5, <1>7, EndFrame
<1> QED BY <1>1, <1>2, <1>8 DEF Ends, Settled

\* A finished row stays until it is deleted, and a running one goes only when it is
\* deleted by name.
RowsEnd ==
  \A id \in Ids :
    /\ rows[id].status \in Terminal => rows'[id] \in {rows[id], NoRow}
    /\ rows[id].status = "running" /\ rows'[id] = NoRow =>
         \E j \in Jobs : job[j].pc = "deleteRow" /\ job[j].id = id /\ ~job[j].sweep

LEMMA EndStep ==
  StoreTypeOK /\ ArtifactInv /\ EndInv /\ [StoreStep]_storeVars => EndInv' /\ RowsEnd
<1> SUFFICES ASSUME StoreTypeOK, ArtifactInv, EndInv, [StoreStep]_storeVars
             PROVE  EndInv' /\ RowsEnd
  OBVIOUS
<1>0. NoRow.status \notin Terminal \cup {"running"}
  BY DEF NoRow, Terminal
<1>1. ASSUME UNCHANGED rows PROVE RowsEnd
  BY <1>0, <1>1 DEF RowsEnd
<1>2. ASSUME NEW j \in Jobs, NEW k \in Kinds, CreateRead(j, k) PROVE EndInv' /\ RowsEnd
  <2>1. LET x == Creating("insert", k, driver)
        IN  Ends(x, rows, used) /\ ~Writes(x)
    BY EndIdle DEF Creating
  <2> QED BY <1>1, <1>2, <2>1, EndQuiet DEF CreateRead
<1>3. ASSUME NEW j \in Jobs, NEW id \in Ids, DeleteRead(j, id) PROVE EndInv' /\ RowsEnd
  <2>1. LET x == Deleting("deleteRow", id, rows[id], {}, FALSE)
        IN  Ends(x, rows, used) /\ ~Writes(x)
    BY DEF Deleting, Ends, Writes
  <2> QED BY <1>1, <1>3, <2>1, EndQuiet DEF DeleteRead
<1>4. ASSUME NEW j \in Jobs, NEW r, NEW t, PruneSelect(j, r, t) PROVE EndInv' /\ RowsEnd
  <2>1. Ends(Sweeping(Expired(r, t)), rows, used) /\ ~Writes(Sweeping(Expired(r, t)))
    BY DEF Sweeping, Ends, Writes, Expired, Settled, ArtifactInv, Terminal
  <2> QED BY <1>1, <1>4, <2>1, EndQuiet DEF PruneSelect
<1>14. ASSUME NEW j \in Jobs, NEW id \in Ids \ used, Inserted(j, id), NEW x, Goto(j, x),
              x.pc \notin {"complete", "fail", "deleteRow", "deleteArtifact", "sweep"},
              x.pc = "write" => x.id = id
       PROVE  EndInv' /\ RowsEnd
  <2>1. EndInv' /\ \A i \in Ids : rows[i] # NoRow => rows'[i] = rows[i]
    BY <1>14, EndInsert
  <2> QED BY <1>0, <2>1 DEF RowsEnd
<1>5. ASSUME NEW j \in Jobs, CreateInsert(j) PROVE EndInv' /\ RowsEnd
  <2>1. PICK id \in Ids \ used : Inserted(j, id) /\ Goto(j, Holding("write", id, job[j].driver))
    BY <1>5 DEF CreateInsert
  <2>2. Holding("write", id, job[j].driver).pc = "write" /\ Holding("write", id, job[j].driver).id = id
    BY DEF Holding
  <2> QED BY <1>14, <2>1, <2>2
<1>6. ASSUME NEW j \in Jobs, WriteArtifact(j) \/ WriteArtifactFails(j) PROVE EndInv' /\ RowsEnd
  <2>1. PICK pc \in {"complete", "fail"} : Goto(j, [job[j] EXCEPT !.pc = pc])
    BY <1>6 DEF WriteArtifact, WriteArtifactFails
  <2>2. job[j].pc = "write" /\ UNCHANGED <<rows, used>>
    BY <1>6 DEF WriteArtifact, WriteArtifactFails
  <2>3. [job[j] EXCEPT !.pc = pc] = Holding(pc, job[j].id, job[j].driver)
    BY <2>2, JobByPc DEF StoreTypeOK, Holding
  <2>4. Ends(Holding(pc, job[j].id, job[j].driver), rows, used) /\ Writes(job[j])
    BY <2>2 DEF EndInv, Ends, Writes, Holding
  <2>5. Holding(pc, job[j].id, job[j].driver).id = job[j].id
    BY DEF Holding
  <2> QED BY <1>1, <2>1, <2>2, <2>3, <2>4, <2>5, EndQuiet
<1>7. ASSUME NEW j \in Jobs, \/ MarkBackupComplete(j) \/ MarkBackupCompleteFails(j)
                             \/ MarkBackupFailed(j) \/ MarkBackupFailedFails(j)
      PROVE  EndInv' /\ RowsEnd
  <2>1. job[j].id \in Ids /\ job[j].pc \in {"complete", "fail"} /\ UNCHANGED used
    BY <1>7, JobByPc DEF MarkBackupComplete, MarkBackupCompleteFails, MarkBackupFailed,
                         MarkBackupFailedFails, Finish, FinishFails, StoreTypeOK
  <2>2. PICK x : x.pc \in {"done", "threw"} /\ Goto(j, x)
    BY <1>7 DEF MarkBackupComplete, MarkBackupCompleteFails, MarkBackupFailed,
                MarkBackupFailedFails, Finish, FinishFails
  <2>3. \E row : /\ row.status \in Terminal
                 /\ \/ rows' = rows
                    \/ rows[job[j].id] # NoRow /\ rows' = [rows EXCEPT ![job[j].id] = row]
    <3>1. CASE rows' = rows
      <4>1. [status |-> "failed"].status \in Terminal
        BY DEF Terminal
      <4> QED BY <3>1, <4>1
    <3>2. CASE rows' # rows
      <4>1. /\ rows[job[j].id] # NoRow
            /\ \/ rows' = [rows EXCEPT ![job[j].id] = Completed(j)]
               \/ rows' = [rows EXCEPT ![job[j].id] = Failed(j)]
        BY <1>7, <3>2 DEF MarkBackupComplete, MarkBackupCompleteFails, MarkBackupFailed,
                          MarkBackupFailedFails, Finish, FinishFails
      <4>2. Completed(j).status \in Terminal /\ Failed(j).status \in Terminal
        BY <2>1, <4>1 DEF StoreTypeOK, Row, Terminal, Completed, Failed
      <4> QED BY <4>1, <4>2
    <3> QED BY <3>1, <3>2
  <2>4. PICK row : /\ row.status \in Terminal
                   /\ \/ rows' = rows
                      \/ rows[job[j].id] # NoRow /\ rows' = [rows EXCEPT ![job[j].id] = row]
    BY <2>3
  <2>5. /\ EndInv'
        /\ \A id \in Ids : rows[id].status \in Terminal => rows'[id] = rows[id]
        /\ \A id \in Ids : rows'[id] = NoRow => rows[id] = NoRow
    BY <2>1, <2>2, <2>4, EndFinish
  <2> QED BY <1>0, <2>5 DEF RowsEnd
<1>8. ASSUME NEW j \in Jobs, CreateInsertFails(j) PROVE EndInv' /\ RowsEnd
  <2>1. Ends([pc |-> "threw"], rows, used) /\ ~Writes([pc |-> "threw"])
    BY EndIdle
  <2>2. Goto(j, [pc |-> "threw"])
    BY <1>8 DEF CreateInsertFails
  <2>3. CASE UNCHANGED <<rows, used>>
    BY <1>1, <2>1, <2>2, <2>3, EndQuiet
  <2>4. ASSUME NEW id \in Ids \ used, Inserted(j, id) PROVE EndInv' /\ RowsEnd
    BY <1>14, <2>2, <2>4
  <2> QED BY <1>8, <2>3, <2>4 DEF CreateInsertFails
<1>15. ASSUME NEW j \in Jobs, job[j].pc = "deleteRow", UNCHANGED used,
              rows' = [rows EXCEPT ![job[j].id] = NoRow],
              NEW x \in {Resume(j), Rethrow(j), [job[j] EXCEPT !.pc = "deleteArtifact"]}, Goto(j, x)
       PROVE  EndInv' /\ RowsEnd
  <2>1. job[j].sweep \in BOOLEAN
    BY <1>15, JobByPc DEF StoreTypeOK
  <2>2. /\ EndInv'
        /\ job[j].id \in Ids
        /\ \A id \in Ids : rows'[id] = IF id = job[j].id THEN NoRow ELSE rows[id]
        /\ job[j].sweep => rows[job[j].id].status # "running"
    BY <1>15, EndDelete
  <2> QED BY <1>0, <1>15, <2>1, <2>2 DEF RowsEnd
<1>9. ASSUME NEW j \in Jobs, DeleteRow(j) PROVE EndInv' /\ RowsEnd
  <2>1. PICK x \in {Resume(j), Rethrow(j), [job[j] EXCEPT !.pc = "deleteArtifact"]} : Goto(j, x)
    BY <1>9 DEF DeleteRow
  <2> QED BY <1>9, <1>15, <2>1 DEF DeleteRow
<1>16. ASSUME NEW j \in Jobs, DeleteThrows(j) PROVE EndInv' /\ RowsEnd
  <2>1. /\ job[j].pc = "deleteRow" /\ UNCHANGED used /\ Goto(j, Rethrow(j))
        /\ rows' = rows \/ rows' = [rows EXCEPT ![job[j].id] = NoRow]
    BY <1>16 DEF DeleteThrows
  <2>2. Ends(Rethrow(j), rows, used) /\ ~Writes(Rethrow(j))
    BY <2>1, EndReturn
  <2>3. CASE rows' = rows
    BY <1>1, <2>1, <2>2, <2>3, EndQuiet
  <2>4. CASE rows' = [rows EXCEPT ![job[j].id] = NoRow]
    BY <1>15, <2>1, <2>4
  <2> QED BY <2>1, <2>3, <2>4
<1>10. ASSUME NEW j \in Jobs, DeleteArtifact(j) \/ DeleteArtifactFails(j)
       PROVE  EndInv' /\ RowsEnd
  <2>1. /\ job[j].pc \in {"deleteRow", "deleteArtifact"} /\ UNCHANGED <<rows, used>>
        /\ Goto(j, Resume(j)) \/ Goto(j, Rethrow(j))
    BY <1>10 DEF DeleteArtifact, DeleteArtifactFails
  <2>2. /\ Ends(Resume(j), rows, used) /\ ~Writes(Resume(j))
        /\ Ends(Rethrow(j), rows, used) /\ ~Writes(Rethrow(j))
    BY <2>1, EndReturn
  <2> QED BY <1>1, <2>1, <2>2, EndQuiet
<1>11. ASSUME NEW j \in Jobs, PruneNext(j) PROVE EndInv' /\ RowsEnd
  <2>1. job[j].pc = "sweep" /\ Ends(job[j], rows, used) /\ UNCHANGED <<rows, used>>
    BY <1>11 DEF PruneNext, EndInv
  <2>2. CASE Goto(j, [pc |-> "done"])
    <3>1. Ends([pc |-> "done"], rows, used) /\ ~Writes([pc |-> "done"])
      BY EndIdle
    <3> QED BY <1>1, <2>1, <2>2, <3>1, EndQuiet
  <2>3. ASSUME NEW id \in job[j].todo,
               Goto(j, IF rows[id] = NoRow THEN Sweeping(job[j].todo \ {id})
                       ELSE Deleting("deleteRow", id, rows[id], job[j].todo \ {id}, TRUE))
        PROVE  EndInv' /\ RowsEnd
    <3>1. /\ Ends(Sweeping(job[j].todo \ {id}), rows, used)
          /\ ~Writes(Sweeping(job[j].todo \ {id}))
      BY <2>1 DEF Ends, Writes, Sweeping
    <3>2. LET x == Deleting("deleteRow", id, rows[id], job[j].todo \ {id}, TRUE)
          IN  Ends(x, rows, used) /\ ~Writes(x)
      BY <2>1 DEF Ends, Writes, Deleting
    <3> QED BY <1>1, <2>1, <2>3, <3>1, <3>2, EndQuiet
  <2> QED BY <1>11, <2>2, <2>3 DEF PruneNext
<1>12. ASSUME NEW j \in Jobs, Leave(j) PROVE EndInv' /\ RowsEnd
  <2>1. Ends(Idle, rows, used) /\ ~Writes(Idle)
    BY EndIdle DEF Idle
  <2> QED BY <1>1, <1>12, <2>1, EndQuiet DEF Leave
<1>13. CASE ClockTick \/ SetDriver \/ UNCHANGED storeVars
  BY <1>1, <1>13 DEF ClockTick, SetDriver, storeVars, EndInv
<1> QED BY <1>2, <1>3, <1>4, <1>5, <1>6, <1>7, <1>8, <1>9, <1>10, <1>11, <1>12, <1>13, <1>16,
           StepCases

LEMMA EndInit == StoreInit => EndInv
  BY EndIdle DEF StoreInit, EndInv, Idle

\* A finished backup is never reopened, failed afterwards or restamped, only deleted,
\* and a sweep deletes finished rows only, though it works from ids selected earlier.
THEOREM FinishedRowsStay == StoreSpec => RowsEndOnce
<1>1. StoreInit => StoreTypeOK /\ ArtifactInv /\ EndInv
  BY StoreTypeInit, ArtifactInit, EndInit
<1>2. StoreTypeOK /\ ArtifactInv /\ EndInv /\ [StoreStep]_storeVars
        => (StoreTypeOK /\ ArtifactInv /\ EndInv)' /\ RowsEnd
  BY StoreTypeStep, ArtifactStep, EndStep
<1>3. StoreSpec => [][RowsEnd]_storeVars
  BY <1>1, <1>2, StoreSteps, PTL DEF StoreSpec
<1> QED BY <1>3 DEF RowsEndOnce, RowsEnd

-----------------------------------------------------------------------------
(* What a calm environment orphans *)

\* A finished row says where its artifact is, or that there is none.
RowCalm(r, d) ==
  /\ r.driver = d
  /\ r.status = "complete" => r.path /\ r.key = (d # "local")
  /\ r.status = "failed" => ~r.path

\* A create has its row; a sweep knows its rows as they are, finished, until it deletes them.
JobCalm(x, d, rs) ==
  /\ x.pc \in {"insert", "write", "complete", "fail"} => x.driver = d
  /\ Writes(x) => rs[x.id].status = "running"
  /\ x.pc \in {"deleteRow", "deleteArtifact"} =>
       /\ x.sweep /\ RowCalm(x.row, d) /\ x.row.status \in Terminal
  /\ x.pc = "deleteRow" => rs[x.id] \in {x.row, NoRow}
  /\ x.pc = "deleteArtifact" => x.row.status = "complete"

\* An artifact is in the hands of the row that names it, of the create that will complete
\* the row, or of the delete that has removed it; or a failed write left it behind.
Keeps(x, id) == x.pc \in {"complete", "deleteArtifact"} /\ x.id = id

CalmInv ==
  Calm =>
    /\ store \subseteq {driver} \X used
    /\ \A id \in Ids : rows[id] # NoRow => RowCalm(rows[id], driver)
    /\ \A j \in Jobs : JobCalm(job[j], driver, rows)
    /\ \A id \in Ids : <<driver, id>> \in store =>
         \/ rows[id].status = "complete" \/ <<driver, id>> \in torn
         \/ \E j \in Jobs : Keeps(job[j], id)

LEMMA CalmInit == StoreInit => CalmInv
  BY DEF StoreInit, CalmInv, JobCalm, Idle, Writes

\* A step of j that changes no table.
LEMMA CalmQuiet ==
  ASSUME StoreTypeOK, CalmInv, Calm, NEW j \in Jobs, NEW x, Goto(j, x),
         JobCalm(x, driver, rows), job[j].pc \notin {"complete", "deleteArtifact"},
         UNCHANGED <<driver, rows, used, store, torn>>
  PROVE  CalmInv'
<1>1. job'[j] = x /\ \A k \in Jobs \ {j} : job'[k] = job[k]
  BY DEF StoreTypeOK, Goto
<1>2. \A k \in Jobs : JobCalm(job'[k], driver', rows')
  BY <1>1 DEF CalmInv, JobCalm, RowCalm
<1>3. \A id : (\E k \in Jobs : Keeps(job[k], id)) => \E k \in Jobs : Keeps(job'[k], id)
  BY <1>1 DEF Keeps
<1> QED BY <1>2, <1>3 DEF CalmInv, RowCalm, JobCalm

LEMMA CalmInsert ==
  ASSUME StoreTypeOK, ArtifactInv, EndInv, CalmInv, Calm, NEW j \in Jobs, CreateInsert(j)
  PROVE  CalmInv'
<1>1. PICK id \in Ids \ used :
        /\ used' = used \cup {id}
        /\ rows' = [rows EXCEPT ![id] = FreshRow(j)]
        /\ Goto(j, Holding("write", id, job[j].driver))
  BY DEF CreateInsert, Inserted
<1>2. /\ \A i \in Ids \ {id} : rows'[i] = rows[i]
      /\ rows'[id] = FreshRow(j)
      /\ job'[j] = Holding("write", id, job[j].driver)
      /\ \A k \in Jobs \ {j} : job'[k] = job[k]
      /\ store' = store /\ torn' = torn /\ driver' = driver /\ rows[id] = NoRow
  BY <1>1 DEF StoreTypeOK, Goto, CreateInsert, ArtifactInv
<1>3. job[j].pc = "insert" /\ job[j].driver = driver
  BY DEF CreateInsert, CalmInv, JobCalm
<1>4. RowCalm(FreshRow(j), driver) /\ FreshRow(j).status = "running" /\ NoRow.status = "none"
  BY <1>3 DEF RowCalm, FreshRow, NoRow
<1>5. \A k \in Jobs \ {j} : JobCalm(job'[k], driver', rows')
  <2> TAKE k \in Jobs \ {j}
  <2>1. JobCalm(job[k], driver, rows)
    BY DEF CalmInv
  <2>2. Writes(job[k]) => job[k].id \in Ids /\ job[k].id # id
    BY <1>1, JobByPc DEF ArtifactInv, Writes, StoreTypeOK
  <2>3. job[k].pc = "deleteRow" => job[k].id \in Ids
    BY JobByPc DEF StoreTypeOK
  <2>4. job[k].pc = "deleteRow" => job[k].id # id
    BY <1>1, <2>1 DEF JobCalm, EndInv, Ends, Settled
  <2> QED BY <1>2, <2>1, <2>2, <2>3, <2>4 DEF JobCalm, RowCalm
<1>6. JobCalm(job'[j], driver', rows')
  BY <1>1, <1>2, <1>3, <1>4 DEF JobCalm, Holding, Writes, CalmInv
<1>7. \A i \in Ids : rows'[i] # NoRow => RowCalm(rows'[i], driver')
  BY <1>2, <1>4 DEF CalmInv, RowCalm
<1>8. \A i \in Ids : <<driver, i>> \in store =>
        \/ rows'[i].status = "complete" \/ <<driver, i>> \in torn
        \/ \E k \in Jobs : Keeps(job'[k], i)
  <2> SUFFICES ASSUME NEW i \in Ids, <<driver, i>> \in store, <<driver, i>> \notin torn
               PROVE  rows'[i].status = "complete" \/ \E k \in Jobs : Keeps(job'[k], i)
    OBVIOUS
  <2>1. i # id
    BY <1>1 DEF CalmInv
  <2>2. rows[i].status = "complete" \/ \E k \in Jobs : Keeps(job[k], i)
    BY DEF CalmInv
  <2> QED BY <1>2, <1>3, <2>1, <2>2 DEF Keeps
<1>9. store' \subseteq {driver} \X used'
  BY <1>1, <1>2 DEF CalmInv
<1> QED BY <1>2, <1>5, <1>6, <1>7, <1>8, <1>9 DEF CalmInv

\* A step of j about one backup, and what it has to preserve.
LEMMA CalmFrame ==
  ASSUME CalmInv, Calm, UNCHANGED driver, NEW j \in Jobs, NEW id \in Ids,
         \A k \in Jobs \ {j} : job'[k] = job[k],
         \A i \in Ids \ {id} : rows'[i] = rows[i] /\ (<<driver, i>> \in store' => <<driver, i>> \in store),
         used' = used, store' \subseteq {driver} \X used, torn \subseteq torn',
         rows'[id] # NoRow => RowCalm(rows'[id], driver),
         JobCalm(job'[j], driver, rows'),
         \A k \in Jobs \ {j} : JobCalm(job[k], driver, rows'),
         \A i \in Ids \ {id} : ~Keeps(job[j], i),
         <<driver, id>> \in store' =>
           \/ rows'[id].status = "complete" \/ <<driver, id>> \in torn'
           \/ \E k \in Jobs : Keeps(job'[k], id)
  PROVE  CalmInv'
<1>1. \A i \in Ids \ {id} : <<driver, i>> \in store' =>
        \/ rows'[i].status = "complete" \/ <<driver, i>> \in torn'
        \/ \E k \in Jobs : Keeps(job'[k], i)
  BY DEF CalmInv
<1>2. \A i \in Ids : rows'[i] # NoRow => RowCalm(rows'[i], driver)
  BY DEF CalmInv
<1> QED BY <1>1, <1>2 DEF CalmInv

\* Two callers' rows differ, and a row that is being created is in no sweep.
LEMMA CalmApart ==
  ASSUME StoreTypeOK, ArtifactInv, EndInv, CalmInv, Calm, NEW j \in Jobs, NEW k \in Jobs \ {j},
         Writes(job[j])
  PROVE  Writes(job[k]) \/ job[k].pc \in {"deleteRow", "deleteArtifact"} => job[k].id # job[j].id
<1>1. rows[job[j].id].status = "running"
  BY DEF CalmInv, JobCalm
<1>2. job[k].pc = "deleteRow" => rows[job[k].id].status # "running"
  <2>1. JobCalm(job[k], driver, rows)
    BY DEF CalmInv
  <2> QED BY <2>1 DEF JobCalm, Terminal, NoRow
<1>3. job[k].pc = "deleteArtifact" => rows[job[k].id].status # "running"
  BY DEF ArtifactInv, NoRow
<1> QED BY <1>1, <1>2, <1>3 DEF EndInv

\* A write that stores its artifact, whether or not it is reported as failed.
LEMMA CalmWrite ==
  ASSUME StoreTypeOK, ArtifactInv, EndInv, CalmInv, Calm, NEW j \in Jobs, job[j].pc = "write",
         UNCHANGED <<driver, rows, used>>, store' = store \cup {Artifact(j)},
         torn' = torn \cup {Artifact(j)} \/ torn' = torn,
         NEW pc \in {"complete", "fail"}, Goto(j, [job[j] EXCEPT !.pc = pc]),
         pc = "fail" => Artifact(j) \in torn'
  PROVE  CalmInv'
<1> DEFINE id == job[j].id
<1>1. /\ id \in Ids /\ id \in used /\ job[j].driver = driver
      /\ Writes(job[j]) /\ rows[id].status = "running"
  BY JobByPc DEF StoreTypeOK, ArtifactInv, CalmInv, JobCalm, Writes
<1>2. Artifact(j) = <<driver, id>>
  BY <1>1 DEF Artifact
<1>3. job'[j] = Holding(pc, id, driver) /\ \A k \in Jobs \ {j} : job'[k] = job[k]
  BY <1>1, JobByPc DEF StoreTypeOK, Goto, Holding
<1>4. \A k \in Jobs \ {j} : JobCalm(job[k], driver, rows')
  BY DEF CalmInv
<1>5. JobCalm(job'[j], driver, rows')
  BY <1>1, <1>3 DEF JobCalm, Holding, Writes
<1>6. \A i \in Ids \ {id} : ~Keeps(job[j], i)
  BY DEF Keeps
<1>7. Keeps(job'[j], id) \/ <<driver, id>> \in torn'
  BY <1>2, <1>3 DEF Keeps, Holding
<1>8. store' \subseteq {driver} \X used
  BY <1>1, <1>2 DEF CalmInv
<1>9. rows'[id] # NoRow => RowCalm(rows'[id], driver)
  BY <1>1 DEF CalmInv
<1>10. \A i \in Ids \ {id} : rows'[i] = rows[i] /\ (<<driver, i>> \in store' => <<driver, i>> \in store)
  BY <1>2
<1> HIDE DEF id
<1> QED BY <1>1, <1>3, <1>4, <1>5, <1>6, <1>7, <1>8, <1>9, <1>10, CalmFrame

\* The update that ends a create.
LEMMA CalmFinish ==
  ASSUME StoreTypeOK, ArtifactInv, EndInv, CalmInv, Calm, NEW j \in Jobs,
         job[j].pc \in {"complete", "fail"}, UNCHANGED <<driver, used, store, torn>>,
         NEW x, x.pc = "done", Goto(j, x),
         NEW row, row # NoRow, RowCalm(row, driver),
         row.status = (IF job[j].pc = "complete" THEN "complete" ELSE "failed"),
         rows' = [rows EXCEPT ![job[j].id] = row]
  PROVE  CalmInv'
<1> DEFINE id == job[j].id
<1>1. id \in Ids /\ Writes(job[j]) /\ rows[id].status = "running"
  BY JobByPc DEF StoreTypeOK, CalmInv, JobCalm, Writes
<1>2. job'[j] = x /\ \A k \in Jobs \ {j} : job'[k] = job[k]
  BY DEF StoreTypeOK, Goto
<1>3. rows'[id] = row /\ \A i \in Ids \ {id} : rows'[i] = rows[i]
  BY <1>1 DEF StoreTypeOK
<1>4. \A k \in Jobs \ {j} : JobCalm(job[k], driver, rows')
  <2> TAKE k \in Jobs \ {j}
  <2>1. JobCalm(job[k], driver, rows)
    BY DEF CalmInv
  <2>2. Writes(job[k]) \/ job[k].pc = "deleteRow" => job[k].id # id /\ job[k].id \in Ids
    BY <1>1, CalmApart, JobByPc DEF StoreTypeOK, Writes
  <2> QED BY <1>3, <2>1, <2>2 DEF JobCalm
<1>5. JobCalm(job'[j], driver, rows') /\ \A i \in Ids \ {id} : ~Keeps(job[j], i)
  BY <1>2 DEF JobCalm, Writes, Keeps
<1>6. <<driver, id>> \in store' => rows'[id].status = "complete" \/ <<driver, id>> \in torn'
  <2> SUFFICES ASSUME <<driver, id>> \in store, job[j].pc = "fail", <<driver, id>> \notin torn
               PROVE  FALSE
    BY <1>3
  <2>1. PICK k \in Jobs : Keeps(job[k], id)
    BY <1>1 DEF CalmInv
  <2>2. k # j
    BY <2>1 DEF Keeps
  <2> QED BY <1>1, <2>1, <2>2, CalmApart DEF Keeps, Writes
<1>7. store' \subseteq {driver} \X used
  BY DEF CalmInv
<1> HIDE DEF id
<1> QED BY <1>1, <1>2, <1>3, <1>4, <1>5, <1>6, <1>7, CalmFrame

LEMMA CalmDeleteRow ==
  ASSUME StoreTypeOK, ArtifactInv, EndInv, CalmInv, Calm, NEW j \in Jobs, DeleteRow(j)
  PROVE  CalmInv'
<1> DEFINE id == job[j].id
           row == job[j].row
<1>1. /\ id \in Ids /\ job[j].pc = "deleteRow" /\ rows[id] \in {row, NoRow}
      /\ row.status \in Terminal /\ RowCalm(row, driver) /\ row \in Row /\ job[j].sweep
      /\ job[j] = Deleting("deleteRow", id, row, job[j].todo, job[j].sweep)
  BY JobByPc DEF DeleteRow, StoreTypeOK, CalmInv, JobCalm
<1>2. /\ rows'[id] = NoRow /\ \A i \in Ids \ {id} : rows'[i] = rows[i]
      /\ \A k \in Jobs \ {j} : job'[k] = job[k]
      /\ UNCHANGED <<driver, used, store, torn>> /\ NoRow.status = "none"
  BY <1>1 DEF DeleteRow, StoreTypeOK, Goto, NoRow
<1>3. job'[j] = IF rows[id] = NoRow \/ ~row.path THEN Sweeping(job[j].todo)
                ELSE Deleting("deleteArtifact", id, row, job[j].todo, job[j].sweep)
  <2>1. [job[j] EXCEPT !.pc = "deleteArtifact"]
          = Deleting("deleteArtifact", id, row, job[j].todo, job[j].sweep)
    <3>1. job[j] \in Job /\ job[j].pc = "deleteRow"
      BY <1>1 DEF StoreTypeOK
    <3> HIDE <1>1
    <3> QED BY <3>1, JobByPc DEF Deleting
  <2>2. Resume(j) = Sweeping(job[j].todo) /\ Rethrow(j) = Sweeping(job[j].todo)
    BY <1>1 DEF Resume, Rethrow
  <2>3. job'[j] = IF rows[id] = NoRow THEN Rethrow(j)
                  ELSE IF row.path THEN [job[j] EXCEPT !.pc = "deleteArtifact"] ELSE Resume(j)
    BY DEF DeleteRow, StoreTypeOK, Goto
  <2> QED BY <2>1, <2>2, <2>3
<1>4. \A k \in Jobs \ {j} : JobCalm(job[k], driver, rows')
  <2> TAKE k \in Jobs \ {j}
  <2>1. JobCalm(job[k], driver, rows)
    BY DEF CalmInv
  <2>2. Writes(job[k]) => job[k].id # id /\ job[k].id \in Ids
    BY <1>1, <2>1, JobByPc DEF StoreTypeOK, Writes, JobCalm, Terminal, NoRow
  <2>3. job[k].pc = "deleteRow" => job[k].id \in Ids
    BY JobByPc DEF StoreTypeOK
  <2> QED BY <1>2, <2>1, <2>2, <2>3 DEF JobCalm
<1>5. JobCalm(job'[j], driver, rows') /\ \A i \in Ids \ {id} : ~Keeps(job[j], i)
  <2>1. row.path => row.status = "complete"
    BY <1>1 DEF RowCalm, Terminal
  <2> QED BY <1>1, <1>3, <2>1 DEF JobCalm, Writes, Keeps, Sweeping, Deleting
<1>6. <<driver, id>> \in store' =>
        <<driver, id>> \in torn' \/ \E k \in Jobs : Keeps(job'[k], id)
  <2> SUFFICES ASSUME <<driver, id>> \in store, <<driver, id>> \notin torn
               PROVE  \E k \in Jobs : Keeps(job'[k], id)
    BY <1>2
  <2>1. rows[id].status = "complete" \/ \E k \in Jobs : Keeps(job[k], id)
    BY <1>1 DEF CalmInv
  <2>2. CASE rows[id].status = "complete"
    <3>1. job'[j] = Deleting("deleteArtifact", id, row, job[j].todo, job[j].sweep)
      BY <1>1, <1>2, <1>3, <2>2 DEF RowCalm
    <3> QED BY <3>1 DEF Keeps, Deleting
  <2>3. ASSUME NEW k \in Jobs, Keeps(job[k], id) PROVE \E m \in Jobs : Keeps(job'[m], id)
    BY <1>1, <1>2, <2>3 DEF Keeps
  <2> QED BY <2>1, <2>2, <2>3
<1>7. store' \subseteq {driver} \X used
  BY <1>2 DEF CalmInv
<1> HIDE DEF id, row
<1> QED BY <1>1, <1>2, <1>4, <1>5, <1>6, <1>7, CalmFrame

LEMMA CalmDeleteArtifact ==
  ASSUME StoreTypeOK, ArtifactInv, EndInv, CalmInv, Calm, NEW j \in Jobs, DeleteArtifact(j)
  PROVE  CalmInv'
<1> DEFINE id == job[j].id
           row == job[j].row
<1>1. /\ id \in Ids /\ job[j].pc = "deleteArtifact" /\ row.status = "complete"
      /\ row.key = (driver # "local") /\ row.driver = driver /\ job[j].sweep
  BY JobByPc DEF DeleteArtifact, StoreTypeOK, CalmInv, JobCalm, RowCalm
<1>2. /\ job'[j] = Sweeping(job[j].todo) /\ \A k \in Jobs \ {j} : job'[k] = job[k]
      /\ UNCHANGED <<driver, rows, used, torn>>
  BY <1>1 DEF DeleteArtifact, StoreTypeOK, Goto, Resume
<1>3. store' = store \ {<<driver, id>>}
  BY <1>1 DEF DeleteArtifact, Removed
<1>4. \A k \in Jobs \ {j} : JobCalm(job[k], driver, rows')
  BY <1>2 DEF CalmInv
<1>5. JobCalm(job'[j], driver, rows') /\ \A i \in Ids \ {id} : ~Keeps(job[j], i)
  BY <1>2 DEF JobCalm, Writes, Keeps, Sweeping
<1>6. store' \subseteq {driver} \X used
  BY <1>3 DEF CalmInv
<1>7. rows'[id] # NoRow => RowCalm(rows'[id], driver)
  BY <1>1, <1>2 DEF CalmInv
<1> HIDE DEF id, row
<1> QED BY <1>1, <1>2, <1>3, <1>4, <1>5, <1>6, <1>7, CalmFrame

LEMMA CalmStep ==
  /\ StoreTypeOK /\ ArtifactInv /\ EndInv /\ CalmInv
  /\ [StoreStep]_storeVars
  => CalmInv'
<1> SUFFICES ASSUME StoreTypeOK, ArtifactInv, EndInv, CalmInv, [StoreStep]_storeVars
             PROVE  CalmInv'
  OBVIOUS
<1>0. allowed' = allowed
  BY DEF StoreStep, storeVars
<1> SUFFICES ASSUME Calm PROVE CalmInv'
  BY <1>0 DEF CalmInv, Calm
<1>1. \A kind : Fault(kind) => kind \in {"create", "prune", "upload"}
  BY DEF Fault, Calm
<1>2. "delete" \notin allowed
  BY DEF Calm
<1>3. ASSUME NEW j \in Jobs, NEW k \in Kinds, CreateRead(j, k) PROVE CalmInv'
  <2>1. JobCalm(Creating("insert", k, driver), driver, rows)
    BY DEF JobCalm, Creating, Writes
  <2> QED BY <1>3, <2>1, CalmQuiet DEF CreateRead
<1>4. ASSUME NEW j \in Jobs, NEW r, NEW t, PruneSelect(j, r, t) PROVE CalmInv'
  <2>1. JobCalm(Sweeping(Expired(r, t)), driver, rows)
    BY DEF JobCalm, Sweeping, Writes
  <2> QED BY <1>4, <2>1, CalmQuiet DEF PruneSelect
<1>5. ASSUME NEW j \in Jobs, WriteArtifact(j) \/ WriteArtifactFails(j) PROVE CalmInv'
  <2>1. CASE UNCHANGED store /\ WriteArtifactFails(j) /\ UNCHANGED torn
    <3>1. /\ [job[j] EXCEPT !.pc = "fail"] = Holding("fail", job[j].id, job[j].driver)
          /\ job[j].pc = "write"
      BY <2>1, JobByPc DEF WriteArtifactFails, Holding, StoreTypeOK
    <3>2. JobCalm(Holding("fail", job[j].id, job[j].driver), driver, rows)
      BY <3>1 DEF CalmInv, JobCalm, Writes, Holding
    <3> QED BY <2>1, <3>1, <3>2, CalmQuiet DEF WriteArtifactFails
  <2>2. CASE WriteArtifact(j)
    <3>1. /\ job[j].pc = "write" /\ UNCHANGED <<driver, rows, used, torn>>
          /\ store' = store \cup {Artifact(j)} /\ Goto(j, [job[j] EXCEPT !.pc = "complete"])
      BY <2>2 DEF WriteArtifact
    <3>2. "complete" \in {"complete", "fail"}
      OBVIOUS
    <3> QED BY <3>1, <3>2, CalmWrite
  <2>3. CASE /\ WriteArtifactFails(j)
             /\ store' = store \cup {Artifact(j)} /\ torn' = torn \cup {Artifact(j)}
    <3>1. /\ job[j].pc = "write" /\ UNCHANGED <<driver, rows, used>>
          /\ Goto(j, [job[j] EXCEPT !.pc = "fail"])
      BY <2>3 DEF WriteArtifactFails
    <3> QED BY <2>3, <3>1, CalmWrite
  <2> QED BY <1>5, <2>1, <2>2, <2>3 DEF WriteArtifactFails
<1>6. ASSUME NEW j \in Jobs, MarkBackupComplete(j) \/ MarkBackupFailed(j) PROVE CalmInv'
  <2>1. /\ job[j].id \in Ids /\ job[j].pc \in {"complete", "fail"}
        /\ job[j].driver = driver /\ rows[job[j].id].status = "running"
    BY <1>6, JobByPc DEF MarkBackupComplete, MarkBackupFailed, StoreTypeOK, CalmInv, JobCalm, Writes
  <2>2. rows[job[j].id] # NoRow /\ rows[job[j].id] \in Row /\ rows[job[j].id].driver = driver
    BY <2>1 DEF StoreTypeOK, NoRow, CalmInv, RowCalm
  <2>3. Completed(j) # NoRow /\ RowCalm(Completed(j), driver) /\ Completed(j).status = "complete"
    BY <2>1, <2>2 DEF RowCalm, Row, NoRow, Completed
  <2>4. Failed(j) # NoRow /\ RowCalm(Failed(j), driver) /\ Failed(j).status = "failed"
    BY <2>1, <2>2 DEF RowCalm, Row, NoRow, Failed
  <2>5. /\ UNCHANGED <<driver, used, store, torn>> /\ Goto(j, [pc |-> "done"])
        /\ \/ job[j].pc = "complete" /\ rows' = [rows EXCEPT ![job[j].id] = Completed(j)]
           \/ job[j].pc = "fail" /\ rows' = [rows EXCEPT ![job[j].id] = Failed(j)]
    BY <1>6, <2>2 DEF MarkBackupComplete, MarkBackupFailed, Finish
  <2> QED BY <2>1, <2>3, <2>4, <2>5, CalmFinish
<1>7. ASSUME NEW j \in Jobs, PruneNext(j) PROVE CalmInv'
  <2>1. job[j].pc = "sweep" /\ Ends(job[j], rows, used)
        /\ UNCHANGED <<driver, rows, used, store, torn>>
    BY <1>7 DEF PruneNext, EndInv
  <2>2. CASE Goto(j, [pc |-> "done"])
    <3>1. JobCalm([pc |-> "done"], driver, rows)
      BY DEF JobCalm, Writes
    <3> QED BY <2>1, <2>2, <3>1, CalmQuiet
  <2>3. ASSUME NEW id \in job[j].todo,
               Goto(j, IF rows[id] = NoRow THEN Sweeping(job[j].todo \ {id})
                       ELSE Deleting("deleteRow", id, rows[id], job[j].todo \ {id}, TRUE))
        PROVE  CalmInv'
    <3>1. JobCalm(Sweeping(job[j].todo \ {id}), driver, rows)
      BY DEF JobCalm, Sweeping, Writes
    <3>2. id \in Ids /\ rows[id].status # "running"
      BY <2>1, JobByPc DEF StoreTypeOK, Ends, Settled
    <3>3. rows[id] # NoRow => rows[id].status \in Terminal /\ RowCalm(rows[id], driver)
      BY <3>2 DEF StoreTypeOK, Row, CalmInv
    <3>4. rows[id] # NoRow =>
            JobCalm(Deleting("deleteRow", id, rows[id], job[j].todo \ {id}, TRUE), driver, rows)
      BY <3>3 DEF JobCalm, Deleting, Writes
    <3> QED BY <2>1, <2>3, <3>1, <3>4, CalmQuiet
  <2> QED BY <1>7, <2>2, <2>3 DEF PruneNext
<1>8. ASSUME NEW j \in Jobs, Leave(j) PROVE CalmInv'
  <2>1. job[j].pc \in {"done", "threw"} /\ JobCalm(Idle, driver, rows)
    BY <1>1, <1>8 DEF Leave, JobCalm, Idle, Writes
  <2> QED BY <1>8, <2>1, CalmQuiet DEF Leave
<1>9. CASE ClockTick \/ SetDriver \/ UNCHANGED storeVars
  <2>1. UNCHANGED <<driver, rows, used, store, torn, job>>
    BY <1>9 DEF ClockTick, SetDriver, storeVars, Calm
  <2> QED BY <2>1 DEF CalmInv
<1>10. ASSUME NEW j \in Jobs
       PROVE  /\ ~CreateInsertFails(j) /\ ~MarkBackupCompleteFails(j) /\ ~MarkBackupFailedFails(j)
              /\ ~DeleteArtifactFails(j) /\ ~DeleteThrows(j)
  BY <1>1 DEF CreateInsertFails, MarkBackupCompleteFails, MarkBackupFailedFails, FinishFails,
              DeleteArtifactFails, DeleteThrows
<1> QED BY <1>2, <1>3, <1>4, <1>5, <1>6, <1>7, <1>8, <1>9, <1>10, StepCases,
           CalmInsert, CalmDeleteRow, CalmDeleteArtifact

\* Where callers create and sweep, and only writes fail, a write that failed is the only
\* thing that leaves an artifact behind: sweeps remove whole what rows name.
THEOREM ArtifactsAccounted == StoreSpec => []ArtifactAccounted
<1>1. StoreInit => StoreTypeOK /\ ArtifactInv /\ EndInv /\ CalmInv
  BY StoreTypeInit, ArtifactInit, EndInit, CalmInit
<1>2. StoreTypeOK /\ ArtifactInv /\ EndInv /\ CalmInv /\ [StoreNext]_storeVars
        => (StoreTypeOK /\ ArtifactInv /\ EndInv /\ CalmInv)'
  BY StoreSteps, StoreTypeStep, ArtifactStep, EndStep, CalmStep
<1>3. StoreTypeOK /\ ArtifactInv /\ EndInv /\ CalmInv => ArtifactAccounted
  <2> SUFFICES ASSUME StoreTypeOK, ArtifactInv, EndInv, CalmInv, Calm,
                      NEW d \in Drivers, NEW id \in Ids, <<d, id>> \in store \ torn, rows[id] = NoRow
               PROVE  \E j \in Jobs : job[j].pc = "deleteArtifact" /\ job[j].id = id
    BY DEF ArtifactAccounted
  <2>1. d = driver /\ rows[id].status = "none"
    BY DEF CalmInv, NoRow
  <2>2. PICK j \in Jobs : Keeps(job[j], id)
    BY <2>1 DEF CalmInv
  <2>3. job[j].pc # "complete"
    BY <2>1, <2>2 DEF CalmInv, JobCalm, Writes, Keeps
  <2> QED BY <2>2, <2>3 DEF Keeps
<1> QED BY <1>1, <1>2, <1>3, PTL DEF StoreSpec

-----------------------------------------------------------------------------
(* The scheduled job *)

\* The lock half of the type invariant, enough to update `run` pointwise.
LockTypeOK ==
  /\ run = [i \in Instances |-> run[i]]
  /\ lock \in Instances \cup {NoInstance}

\* Inductive: the program counters tell who holds the lock, and nobody else does.
LockInv ==
  /\ LockTypeOK
  /\ \A i \in Instances : InCriticalSection(i) <=> lock = i

LEMMA LockInvInit == Init => LockInv
  BY InstancesAssumption
  DEF Init, SchedulerInit, LockInv, LockTypeOK, InCriticalSection, NoInstance

LEMMA LockInvImpliesSingleFlight == LockInv => SingleFlight
  BY DEF LockInv, SingleFlight

\* A step that leaves lock and program counters alone keeps the invariant.
LEMMA LockInvFrame ==
  ASSUME LockInv, UNCHANGED <<run, lock>>
  PROVE  LockInv'
  BY DEF LockInv, LockTypeOK, InCriticalSection

\* A step of i's run that stays on its side of the lock keeps it too.
LEMMA LockInvStay ==
  ASSUME LockInv, UNCHANGED lock, NEW i \in Instances,
         run' = [run EXCEPT ![i] = run'[i]],
         InCriticalSection(i)' <=> InCriticalSection(i)
  PROVE  LockInv'
<1>1. \A k \in Instances : InCriticalSection(k)' <=> InCriticalSection(k)
  BY DEF LockInv, LockTypeOK, InCriticalSection
<1> QED BY <1>1 DEF LockInv, LockTypeOK

LEMMA LockInvStep == LockInv /\ [Next]_vars => LockInv'
<1> SUFFICES ASSUME LockInv, [Next]_vars PROVE LockInv'
  OBVIOUS
<1>1. ASSUME NEW i \in Instances, RunStep(i) PROVE LockInv'
  <2>1. CASE TickDue(i)
    BY <2>1, LockInvStay DEF TickDue, InCriticalSection, RunGoto, LockInv, LockTypeOK
  <2>2. CASE TickUnseeded(i)
    BY <2>2, LockInvStay DEF TickUnseeded, InCriticalSection, RunGoto, LockInv, LockTypeOK
  <2>3. CASE TickSeed(i)
    BY <2>3, LockInvStay DEF TickSeed, InCriticalSection, RunGoto, LockInv, LockTypeOK
  <2>4. CASE TryLock(i)
    <3>1. CASE lock = NoInstance
      BY <2>4, <3>1, InstancesAssumption
      DEF TryLock, LockInv, LockTypeOK, InCriticalSection, RunGoto, NoInstance
    <3>2. CASE lock # NoInstance
      BY <2>4, <3>2, LockInvStay DEF TryLock, InCriticalSection, RunGoto, LockInv, LockTypeOK
    <3> QED BY <3>1, <3>2
  <2>5. CASE Recheck(i)
    <3>1. PICK s \in Existing :
            \/ RunGoto(i, [pc |-> "backup", at |-> run[i].at, id |-> s, fresh |-> schedules[s]])
            \/ RunGoto(i, [pc |-> "unlock"])
      BY <2>5 DEF Recheck
    <3>2. run' = [run EXCEPT ![i] = run'[i]] /\ run'[i].pc \in {"backup", "unlock"}
      BY <3>1 DEF RunGoto, LockInv, LockTypeOK
    <3> QED BY <2>5, <3>2, LockInvStay DEF Recheck, InCriticalSection
  <2>6. CASE StartBackup(i)
    BY <2>6, LockInvStay DEF StartBackup, InCriticalSection, RunGoto, LockInv, LockTypeOK
  <2>7. CASE MarkRead(i)
    BY <2>7, LockInvStay DEF MarkRead, InCriticalSection, RunGoto, LockInv, LockTypeOK
  <2>8. CASE MarkWrite(i)
    BY <2>8, LockInvStay DEF MarkWrite, InCriticalSection, RunGoto, LockInv, LockTypeOK
  <2>9. CASE BackupThrew(i)
    BY <2>9, LockInvStay DEF BackupThrew, InCriticalSection, RunGoto, LockInv, LockTypeOK
  <2>10. CASE StartPrune(i)
    BY <2>10, LockInvStay DEF StartPrune, InCriticalSection, RunGoto, LockInv, LockTypeOK
  <2>11. CASE PruneDone(i)
    BY <2>11, LockInvStay DEF PruneDone, InCriticalSection, RunGoto, LockInv, LockTypeOK
  <2>12. CASE Unlock(i)
    BY <2>12, InstancesAssumption
    DEF Unlock, LockInv, LockTypeOK, InCriticalSection, RunGoto, NoInstance
  <2> QED BY <1>1, <2>1, <2>2, <2>3, <2>4, <2>5, <2>6, <2>7, <2>8, <2>9, <2>10, <2>11, <2>12
          DEF RunStep
<1>2. ASSUME NEW i \in Instances, Crash(i) PROVE LockInv'
  BY <1>2, InstancesAssumption
  DEF Crash, LockInv, LockTypeOK, InCriticalSection, RunGoto, NoInstance
<1>3. ASSUME NEW j \in Jobs, Service(j) PROVE LockInv'
  BY <1>3, LockInvFrame DEF Service, schedulerVars
<1>4. ASSUME NEW a \in Admins, EditStep(a) PROVE LockInv'
  BY <1>4, LockInvFrame DEF EditStep, EditUnseeded, EditSeed, EditRead, EditWrite
<1>5. ASSUME NEW a \in Admins, AdminStep(a) PROVE LockInv'
  BY <1>5, LockInvFrame DEF AdminStep, Service, schedulerVars
<1>6. CASE (ClockTick \/ SetDriver) /\ UNCHANGED schedulerVars
  BY <1>6, LockInvFrame DEF schedulerVars
<1>7. CASE UNCHANGED vars
  BY <1>7, LockInvFrame DEF vars, schedulerVars
<1> QED BY <1>1, <1>2, <1>3, <1>4, <1>5, <1>6, <1>7, InstancesAssumption DEF Next, Admins

\* Whatever crashes, fails or is edited, at most one process is inside its scheduled
\* run, and it is the session that holds the advisory lock.
THEOREM SingleFlightHolds == Spec => []SingleFlight
<1>1. Spec => []LockInv
  BY LockInvInit, LockInvStep, PTL DEF Spec
<1> QED BY <1>1, LockInvImpliesSingleFlight, PTL

-----------------------------------------------------------------------------
(* The job implements the abstract lock. *)

LEMMA InsideIsTheHolder == LockInv => Inside = (IF lock = NoInstance THEN {} ELSE {lock})
  BY InstancesAssumption DEF LockInv, LockTypeOK, Inside, NoInstance

LEMMA InsideIsTheHolderNext ==
  LockInv' => Inside' = (IF lock' = NoInstance THEN {} ELSE {lock'})
  BY InstancesAssumption DEF LockInv, LockTypeOK, Inside, NoInstance

\* Every step enters, leaves, or changes nothing the abstract lock sees.
LEMMA LockStepRefines == LockInv /\ LockInv' /\ [Next]_vars => [Lock!Next]_Inside
<1> SUFFICES ASSUME LockInv, LockInv', [Next]_vars PROVE Lock!Next \/ Inside' = Inside
  OBVIOUS
<1>1. CASE lock' = lock
  BY <1>1, InsideIsTheHolder, InsideIsTheHolderNext
<1>2. CASE lock' # lock
  <2>1. PICK i \in Instances : TryLock(i) \/ Unlock(i) \/ Crash(i)
    BY <1>2 DEF Next, vars, schedulerVars, RunStep, TickDue, TickUnseeded, TickSeed, Recheck,
         StartBackup, MarkRead, MarkWrite, BackupThrew, StartPrune, PruneDone, Service,
         EditStep, EditUnseeded, EditSeed, EditRead, EditWrite, AdminStep
  <2>2. CASE TryLock(i)
    <3>1. Inside = {} /\ Inside' = {i}
      BY <1>2, <2>2, InsideIsTheHolder, InsideIsTheHolderNext, InstancesAssumption DEF TryLock, NoInstance
    <3> QED BY <3>1 DEF Lock!Next, Lock!Enter
  <2>3. CASE Unlock(i)
    <3>1. Inside = {i} /\ Inside' = {}
      BY <1>2, <2>3, InsideIsTheHolder, InsideIsTheHolderNext, InstancesAssumption
      DEF Unlock, LockInv, InCriticalSection, NoInstance
    <3> QED BY <3>1 DEF Lock!Next, Lock!Leave
  <2>4. CASE Crash(i)
    <3>1. Inside = {i} /\ Inside' = {}
      BY <1>2, <2>4, InsideIsTheHolder, InsideIsTheHolderNext, InstancesAssumption DEF Crash, NoInstance
    <3> QED BY <3>1 DEF Lock!Next, Lock!Leave
  <2> QED BY <2>1, <2>2, <2>3, <2>4
<1> QED BY <1>1, <1>2

\* The detailed job, with its pre-check, re-check, store calls, crashes and edits,
\* implements the abstract single-flight lock.
THEOREM RefinesLock == Spec => LockSpec
<1>1. Init => Lock!Init
  BY DEF Init, SchedulerInit, Lock!Init, Inside, InCriticalSection
<1>2. Spec => []LockInv
  BY LockInvInit, LockInvStep, PTL DEF Spec
<1> QED BY <1>1, <1>2, LockStepRefines, PTL DEF Spec, LockSpec, Lock!Spec

-----------------------------------------------------------------------------
(* The store under the scheduled job *)

LEMMA SchedulerSteps == [Next]_vars => [StoreStep]_storeVars
<1> SUFFICES ASSUME Next PROVE [StoreStep]_storeVars
  BY DEF vars
<1>1. UNCHANGED allowed
  BY DEF Next
<1>2. ASSUME NEW i \in Instances, RunStep(i) PROVE [StoreStep]_storeVars
  <2>1. CASE \/ TickDue(i) \/ TickUnseeded(i) \/ TickSeed(i) \/ TryLock(i) \/ Recheck(i)
             \/ MarkWrite(i) \/ Unlock(i)
    BY <2>1 DEF TickDue, TickUnseeded, TickSeed, TryLock, Recheck, MarkWrite, Unlock
  <2>2. CASE StartBackup(i)
    BY <1>1, <2>2, InstancesAssumption DEF StartBackup, CallerStep, StoreStep, Kinds
  <2>3. CASE StartPrune(i)
    BY <1>1, <2>3, InstancesAssumption DEF StartPrune, CallerStep, StoreStep
  <2>4. CASE MarkRead(i) \/ PruneDone(i) \/ BackupThrew(i)
    BY <1>1, <2>4, InstancesAssumption
    DEF MarkRead, PruneDone, BackupThrew, Leave, CallerStep, StoreStep
  <2> QED BY <1>2, <2>1, <2>2, <2>3, <2>4 DEF RunStep
<1>3. ASSUME NEW i \in Instances, Crash(i) PROVE [StoreStep]_storeVars
  BY <1>1, <1>3, InstancesAssumption DEF Crash, Leave, CallerStep, StoreStep
<1>4. ASSUME NEW j \in Jobs, Service(j) PROVE [StoreStep]_storeVars
  BY <1>1, <1>4 DEF Service, ServiceStep, CallerStep, StoreStep
<1>5. ASSUME NEW a \in Admins, EditStep(a) PROVE [StoreStep]_storeVars
  BY <1>5 DEF EditStep, EditUnseeded, EditSeed, EditRead, EditWrite
<1>6. ASSUME NEW a \in Admins, AdminStep(a) PROVE [StoreStep]_storeVars
  BY <1>1, <1>4, <1>6
  DEF AdminStep, Admins, Request, Return, CrashJob, Leave, CallerStep, StoreStep, Kinds
<1> QED BY <1>1, <1>2, <1>3, <1>4, <1>5, <1>6, InstancesAssumption DEF Next, StoreStep

StoreInv == StoreTypeOK /\ ArtifactInv /\ EndInv

LEMMA StoreInvHolds == Spec => []StoreInv
<1>1. Init => StoreInv
  BY StoreTypeInit, ArtifactInit, EndInit DEF Init, StoreInv
<1>2. StoreInv /\ [Next]_vars => StoreInv'
  BY SchedulerSteps, StoreTypeStep, ArtifactStep, EndStep DEF StoreInv
<1> QED BY <1>1, <1>2, PTL DEF Spec

\* A complete backup can be fetched also when processes run the schedule beside the admins.
THEOREM ScheduledBackupsHaveArtifacts == Spec => []CompleteHasArtifact
<1>1. StoreInv => CompleteHasArtifact
  BY DEF StoreInv, ArtifactInv, CompleteHasArtifact, Stored
<1> QED BY <1>1, StoreInvHolds, PTL

\* Finished backups stay, and a sweep of the scheduled job takes no running one.
THEOREM ScheduledRowsStay == Spec => RowsEndOnce
<1>1. StoreInv /\ [Next]_vars => RowsEnd
  BY SchedulerSteps, EndStep DEF StoreInv
<1>2. RowsEnd \/ UNCHANGED storeVars => [RowsEnd]_storeVars
  OBVIOUS
<1>3. Spec => [][RowsEnd]_storeVars
  BY <1>1, <1>2, StoreInvHolds, PTL DEF Spec
<1> QED BY <1>3 DEF RowsEndOnce, RowsEnd

-----------------------------------------------------------------------------
(* One scheduled backup per due time *)

\* Where nobody deletes by name, only sweeps delete, and a create keeps its row.
NamedInv ==
  "delete" \notin allowed =>
    \A j \in Jobs : /\ job[j].pc \in {"deleteRow", "deleteArtifact"} => job[j].sweep
                    /\ Writes(job[j]) => rows[job[j].id] # NoRow

LEMMA NamedInit == StoreInit => NamedInv
<1> SUFFICES ASSUME StoreInit, NEW j \in Jobs
             PROVE  /\ job[j].pc \in {"deleteRow", "deleteArtifact"} => job[j].sweep
                    /\ Writes(job[j]) => rows[job[j].id] # NoRow
  BY DEF NamedInv
<1>1. job[j].pc = "idle"
  BY DEF StoreInit, Idle
<1> QED BY <1>1 DEF Writes

LEMMA NamedFrame ==
  ASSUME StoreInv, NamedInv, RowsEnd, "delete" \notin allowed, NEW j \in Jobs,
         \A k \in Jobs \ {j} : job'[k] = job[k],
         job'[j].pc \in {"deleteRow", "deleteArtifact"} => job'[j].sweep,
         Writes(job'[j]) => \/ Writes(job[j]) /\ job'[j].id = job[j].id
                            \/ rows'[job'[j].id] # NoRow
  PROVE  NamedInv'
<1>1. \A k \in Jobs : Writes(job[k]) => rows'[job[k].id] # NoRow
  <2> SUFFICES ASSUME NEW k \in Jobs, Writes(job[k]) PROVE rows'[job[k].id] # NoRow
    OBVIOUS
  <2>1. job[k].id \in Ids /\ rows[job[k].id].status = "running"
    BY JobByPc DEF StoreInv, StoreTypeOK, NamedInv, EndInv, Ends, Writes, Row
  <2> QED BY <2>1 DEF RowsEnd, NamedInv
<1> QED BY <1>1 DEF NamedInv

LEMMA NamedStep ==
  StoreInv /\ NamedInv /\ RowsEnd /\ [StoreStep]_storeVars => NamedInv'
<1> SUFFICES ASSUME StoreInv, NamedInv, RowsEnd, [StoreStep]_storeVars PROVE NamedInv'
  OBVIOUS
<1>0. allowed' = allowed
  BY DEF StoreStep, storeVars
<1> SUFFICES ASSUME "delete" \notin allowed PROVE NamedInv'
  BY <1>0 DEF NamedInv
<1>1. ASSUME NEW j \in Jobs, NEW x, Goto(j, x), ~Writes(x),
             x.pc \in {"deleteRow", "deleteArtifact"} => x.sweep
      PROVE  NamedInv'
  <2>1. job'[j] = x /\ \A k \in Jobs \ {j} : job'[k] = job[k]
    BY <1>1 DEF StoreInv, StoreTypeOK, Goto
  <2> QED BY <1>1, <2>1, NamedFrame
<1>2. ASSUME NEW x, x.pc \notin {"write", "complete", "fail", "deleteRow", "deleteArtifact"}
      PROVE  ~Writes(x) /\ (x.pc \in {"deleteRow", "deleteArtifact"} => x.sweep)
  BY <1>2 DEF Writes
<1>3. ASSUME NEW j \in Jobs
      PROVE  /\ Resume(j).pc \notin {"write", "complete", "fail", "deleteRow", "deleteArtifact"}
             /\ Rethrow(j).pc \notin {"write", "complete", "fail", "deleteRow", "deleteArtifact"}
  BY DEF Resume, Rethrow, Sweeping
<1>4. ASSUME NEW j \in Jobs, NEW k \in Kinds, CreateRead(j, k) PROVE NamedInv'
  BY <1>1, <1>2, <1>4 DEF CreateRead, Creating
<1>5. ASSUME NEW j \in Jobs, NEW r, NEW t, PruneSelect(j, r, t) PROVE NamedInv'
  BY <1>1, <1>2, <1>5 DEF PruneSelect, Sweeping
<1>6. ASSUME NEW j \in Jobs, CreateInsert(j) PROVE NamedInv'
  <2>1. PICK id \in Ids \ used :
          /\ rows' = [rows EXCEPT ![id] = FreshRow(j)]
          /\ Goto(j, Holding("write", id, job[j].driver))
    BY <1>6 DEF CreateInsert, Inserted
  <2>2. /\ rows'[id] # NoRow /\ job'[j] = Holding("write", id, job[j].driver)
        /\ \A k \in Jobs \ {j} : job'[k] = job[k]
    BY <2>1 DEF StoreInv, StoreTypeOK, Goto, FreshRow, NoRow
  <2> QED BY <2>2, NamedFrame DEF Holding
<1>7. ASSUME NEW j \in Jobs, WriteArtifact(j) \/ WriteArtifactFails(j) PROVE NamedInv'
  <2>1. PICK pc \in {"complete", "fail"} : Goto(j, [job[j] EXCEPT !.pc = pc])
    BY <1>7 DEF WriteArtifact, WriteArtifactFails
  <2>2. job[j].pc = "write" /\ Writes(job[j])
    BY <1>7 DEF WriteArtifact, WriteArtifactFails, Writes
  <2>3. [job[j] EXCEPT !.pc = pc] = Holding(pc, job[j].id, job[j].driver)
    BY <2>2, JobByPc DEF StoreInv, StoreTypeOK, Holding
  <2>4. /\ job'[j] = Holding(pc, job[j].id, job[j].driver)
        /\ \A k \in Jobs \ {j} : job'[k] = job[k]
    BY <2>1, <2>3 DEF StoreInv, StoreTypeOK, Goto
  <2> QED BY <2>2, <2>4, NamedFrame DEF Holding
<1>8. ASSUME NEW j \in Jobs, \/ MarkBackupComplete(j) \/ MarkBackupCompleteFails(j)
                             \/ MarkBackupFailed(j) \/ MarkBackupFailedFails(j)
                             \/ CreateInsertFails(j)
      PROVE  NamedInv'
  <2>1. PICK x : x.pc \in {"done", "threw"} /\ Goto(j, x)
    BY <1>8 DEF MarkBackupComplete, MarkBackupCompleteFails, MarkBackupFailed,
                MarkBackupFailedFails, CreateInsertFails, Finish, FinishFails
  <2> QED BY <1>1, <1>2, <2>1
<1>9. ASSUME NEW j \in Jobs, DeleteRow(j) PROVE NamedInv'
  <2>1. /\ job[j].pc = "deleteRow" /\ job[j].sweep
        /\ job[j] = Deleting("deleteRow", job[j].id, job[j].row, job[j].todo, job[j].sweep)
    BY <1>9, JobByPc DEF DeleteRow, StoreInv, StoreTypeOK, NamedInv
  <2>2. \/ Goto(j, Resume(j)) \/ Goto(j, Rethrow(j))
        \/ Goto(j, [job[j] EXCEPT !.pc = "deleteArtifact"])
    BY <1>9 DEF DeleteRow
  <2>3. [job[j] EXCEPT !.pc = "deleteArtifact"]
          = Deleting("deleteArtifact", job[j].id, job[j].row, job[j].todo, job[j].sweep)
    BY <1>9, JobByPc DEF DeleteRow, StoreInv, StoreTypeOK, Deleting
  <2>4. LET x == Deleting("deleteArtifact", job[j].id, job[j].row, job[j].todo, job[j].sweep)
        IN  ~Writes(x) /\ x.sweep
    BY <2>1 DEF Deleting, Writes
  <2> QED BY <1>1, <1>2, <1>3, <2>2, <2>3, <2>4
<1>10. ASSUME NEW j \in Jobs, DeleteArtifact(j) \/ DeleteArtifactFails(j) \/ DeleteThrows(j)
       PROVE  NamedInv'
  <2>1. Goto(j, Resume(j)) \/ Goto(j, Rethrow(j))
    BY <1>10 DEF DeleteArtifact, DeleteArtifactFails, DeleteThrows
  <2> QED BY <1>1, <1>2, <1>3, <2>1
<1>11. ASSUME NEW j \in Jobs, PruneNext(j) PROVE NamedInv'
  <2>1. CASE Goto(j, [pc |-> "done"])
    BY <1>1, <1>2, <2>1
  <2>2. ASSUME NEW id \in job[j].todo,
               Goto(j, IF rows[id] = NoRow THEN Sweeping(job[j].todo \ {id})
                       ELSE Deleting("deleteRow", id, rows[id], job[j].todo \ {id}, TRUE))
        PROVE  NamedInv'
    BY <1>1, <1>2, <2>2 DEF Sweeping, Deleting, Writes
  <2> QED BY <1>11, <2>1, <2>2 DEF PruneNext
<1>12. ASSUME NEW j \in Jobs, Leave(j) PROVE NamedInv'
  BY <1>1, <1>2, <1>12 DEF Leave, Idle
<1>13. CASE ClockTick \/ SetDriver \/ UNCHANGED storeVars
  BY <1>0, <1>13 DEF ClockTick, SetDriver, storeVars, NamedInv
<1> QED BY <1>4, <1>5, <1>6, <1>7, <1>8, <1>9, <1>10, <1>11, <1>12, <1>13, StepCases

\* Then a create that throws has been refused a statement.
LEMMA ThrowCosts ==
  ASSUME StoreInv, NamedInv, "delete" \notin allowed, NEW j \in Jobs, CreateStep(j) \/ DeleteStep(j),
         job'[j].pc = "threw"
  PROVE  faults' = faults + 1
<1>1. Writes(job[j]) => rows[job[j].id] # NoRow
  BY DEF NamedInv
<1>2. job[j].pc \in {"deleteRow", "deleteArtifact"} => job[j].sweep /\ job[j] \in Job
  BY DEF NamedInv, StoreInv, StoreTypeOK
<1>3. \A x : Goto(j, x) => job'[j] = x
  BY DEF Goto, StoreInv, StoreTypeOK
<1>4. CASE CreateInsert(j)
  BY <1>3, <1>4 DEF CreateInsert, Holding
<1>5. CASE WriteArtifact(j)
  <2>1. [job[j] EXCEPT !.pc = "complete"] = Holding("complete", job[j].id, job[j].driver)
    BY <1>5, JobByPc DEF WriteArtifact, StoreInv, StoreTypeOK, Holding
  <2> QED BY <1>3, <1>5, <2>1 DEF WriteArtifact, Holding
<1>6. CASE MarkBackupComplete(j) \/ MarkBackupFailed(j)
  BY <1>1, <1>3, <1>6 DEF MarkBackupComplete, MarkBackupFailed, Finish, Writes
<1>7. CASE \/ CreateInsertFails(j) \/ WriteArtifactFails(j)
           \/ MarkBackupCompleteFails(j) \/ MarkBackupFailedFails(j)
           \/ DeleteArtifactFails(j) \/ DeleteThrows(j)
  BY <1>7 DEF CreateInsertFails, WriteArtifactFails, MarkBackupCompleteFails,
              MarkBackupFailedFails, FinishFails, DeleteArtifactFails, DeleteThrows, Fault
<1>8. CASE DeleteRow(j)
  <2>1. [job[j] EXCEPT !.pc = "deleteArtifact"]
          = Deleting("deleteArtifact", job[j].id, job[j].row, job[j].todo, job[j].sweep)
    BY <1>8, JobByPc DEF DeleteRow, StoreInv, StoreTypeOK, Deleting
  <2> QED BY <1>2, <1>3, <1>8, <2>1 DEF DeleteRow, Resume, Rethrow, Sweeping, Deleting
<1>9. CASE DeleteArtifact(j)
  BY <1>2, <1>3, <1>9 DEF DeleteArtifact, Resume, Sweeping
<1>10. CASE PruneNext(j)
  <2>1. CASE Goto(j, [pc |-> "done"])
    BY <1>3, <2>1
  <2>2. ASSUME NEW id \in job[j].todo,
               Goto(j, IF rows[id] = NoRow THEN Sweeping(job[j].todo \ {id})
                       ELSE Deleting("deleteRow", id, rows[id], job[j].todo \ {id}, TRUE))
        PROVE  FALSE
    BY <1>3, <2>2 DEF Sweeping, Deleting
  <2> QED BY <1>10, <2>1, <2>2 DEF PruneNext
<1> QED BY <1>4, <1>5, <1>6, <1>7, <1>8, <1>9, <1>10 DEF CreateStep, DeleteStep

LEMMA StepOfOne ==
  ASSUME StoreInv, NEW j \in Jobs,
         CreateStep(j) \/ DeleteStep(j) \/ Request(j) \/ Return(j) \/ CrashJob(j)
  PROVE  /\ \A k \in Jobs \ {j} : job'[k] = job[k]
         /\ faults' = faults \/ faults' = faults + 1
<1>1. \A x : Goto(j, x) => \A k \in Jobs \ {j} : job'[k] = job[k]
  BY DEF Goto, StoreInv, StoreTypeOK
<1>2. CASE CreateStep(j)
  BY <1>1, <1>2 DEF CreateStep, CreateInsert, CreateInsertFails, WriteArtifact, WriteArtifactFails,
     MarkBackupComplete, MarkBackupCompleteFails, MarkBackupFailed, MarkBackupFailedFails,
     Finish, FinishFails, Fault
<1>3. CASE DeleteStep(j)
  BY <1>1, <1>3 DEF DeleteStep, DeleteRow, DeleteArtifact, DeleteArtifactFails, DeleteThrows,
     PruneNext, Fault
<1>4. CASE Request(j) \/ Return(j) \/ CrashJob(j)
  BY <1>1, <1>4 DEF Request, CreateRead, DeleteRead, PruneSelect, Return, CrashJob, Fault
<1> QED BY <1>2, <1>3, <1>4

\* A schedule that nobody edits.
Planned == [enabled : {TRUE}, frequency : Frequencies, retention : {DefaultRetention},
            nextRunAt : Nat, lastRunAt : Nat \cup {NoTime}]

\* What a run has read of the schedule is what is there, and was due.
RunOK(x, rows0) ==
  /\ x.pc \in {"lock", "recheck", "backup", "mark", "markWrite"} => x.at \in Nat
  /\ x.pc \in {"backup", "mark", "markWrite"} =>
       /\ x.id \in Schedules /\ rows0[x.id] # NoSchedule
       /\ x.fresh = rows0[x.id] /\ x.fresh.nextRunAt <= x.at
  /\ x.pc = "markWrite" => x.seen = x.fresh

\* A run has started a backup for s, and will advance the schedule unless it dies.
Settling(x, y, s) ==
  /\ x.pc \in {"mark", "markWrite"} /\ x.id = s
  /\ x.pc = "mark" => y.pc # "threw"

\* Inductive: the backups of the next due time are paid for by failures, but for the
\* one whose run is about to advance the schedule, and no later time was served.
ServeInv ==
  /\ edit = [a \in Admins |-> [pc |-> "idle"]]
  /\ schedules \in [Schedules -> Planned \cup {NoSchedule}]
  /\ \A i \in Instances : RunOK(run[i], schedules)
  /\ IsABag(served)
  /\ \A k \in DOMAIN served :
       /\ k \in Schedules \X Nat /\ schedules[k[1]] # NoSchedule
       /\ k[2] <= schedules[k[1]].nextRunAt
       /\ served[k] <= faults + 1
       /\ k[2] = schedules[k[1]].nextRunAt =>
            served[k] <= faults \/ \E i \in Instances : Settling(run[i], job[i], k[1])

LEMMA SeedPlanned == ASSUME NEW t \in Nat PROVE SeedRow(t) \in Planned /\ SeedRow(t) # NoSchedule
  BY PeriodAssumption DEF SeedRow, Planned, ComputeNextRunAt, NoTime, NoSchedule

Moved(r, at, next) == [r EXCEPT !.lastRunAt = at, !.nextRunAt = next]

LEMMA MovedPlanned ==
  ASSUME NEW r \in Planned, NEW at \in Nat, NEW next \in Nat
  PROVE  LET x == Moved(r, at, next)
         IN  x \in Planned /\ x # NoSchedule /\ x.nextRunAt = next
  BY DEF Planned, NoSchedule, Moved

LEMMA ServeInit == Init => ServeInv
<1> SUFFICES ASSUME Init PROVE ServeInv
  OBVIOUS
<1>1. schedules \in [Schedules -> Planned \cup {NoSchedule}]
  BY SeedPlanned DEF Init, SchedulerInit
<1>2. \A i \in Instances : RunOK(run[i], schedules)
  BY DEF Init, SchedulerInit, RunOK
<1>3. IsABag(served) /\ DOMAIN served = {}
  BY DEF Init, SchedulerInit, EmptyBag, SetToBag, IsABag
<1> QED BY <1>1, <1>2, <1>3 DEF ServeInv, Init, SchedulerInit

\* A step of one caller that leaves the schedules and the history alone.
LEMMA ServeFrame ==
  ASSUME StoreInv, ServeInv, NEW j \in Jobs, UNCHANGED <<schedules, edit, served>>,
         \A k \in Jobs \ {j} : job'[k] = job[k],
         \A i \in Instances \ {j} : run'[i] = run[i],
         faults' = faults \/ faults' = faults + 1,
         j \in Instances =>
           /\ RunOK(run'[j], schedules)
           /\ \A s \in Schedules : Settling(run[j], job[j], s) =>
                Settling(run'[j], job'[j], s) \/ faults' = faults + 1
  PROVE  ServeInv'
<1>1. \A i \in Instances : RunOK(run'[i], schedules')
  BY DEF ServeInv
<1>2. faults \in Nat
  BY DEF StoreInv, StoreTypeOK
<1>3. ASSUME NEW k \in DOMAIN served
      PROVE  /\ served[k] <= faults' + 1
             /\ k[2] = schedules[k[1]].nextRunAt =>
                  served[k] <= faults' \/ \E i \in Instances : Settling(run'[i], job'[i], k[1])
  <2>1. served[k] \in Nat /\ served[k] <= faults + 1 /\ k[1] \in Schedules
    BY DEF ServeInv, IsABag
  <2>2. ASSUME k[2] = schedules[k[1]].nextRunAt, faults' = faults, ~(served[k] <= faults)
        PROVE  \E i \in Instances : Settling(run'[i], job'[i], k[1])
    <3>1. PICK i \in Instances : Settling(run[i], job[i], k[1])
      BY <2>2 DEF ServeInv
    <3>2. CASE i = j
      BY <1>2, <2>1, <2>2, <3>1, <3>2
    <3>3. CASE i # j
      BY <3>1, <3>3, InstancesAssumption
    <3> QED BY <3>2, <3>3
  <2> QED BY <1>2, <2>1, <2>2
<1> QED BY <1>1, <1>3 DEF ServeInv

\* What StartBackup does to the history.
OneMore(B, k) == (IF k \in DOMAIN B THEN B[k] ELSE 0) + 1

Served(B, k) == B (+) SetToBag({k})

LEMMA ServeOnce ==
  ASSUME NEW B, NEW k, IsABag(B)
  PROVE  /\ IsABag(Served(B, k)) /\ DOMAIN Served(B, k) = DOMAIN B \cup {k}
         /\ \A x \in DOMAIN B \ {k} : Served(B, k)[x] = B[x]
         /\ Served(B, k)[k] = OneMore(B, k)
<1> DEFINE one == SetToBag({k})
           C == Served(B, k)
<1>1. one = [x \in {k} |-> 1]
  BY DEF SetToBag
<1>2. C = [x \in DOMAIN B \cup {k} |->
             (IF x \in DOMAIN B THEN B[x] ELSE 0) + (IF x \in {k} THEN 1 ELSE 0)]
  BY <1>1 DEF Served, (+)
<1>3. \A x \in DOMAIN B : B[x] \in Nat \ {0}
  BY DEF IsABag
<1> HIDE DEF one, C
<1>4. DOMAIN C = DOMAIN B \cup {k} /\ C = [x \in DOMAIN C |-> C[x]]
  BY <1>2
<1>5. \A x \in DOMAIN B \ {k} : C[x] = B[x]
  BY <1>2, <1>3
<1>6. C[k] = OneMore(B, k)
  BY <1>2 DEF OneMore
<1>7. \A x \in DOMAIN C : C[x] \in Nat \ {0}
  BY <1>3, <1>4, <1>5, <1>6 DEF OneMore
<1>8. IsABag(C)
  BY <1>4, <1>7 DEF IsABag
<1> QED BY <1>4, <1>5, <1>6, <1>8 DEF C

\* The holder of the lock is alone past it.
LEMMA AloneInside ==
  ASSUME LockInv, NEW i \in Instances, InCriticalSection(i), NEW k \in Instances \ {i}
  PROVE  run[k].pc \notin {"recheck", "backup", "mark", "markWrite"}
  BY DEF LockInv, InCriticalSection

LEMMA ServeBackup ==
  ASSUME LockInv, StoreInv, ServeInv, NEW i \in Instances, StartBackup(i)
  PROVE  ServeInv'
<1> DEFINE s == run[i].id
           t == schedules[s].nextRunAt
<1>1. /\ run[i].pc = "backup" /\ RunOK(run[i], schedules) /\ s \in Schedules
      /\ schedules[s] \in Planned /\ schedules[s] # NoSchedule /\ run[i].fresh = schedules[s]
      /\ t \in Nat
  BY DEF StartBackup, ServeInv, RunOK, Planned
<1>2. /\ run'[i] = [pc |-> "mark", at |-> run[i].at, id |-> s, fresh |-> run[i].fresh]
      /\ \A k \in Instances \ {i} : run'[k] = run[k]
  BY DEF StartBackup, RunGoto, LockInv, LockTypeOK
<1>3. /\ job'[i].pc = "insert" /\ \A k \in Jobs \ {i} : job'[k] = job[k]
      /\ faults' = faults /\ schedules' = schedules /\ edit' = edit
  BY InstancesAssumption DEF StartBackup, CreateRead, Creating, Goto, StoreInv, StoreTypeOK
<1>4. /\ IsABag(served') /\ DOMAIN served' = DOMAIN served \cup {<<s, t>>}
      /\ \A x \in DOMAIN served \ {<<s, t>>} : served'[x] = served[x]
      /\ served'[<<s, t>>] = (IF <<s, t>> \in DOMAIN served THEN served[<<s, t>>] ELSE 0) + 1
  <2>1. served' = served (+) SetToBag({<<s, t>>})
    BY <1>1 DEF StartBackup
  <2>2. IsABag(served)
    BY DEF ServeInv
  <2> HIDE DEF s, t
  <2>3. ASSUME NEW k, k = <<s, t>>
        PROVE  /\ IsABag(served') /\ DOMAIN served' = DOMAIN served \cup {k}
               /\ \A x \in DOMAIN served \ {k} : served'[x] = served[x]
               /\ served'[k] = OneMore(served, k)
    <3>1. served' = Served(served, k)
      BY <2>1, <2>3 DEF Served
    <3> QED BY <2>2, <3>1, ServeOnce
  <2> QED BY <2>3 DEF OneMore
<1>5. Settling(run'[i], job'[i], s)
  BY <1>2, <1>3 DEF Settling
<1>6. \A k \in Instances : ~Settling(run[k], job[k], s)
  <2>1. InCriticalSection(i)
    BY <1>1 DEF InCriticalSection
  <2> QED BY <1>1, <2>1, AloneInside DEF Settling
<1>7. \A k \in Instances : RunOK(run'[k], schedules)
  BY <1>1, <1>2 DEF ServeInv, RunOK
<1>8. faults \in Nat /\ \A k \in DOMAIN served : served[k] \in Nat
  BY DEF StoreInv, StoreTypeOK, ServeInv, IsABag
<1>9. ASSUME NEW k \in DOMAIN served'
      PROVE  /\ k \in Schedules \X Nat /\ schedules[k[1]] # NoSchedule
             /\ k[2] <= schedules[k[1]].nextRunAt
             /\ served'[k] <= faults + 1
             /\ k[2] = schedules[k[1]].nextRunAt =>
                  served'[k] <= faults \/ \E m \in Instances : Settling(run'[m], job'[m], k[1])
  <2>1. CASE k = <<s, t>>
    <3>1. <<s, t>> \in DOMAIN served => served[<<s, t>>] <= faults
      <4> SUFFICES ASSUME <<s, t>> \in DOMAIN served PROVE served[<<s, t>>] <= faults
        OBVIOUS
      <4>1. <<s, t>>[1] = s /\ <<s, t>>[2] = t
        OBVIOUS
      <4> HIDE DEF s
      <4> QED BY <1>6, <4>1 DEF ServeInv
    <3>2. served'[k] <= faults + 1
      BY <1>4, <1>8, <2>1, <3>1
    <3>3. k[1] = s /\ k[2] = t /\ k \in Schedules \X Nat
      BY <1>1, <2>1
    <3> QED BY <1>1, <1>5, <3>2, <3>3
  <2>2. CASE k # <<s, t>>
    <3>1. k \in DOMAIN served /\ served'[k] = served[k]
      BY <1>4, <2>2
    <3>2. (\E m \in Instances : Settling(run[m], job[m], k[1])) =>
             \E m \in Instances : Settling(run'[m], job'[m], k[1])
      <4> SUFFICES ASSUME NEW m \in Instances, Settling(run[m], job[m], k[1])
                   PROVE  Settling(run'[m], job'[m], k[1])
        OBVIOUS
      <4>1. m # i
        BY <1>1 DEF Settling
      <4> QED BY <1>2, <1>3, <4>1, InstancesAssumption
    <3> QED BY <3>1, <3>2 DEF ServeInv
  <2> QED BY <2>1, <2>2
<1> QED BY <1>3, <1>4, <1>7, <1>9 DEF ServeInv

\* The schedule moves on to a time that was never served.
LEMMA ServeMark ==
  ASSUME LockInv, StoreInv, ServeInv, NEW i \in Instances, MarkWrite(i)
  PROVE  ServeInv'
<1> DEFINE s == run[i].id
           next == [schedules[s] EXCEPT !.lastRunAt = run[i].at,
                      !.nextRunAt = ComputeNextRunAt(schedules[s].frequency, run[i].at)]
<1>1. /\ run[i].pc = "markWrite" /\ run[i].at \in Nat /\ s \in Schedules
      /\ schedules[s] \in Planned /\ schedules[s] # NoSchedule
      /\ run[i].seen = schedules[s] /\ schedules[s].nextRunAt <= run[i].at
  BY DEF MarkWrite, ServeInv, RunOK, Planned
<1>2. next \in Planned /\ next # NoSchedule /\ next.nextRunAt > schedules[s].nextRunAt
  <2> DEFINE old == schedules[s]
             at == run[i].at
             p == Period[old.frequency]
  <2>1. /\ old.enabled = TRUE /\ old.frequency \in Frequencies /\ old.retention = DefaultRetention
        /\ old.nextRunAt \in Nat
    BY <1>1 DEF Planned
  <2>2. p \in Nat \ {0}
    BY <2>1, PeriodAssumption
  <2>3. next \in Planned /\ next # NoSchedule /\ next.nextRunAt = at + p
    <3> DEFINE n == ComputeNextRunAt(old.frequency, at)
    <3>1. n = at + p /\ n \in Nat
      BY <1>1, <2>2 DEF ComputeNextRunAt
    <3> HIDE DEF n
    <3>2. next = Moved(old, at, n)
      BY DEF n, Moved
    <3>3. old \in Planned /\ at \in Nat
      BY <1>1
    <3> HIDE DEF next, old, at, p
    <3> QED BY <3>1, <3>2, <3>3, MovedPlanned
  <2> HIDE DEF next, at, p
  <2>4. at \in Nat /\ old.nextRunAt <= at
    BY <1>1 DEF at
  <2> QED BY <2>1, <2>2, <2>3, <2>4
<1>3. schedules' = [schedules EXCEPT ![s] = next]
  BY <1>1 DEF MarkWrite, ServeInv, Planned
<1> HIDE DEF next
<1>4. schedules'[s] = next /\ \A x \in Schedules \ {s} : schedules'[x] = schedules[x]
  BY <1>1, <1>3 DEF ServeInv
<1>5. /\ run'[i] = [pc |-> "prune", at |-> run[i].at, fresh |-> run[i].fresh]
      /\ \A k \in Instances \ {i} : run'[k] = run[k]
      /\ job' = job /\ faults' = faults /\ edit' = edit /\ served' = served
  BY DEF MarkWrite, RunGoto, LockInv, LockTypeOK, storeVars
<1>6. \A k \in Instances \ {i} : run[k].pc \notin {"backup", "mark", "markWrite"}
  BY <1>1, AloneInside DEF InCriticalSection
<1>7. \A k \in Instances : RunOK(run'[k], schedules')
  BY <1>5, <1>6 DEF ServeInv, RunOK
<1>8. schedules' \in [Schedules -> Planned \cup {NoSchedule}]
  BY <1>1, <1>2, <1>3 DEF ServeInv
<1>9. ASSUME NEW k \in DOMAIN served
      PROVE  /\ schedules'[k[1]] # NoSchedule
             /\ k[2] <= schedules'[k[1]].nextRunAt
             /\ k[2] = schedules'[k[1]].nextRunAt =>
                  served[k] <= faults \/ \E m \in Instances : Settling(run'[m], job'[m], k[1])
  <2>1. /\ k \in Schedules \X Nat /\ schedules[k[1]] # NoSchedule
        /\ k[2] <= schedules[k[1]].nextRunAt
        /\ k[2] = schedules[k[1]].nextRunAt =>
             served[k] <= faults \/ \E m \in Instances : Settling(run[m], job[m], k[1])
    BY DEF ServeInv
  <2>2. CASE k[1] = s
    <3>1. next.nextRunAt \in Nat /\ schedules[s].nextRunAt \in Nat /\ k[2] \in Nat
      BY <1>1, <1>2, <2>1 DEF Planned
    <3> QED BY <1>2, <1>4, <2>1, <2>2, <3>1
  <2>3. CASE k[1] # s
    <3>1. \A m \in Instances : ~Settling(run[m], job[m], k[1])
      BY <1>6, <2>3 DEF Settling
    <3> QED BY <1>4, <2>1, <2>3, <3>1
  <2> QED BY <2>2, <2>3
<1> QED BY <1>5, <1>7, <1>8, <1>9 DEF ServeInv

\* A seeded schedule has not been served.
LEMMA ServeSeed ==
  ASSUME LockInv, StoreInv, ServeInv, NEW i \in Instances, TickSeed(i)
  PROVE  ServeInv'
<1>1. PICK s \in Schedules \ Existing : schedules' = [schedules EXCEPT ![s] = SeedRow(now)]
  BY DEF TickSeed, InsertSeed
<1>2. now \in Nat
  BY JobsAssumption DEF StoreInv, StoreTypeOK
<1>3. /\ schedules' \in [Schedules -> Planned \cup {NoSchedule}]
      /\ schedules[s] = NoSchedule /\ \A x \in Schedules \ {s} : schedules'[x] = schedules[x]
  BY <1>1, <1>2, SeedPlanned DEF ServeInv, Existing
<1>4. /\ run'[i] = [pc |-> "idle"] /\ \A k \in Instances \ {i} : run'[k] = run[k]
      /\ job' = job /\ faults' = faults /\ edit' = edit /\ served' = served
  BY DEF TickSeed, RunGoto, LockInv, LockTypeOK, storeVars
<1>5. \A k \in Instances : RunOK(run'[k], schedules')
  BY <1>3, <1>4 DEF ServeInv, RunOK
<1>6. \A k \in DOMAIN served : k[1] \in Schedules \ {s}
  BY <1>3 DEF ServeInv
<1>7. \A k \in Instances, x \in Schedules : Settling(run[k], job[k], x) =>
        Settling(run'[k], job'[k], x)
  BY <1>4 DEF TickSeed, Settling
<1> QED BY <1>3, <1>4, <1>5, <1>6, <1>7 DEF ServeInv

\* A step of a run that is not about to advance the schedule, and writes nothing.
LEMMA ServeQuiet ==
  ASSUME StoreInv, ServeInv, NEW i \in Instances, UNCHANGED <<schedules, edit, served>>,
         \A k \in Jobs \ {i} : job'[k] = job[k],
         \A k \in Instances \ {i} : run'[k] = run[k],
         faults' = faults \/ faults' = faults + 1,
         RunOK(run'[i], schedules),
         run[i].pc \notin {"mark", "markWrite"} \/ faults' = faults + 1
  PROVE  ServeInv'
<1>1. \A s \in Schedules : Settling(run[i], job[i], s) =>
        Settling(run'[i], job'[i], s) \/ faults' = faults + 1
  BY DEF Settling
<1> QED BY <1>1, InstancesAssumption, ServeFrame

\* The effects of the steps of a run that write to the run and its job only.
LEMMA RunEffect ==
  ASSUME LockInv, NEW i \in Instances, NEW x, RunGoto(i, x)
  PROVE  run'[i] = x /\ \A k \in Instances \ {i} : run'[k] = run[k]
  BY DEF RunGoto, LockInv, LockTypeOK

LEMMA JobEffect ==
  ASSUME StoreInv, NEW i \in Instances,
         UNCHANGED job \/ Goto(i, Idle) \/ \E r, t : PruneSelect(i, r, t)
  PROVE  \A k \in Jobs \ {i} : job'[k] = job[k]
  BY DEF Goto, PruneSelect, StoreInv, StoreTypeOK

LEMMA ServeRun ==
  ASSUME LockInv, StoreInv, ServeInv, NEW i \in Instances, RunStep(i)
  PROVE  ServeInv'
<1>0. RunOK(run[i], schedules) /\ now \in Nat
  BY JobsAssumption DEF ServeInv, StoreInv, StoreTypeOK
<1>1. CASE TickDue(i)
  <2>1. run[i].pc = "idle" /\ UNCHANGED <<schedules, edit, served, job, faults>>
    BY <1>1 DEF TickDue, storeVars
  <2>2. run'[i] = [pc |-> "lock", at |-> now] /\ \A k \in Instances \ {i} : run'[k] = run[k]
    BY <1>1, RunEffect DEF TickDue
  <2>3. RunOK(run'[i], schedules)
    BY <1>0, <2>2 DEF RunOK
  <2> QED BY <2>1, <2>2, <2>3, ServeQuiet
<1>2. CASE TickUnseeded(i)
  <2>1. run[i].pc = "idle" /\ UNCHANGED <<schedules, edit, served, job, faults>>
    BY <1>2 DEF TickUnseeded, storeVars
  <2>2. run'[i] = [pc |-> "seed"] /\ \A k \in Instances \ {i} : run'[k] = run[k]
    BY <1>2, RunEffect DEF TickUnseeded
  <2>3. RunOK(run'[i], schedules)
    BY <2>2 DEF RunOK
  <2> QED BY <2>1, <2>2, <2>3, ServeQuiet
<1>3. CASE TryLock(i)
  <2>1. run[i].pc = "lock" /\ UNCHANGED <<schedules, edit, served, job, faults>>
    BY <1>3 DEF TryLock, storeVars
  <2>2. \/ RunGoto(i, [pc |-> "recheck", at |-> run[i].at])
        \/ RunGoto(i, [pc |-> "idle"])
    BY <1>3 DEF TryLock
  <2>3. /\ run'[i] = [pc |-> "recheck", at |-> run[i].at] \/ run'[i] = [pc |-> "idle"]
        /\ \A k \in Instances \ {i} : run'[k] = run[k]
    BY <2>2, RunEffect
  <2>4. RunOK(run'[i], schedules)
    BY <1>0, <2>1, <2>3 DEF RunOK
  <2> QED BY <2>1, <2>3, <2>4, ServeQuiet
<1>4. CASE Recheck(i)
  <2>1. run[i].pc = "recheck" /\ UNCHANGED <<schedules, edit, served, job, faults>>
    BY <1>4 DEF Recheck, storeVars
  <2>2. PICK s \in Existing :
          IF Due(schedules[s], run[i].at)
          THEN RunGoto(i, [pc |-> "backup", at |-> run[i].at, id |-> s, fresh |-> schedules[s]])
          ELSE RunGoto(i, [pc |-> "unlock"])
    BY <1>4 DEF Recheck
  <2>3. /\ IF Due(schedules[s], run[i].at)
           THEN run'[i] = [pc |-> "backup", at |-> run[i].at, id |-> s, fresh |-> schedules[s]]
           ELSE run'[i] = [pc |-> "unlock"]
        /\ \A k \in Instances \ {i} : run'[k] = run[k]
    BY <2>2, RunEffect
  <2>4. RunOK(run'[i], schedules)
    BY <1>0, <2>1, <2>3 DEF RunOK, Existing, Due
  <2> QED BY <2>1, <2>3, <2>4, ServeQuiet
<1>5. CASE MarkRead(i)
  <2>1. /\ run[i].pc = "mark" /\ Goto(i, Idle)
        /\ UNCHANGED <<schedules, edit, served, faults>>
    BY <1>5 DEF MarkRead
  <2>2. /\ run'[i] = [pc |-> "markWrite", at |-> run[i].at, id |-> run[i].id,
                      fresh |-> run[i].fresh, seen |-> schedules[run[i].id]]
        /\ \A k \in Instances \ {i} : run'[k] = run[k]
    BY <1>5, RunEffect DEF MarkRead
  <2>3. RunOK(run'[i], schedules)
    BY <1>0, <2>1, <2>2 DEF RunOK
  <2>4. \A s \in Schedules : Settling(run[i], job[i], s) => Settling(run'[i], job'[i], s)
    BY <2>2 DEF Settling
  <2>5. \A k \in Jobs \ {i} : job'[k] = job[k]
    BY <2>1, JobEffect
  <2> QED BY <2>1, <2>2, <2>3, <2>4, <2>5, InstancesAssumption, ServeFrame
<1>6. CASE BackupThrew(i)
  <2>1. /\ run[i].pc = "mark" /\ job[i].pc = "threw" /\ Goto(i, Idle)
        /\ UNCHANGED <<schedules, edit, served, faults>>
    BY <1>6 DEF BackupThrew
  <2>2. run'[i] = [pc |-> "unlock"] /\ \A k \in Instances \ {i} : run'[k] = run[k]
    BY <1>6, RunEffect DEF BackupThrew
  <2>3. RunOK(run'[i], schedules)
    BY <2>2 DEF RunOK
  <2>4. \A s \in Schedules : ~Settling(run[i], job[i], s)
    BY <2>1 DEF Settling
  <2>5. \A k \in Jobs \ {i} : job'[k] = job[k]
    BY <2>1, JobEffect
  <2> QED BY <2>1, <2>2, <2>3, <2>4, <2>5, InstancesAssumption, ServeFrame
<1>7. CASE StartPrune(i)
  <2>1. /\ run[i].pc = "prune" /\ (\E r, t : PruneSelect(i, r, t))
        /\ UNCHANGED <<schedules, edit, served, faults>>
    BY <1>7 DEF StartPrune, PruneSelect
  <2>2. /\ run'[i] = [pc |-> "pruning"]
        /\ \A k \in Instances \ {i} : run'[k] = run[k]
    BY <1>7, RunEffect DEF StartPrune
  <2>3. RunOK(run'[i], schedules)
    BY <2>2 DEF RunOK
  <2>4. \A k \in Jobs \ {i} : job'[k] = job[k]
    BY <2>1, JobEffect
  <2> QED BY <2>1, <2>2, <2>3, <2>4, ServeQuiet
<1>8. CASE PruneDone(i)
  <2>1. /\ run[i].pc = "pruning" /\ Goto(i, Idle)
        /\ UNCHANGED <<schedules, edit, served, faults>>
    BY <1>8 DEF PruneDone
  <2>2. run'[i] = [pc |-> "unlock"] /\ \A k \in Instances \ {i} : run'[k] = run[k]
    BY <1>8, RunEffect DEF PruneDone
  <2>3. RunOK(run'[i], schedules)
    BY <2>2 DEF RunOK
  <2>4. \A k \in Jobs \ {i} : job'[k] = job[k]
    BY <2>1, JobEffect
  <2> QED BY <2>1, <2>2, <2>3, <2>4, ServeQuiet
<1>9. CASE Unlock(i)
  <2>1. run[i].pc = "unlock" /\ UNCHANGED <<schedules, edit, served, job, faults>>
    BY <1>9 DEF Unlock, storeVars
  <2>2. run'[i] = [pc |-> "idle"] /\ \A k \in Instances \ {i} : run'[k] = run[k]
    BY <1>9, RunEffect DEF Unlock
  <2>3. RunOK(run'[i], schedules)
    BY <2>2 DEF RunOK
  <2> QED BY <2>1, <2>2, <2>3, ServeQuiet
<1> QED BY <1>1, <1>2, <1>3, <1>4, <1>5, <1>6, <1>7, <1>8, <1>9,
           ServeSeed, ServeBackup, ServeMark DEF RunStep

LEMMA ServeCrash ==
  ASSUME LockInv, StoreInv, ServeInv, NEW i \in Instances, Crash(i)
  PROVE  ServeInv'
<1>1. Goto(i, Idle) /\ faults' = faults + 1 /\ UNCHANGED <<schedules, edit, served>>
  BY DEF Crash, Fault
<1>2. run'[i] = [pc |-> "idle"] /\ \A k \in Instances \ {i} : run'[k] = run[k]
  BY RunEffect DEF Crash
<1>3. RunOK(run'[i], schedules)
  BY <1>2 DEF RunOK
<1>4. \A k \in Jobs \ {i} : job'[k] = job[k]
  BY <1>1, JobEffect
<1> QED BY <1>1, <1>2, <1>3, <1>4, ServeQuiet

LEMMA ServeStep ==
  ASSUME EditFields = {}, "delete" \notin allowed,
         LockInv, StoreInv, NamedInv, ServeInv, [Next]_vars
  PROVE  ServeInv'
<1>7. ASSUME NEW j \in Jobs, Service(j) PROVE ServeInv'
  <2>1. CreateStep(j) \/ DeleteStep(j)
    BY <1>7 DEF Service, ServiceStep
  <2>2. /\ \A k \in Jobs \ {j} : job'[k] = job[k]
        /\ faults' = faults \/ faults' = faults + 1
    BY <2>1, StepOfOne
  <2>3. job'[j].pc = "threw" => faults' = faults + 1
    BY <2>1, ThrowCosts
  <2>4. UNCHANGED <<schedules, edit, served, run>>
    BY <1>7 DEF Service, schedulerVars
  <2>5. \A s \in Schedules : Settling(run[j], job[j], s) =>
          Settling(run'[j], job'[j], s) \/ faults' = faults + 1
    BY <2>3, <2>4 DEF Settling
  <2> QED BY <2>2, <2>4, <2>5, ServeFrame DEF ServeInv
<1>8. ASSUME NEW a \in Admins, EditStep(a) PROVE FALSE
  <2>1. edit[a].pc = "idle"
    BY DEF ServeInv
  <2>2. ~EditSeed(a) /\ ~EditWrite(a)
    BY <2>1 DEF EditSeed, EditWrite
  <2>3. ~EditUnseeded(a) /\ ~EditRead(a)
    BY DEF EditUnseeded, EditRead
  <2> QED BY <1>8, <2>2, <2>3 DEF EditStep
<1>9. ASSUME NEW a \in Admins, AdminStep(a) PROVE ServeInv'
  <2>1. a \in Jobs /\ a \notin Instances /\ UNCHANGED <<schedules, edit, served, run>>
    BY <1>9 DEF Admins, AdminStep, Service, schedulerVars
  <2>2. /\ \A k \in Jobs \ {a} : job'[k] = job[k]
        /\ faults' = faults \/ faults' = faults + 1
    BY <1>9, <2>1, StepOfOne DEF AdminStep, Service, ServiceStep
  <2> QED BY <2>1, <2>2, ServeFrame
<1>10. CASE ((ClockTick \/ SetDriver) /\ UNCHANGED schedulerVars) \/ UNCHANGED vars
  <2>1. UNCHANGED <<schedules, edit, served, run, job, faults>>
    BY <1>10 DEF ClockTick, SetDriver, vars, storeVars, schedulerVars
  <2> QED BY <2>1 DEF ServeInv
<1> QED BY <1>7, <1>8, <1>9, <1>10, InstancesAssumption, ServeRun, ServeCrash DEF Next

\* Where the schedule is not edited and no backup is deleted by name, each due time is
\* backed up once, and once more for each crash or refused statement at most, however
\* many processes run the job.  (An edit writes back a due time it read; see the README.)
THEOREM EachDueTimeOnce ==
  ASSUME EditFields = {}, \A e \in Environments : "delete" \notin e
  PROVE  Spec => []NoDoubleRun
<1> DEFINE AllInv == LockInv /\ StoreInv /\ NamedInv /\ ServeInv
<1>1. Init => AllInv
  BY LockInvInit, StoreTypeInit, ArtifactInit, EndInit, NamedInit, ServeInit DEF Init, StoreInv
<1>2. StoreInv => "delete" \notin allowed
  BY DEF StoreInv, StoreTypeOK
<1>3. AllInv /\ [Next]_vars => AllInv'
  <2> SUFFICES ASSUME AllInv, [Next]_vars PROVE AllInv'
    OBVIOUS
  <2>1. StoreInv' /\ RowsEnd
    BY SchedulerSteps, StoreTypeStep, ArtifactStep, EndStep DEF StoreInv
  <2>2. NamedInv'
    BY <2>1, SchedulerSteps, NamedStep
  <2> QED BY <1>2, <2>1, <2>2, LockInvStep, ServeStep
<1>4. AllInv => NoDoubleRun
  <2> SUFFICES ASSUME AllInv, NEW k \in DOMAIN served PROVE served[k] <= 1 + faults
    BY DEF NoDoubleRun
  <2>1. served[k] \in Nat /\ faults \in Nat /\ served[k] <= faults + 1
    BY DEF ServeInv, IsABag, StoreInv, StoreTypeOK
  <2> QED BY <2>1
<1> HIDE DEF AllInv
<1> QED BY <1>1, <1>3, <1>4, PTL DEF Spec

=============================================================================
