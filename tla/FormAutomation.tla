---------------------------- MODULE FormAutomation ----------------------------
(***************************************************************************)
(* The automation of one form, after one submission: the actions run in    *)
(* their order, each attempt is logged in form_action_runs, failed runs    *)
(* may be retried by administrators, who may meanwhile save the actions    *)
(* again: core/services/forms/formAutomationRunnerCore.ts and              *)
(* formActionsService.ts, called by formsRoutes.ts and formActionsRoutes.ts*)
(* Templates, messages and delays are left out.                            *)
(***************************************************************************)
EXTENDS Naturals, Sequences, FiniteSets

CONSTANTS
  Actions,      \* action ids, in the order of the pipeline
  Strict,       \* those with continueOnError false
  Skipped,      \* those that are disabled or whose condition the submission does not meet
  Submission,   \* the request that submits the form
  Retries,      \* retry requests of administrators
  None,         \* null
  MaxAttempts,  \* automationRetry.maxAttempts, 1 when it is disabled
  MaxRefused,   \* bound: statements refused by accident, or whose answer is lost
  MaxSaves      \* bound: times administrators save the actions again

ASSUME ActionsAssumption ==
  /\ Actions \subseteq Nat /\ IsFiniteSet(Actions) /\ None \notin Actions
  /\ Strict \subseteq Actions /\ Skipped \subseteq Actions
ASSUME CallersAssumption == Submission \notin Retries
ASSUME AutomationBounds ==
  MaxAttempts \in Nat \ {0} /\ MaxRefused \in Nat /\ MaxSaves \in Nat

Callers == {Submission} \cup Retries

VARIABLES
  actions,   \* form_actions: the ids that are there
  runs,      \* form_action_runs, in the order of insertion
  caller,    \* local variables of the submission and of each retry
  executed,  \* history: executions begun by each caller
  refused,   \* accidental refusals and lost answers so far
  saves      \* times the actions were saved

automationVars == <<actions, runs, caller, executed, refused, saves>>

\* id: the row's actionId.  of: the action its snapshot is taken from.  by: history, who
\* wrote the row.
Run == [id : Actions \cup {None}, of : Actions, status : {"success", "failed", "skipped"},
        attempt : Nat \ {0}, retryOf : Nat, by : Callers]

\* The caller runs the first action of todo.  index: executionIndex.
Working == [at : {"attempt", "execute", "logSuccess", "logFailure", "logSkip"},
            todo : SUBSET Actions, id : Actions \cup {None}, of : Actions, index : Nat,
            attempt : Nat, retryOf : Nat]
Ended == [at : {"done", "thrown"}]
Unstarted == [at |-> "idle"]
Busy(c) == caller[c].at \notin {"idle", "done", "thrown"}

AutomationTypeOK ==
  /\ actions \subseteq Actions
  /\ runs \in Seq(Run)
  /\ caller \in [Callers -> Working \cup Ended \cup {Unstarted}]
  /\ executed \in [Callers -> Nat]
  /\ refused \in 0..MaxRefused /\ saves \in 0..MaxSaves
  /\ \A i \in DOMAIN runs : runs[i].retryOf # 0 =>
       runs[i].retryOf < i /\ runs[runs[i].retryOf].status = "failed"

\* The form has some of its actions.
AutomationInit ==
  /\ actions \in SUBSET Actions
  /\ runs = <<>>
  /\ caller = [c \in Callers |-> Unstarted]
  /\ executed = [c \in Callers |-> 0]
  /\ refused = 0 /\ saves = 0

-----------------------------------------------------------------------------
(* One caller *)

First(as) == CHOOSE a \in as : \A b \in as : a <= b

\* The next action of the pipeline, if there is one.
Start(todo) ==
  IF todo = {} THEN [at |-> "done"]
  ELSE [at |-> "attempt", todo |-> todo, id |-> First(todo), of |-> First(todo), index |-> 0,
        attempt |-> 0, retryOf |-> 0]

\* runFormAutomationCore reads the list once.
Submit ==
  /\ caller[Submission] = Unstarted
  /\ caller' = [caller EXCEPT ![Submission] = Start(actions)]
  /\ UNCHANGED <<actions, runs, executed, refused, saves>>

\* retryFormAutomationRunCore: the action is rebuilt from the run, under the id the row
\* has now.
Retry(c) ==
  /\ c \in Retries /\ caller[c] = Unstarted
  /\ \E i \in DOMAIN runs :
       /\ runs[i].status = "failed"
       /\ caller' = [caller EXCEPT ![c] =
            [at |-> "attempt", todo |-> {runs[i].of}, id |-> runs[i].id, of |-> runs[i].of,
             index |-> 0, attempt |-> 0, retryOf |-> i]]
  /\ UNCHANGED <<actions, runs, executed, refused, saves>>

\* A row without an action is retried under the run's own id, which no row has.
AttemptsOf(id) == {runs[i].attempt : i \in {j \in DOMAIN runs : id # None /\ runs[j].id = id}}
NextAttempt(id) ==
  IF AttemptsOf(id) = {} THEN 1
  ELSE 1 + CHOOSE n \in AttemptsOf(id) : \A m \in AttemptsOf(id) : m <= n

\* Retries run the action whatever its condition.
ResolveNextAttempt(c) ==
  /\ caller[c].at = "attempt"
  /\ caller' = [caller EXCEPT ![c].attempt = NextAttempt(caller[c].id),
       ![c].at = IF c = Submission /\ caller[c].of \in Skipped THEN "logSkip" ELSE "execute"]
  /\ UNCHANGED <<actions, runs, executed, refused, saves>>

\* The e-mail, the request or the entry; its failure may come after its effect.
Execute(c) ==
  /\ caller[c].at = "execute"
  /\ \E at \in {"logSuccess", "logFailure"} : caller' = [caller EXCEPT ![c].at = at]
  /\ executed' = [executed EXCEPT ![c] = @ + 1]
  /\ UNCHANGED <<actions, runs, refused, saves>>

\* createFormActionRun inserts a row, unless the action it names is not there.
RunInserted(c, status) ==
  /\ caller[c].id \in actions
  /\ runs' = Append(runs, [id |-> caller[c].id, of |-> caller[c].of, status |-> status,
       attempt |-> caller[c].attempt, retryOf |-> caller[c].retryOf, by |-> c])
  /\ UNCHANGED <<actions, executed, saves>>

Logged(c, status) == RunInserted(c, status) /\ UNCHANGED refused

\* The insert throws: for want of the action, by accident, or for want of its answer,
\* and then the row is there.
Accident == refused < MaxRefused /\ refused' = refused + 1
Refused(c, status) ==
  \/ caller[c].id \notin actions /\ UNCHANGED <<actions, runs, executed, refused, saves>>
  \/ caller[c].id \in actions /\ Accident /\ UNCHANGED <<actions, runs, executed, saves>>
  \/ RunInserted(c, status) /\ Accident

\* The pipeline goes on with the actions after this one.
Continue(c) == caller' = [caller EXCEPT ![c] = Start(@.todo \ {@.of})]
Throw(c) == caller' = [caller EXCEPT ![c] = [at |-> "thrown"]]

LogSkip(c) ==
  /\ caller[c].at = "logSkip"
  /\ \/ Logged(c, "skipped") /\ Continue(c)
     \/ Refused(c, "skipped") /\ Throw(c)

\* Mutant: a refused row is passed over.
LogSuccessOnce(c) ==
  /\ caller[c].at = "logSuccess"
  /\ \/ Logged(c, "success")
     \/ Refused(c, "success")
  /\ Continue(c)

\* The row is written within the try: its refusal counts as a failed execution, and when
\* only its answer was lost a second row follows it.
LogSuccess(c) ==
  /\ caller[c].at = "logSuccess"
  /\ \/ Logged(c, "success") /\ Continue(c)
     \/ Refused(c, "success") /\ caller' = [caller EXCEPT ![c].at = "logFailure"]

\* Mutant: the pipeline never stops.
StopsNever(c) == FALSE

More(c) == caller[c].index + 1 < MaxAttempts
Stops(c) == ~More(c) /\ c = Submission /\ caller[c].of \in Strict

\* The catch: another attempt, the next action or the end of the pipeline.
LogFailure(c) ==
  /\ caller[c].at = "logFailure"
  /\ \/ /\ Logged(c, "failed")
        /\ IF More(c) THEN caller' = [caller EXCEPT ![c].at = "attempt", ![c].index = @ + 1]
           ELSE IF Stops(c) THEN caller' = [caller EXCEPT ![c] = [at |-> "done"]]
           ELSE Continue(c)
     \/ Refused(c, "failed") /\ Throw(c)

\* The process ends, or a read is refused.
CutOff(c) ==
  /\ Busy(c) /\ Accident
  /\ Throw(c)
  /\ UNCHANGED <<actions, runs, executed, saves>>

-----------------------------------------------------------------------------
\* setFormActions: every action is deleted and those of the new list are inserted, in one
\* transaction.  ON DELETE SET NULL takes the action of every run away, kept ids or not.
SetFormActions ==
  /\ saves < MaxSaves
  /\ \E kept \in SUBSET Actions : actions' = kept
  /\ runs' = [i \in DOMAIN runs |->
                IF runs[i].id \in actions THEN [runs[i] EXCEPT !.id = None] ELSE runs[i]]
  /\ saves' = saves + 1
  /\ UNCHANGED <<caller, executed, refused>>

Log(c) == LogSkip(c) \/ LogSuccess(c) \/ LogFailure(c)

AutomationNext ==
  \/ Submit \/ SetFormActions
  \/ \E c \in Callers : Retry(c) \/ ResolveNextAttempt(c) \/ Execute(c) \/ Log(c) \/ CutOff(c)

AutomationSpec == AutomationInit /\ [][AutomationNext]_automationVars

-----------------------------------------------------------------------------
(* Properties *)

RunsOf(c) == {i \in DOMAIN runs : runs[i].by = c /\ runs[i].status # "skipped"}
RunsOfAction(c, a) == {i \in DOMAIN runs : runs[i].by = c /\ runs[i].of = a}
Last(is) == CHOOSE i \in is : \A j \in is : j <= i

\* ARCHITECTURE.md: form_action_runs is the history of executions.  A caller leaves a row
\* of each; only one that throws leaves its last without, and there are no more rows than
\* executions except where the answer of an insert was lost.
ExecutionsLogged ==
  \A c \in Callers :
    LET rows == Cardinality(RunsOf(c))
    IN  /\ executed[c] <=
             rows + IF caller[c].at \in {"logSuccess", "logFailure", "thrown"} THEN 1 ELSE 0
        /\ rows <= executed[c] + refused

\* After a submission that did not throw, the actions that ran are those up to the first
\* strict one whose attempts all failed, whatever is saved or retried meanwhile.
PipelineOrder ==
  caller[Submission].at = "done" =>
    LET ran == {a \in Actions : RunsOfAction(Submission, a) # {}}
        failed == {a \in ran : runs[Last(RunsOfAction(Submission, a))].status = "failed"}
    IN  /\ \A a \in ran, b \in ran : a < b => a \notin failed \cap Strict
        /\ failed \cap Strict = {} /\ saves = 0 => ran = actions

\* form-action-logs.md: the log shows what happened after form actions ran.  When no
\* statement is refused by accident and every action that ran is still one of the form's,
\* a retry that ended after an execution left a row.
RetriesAreLogged ==
  refused = 0 /\ (\A i \in DOMAIN runs : runs[i].of \in actions) =>
    \A c \in Retries : caller[c] \in Ended /\ executed[c] > 0 => RunsOf(c) # {}
=============================================================================
