--------------------------- MODULE ActionExecutions ---------------------------
(***************************************************************************)
(* Executing an assistant's plan under an idempotency key: the lookup and  *)
(* the save of core/services/assistant/actionExecutionStore.ts around the  *)
(* execution in executeAssistantActionPlan of actionExecutorService.ts.    *)
(* A plan stands for the actor, the plan's id and its hash, which are      *)
(* compared together.  Previews and actions are one step: what they do to  *)
(* the site is not modelled, only that they did it.                        *)
(***************************************************************************)
EXTENDS Naturals, FiniteSets

CONSTANTS
  Executes,   \* requests to execute a plan
  Keys, Plans,
  Nobody,     \* no row
  MaxDropped  \* bound: requests that end half-way (a refused statement, a dead process)

ASSUME ExecutionsAssumption ==
  /\ Nobody \notin Executes /\ Nobody \notin [plan : Plans, result : Executes]
  /\ MaxDropped \in Nat

VARIABLES
  execution,  \* assistant_action_executions: under each key, a plan and its result
  undo,       \* assistant_action_undo_items of a key and a plan: whose they are
  execute,    \* local variables of each request
  done,       \* history: the requests whose actions were carried out
  earlier,    \* history: the requests that had returned when this one began
  dropped     \* requests ended half-way so far

executionVars == <<execution, undo, execute, done, earlier, dropped>>

Unasked == [at |-> "none"]
\* result: the request whose execution is returned.
Performing == [at : {"lookup", "execute", "save", "find", "items", "returned", "conflict",
                     "dropped"},
               key : Keys, plan : Plans, result : Executes \cup {Nobody}]
Saved == [plan : Plans, result : Executes]

ExecutionsTypeOK ==
  /\ execution \in [Keys -> Saved \cup {Nobody}]
  /\ undo \in [Keys -> [Plans -> Executes \cup {Nobody}]]
  /\ execute \in [Executes -> Performing \cup {Unasked}]
  /\ done \subseteq Executes /\ earlier \in [Executes -> SUBSET Executes]
  /\ dropped \in 0..MaxDropped
  /\ \A k \in Keys : execution[k] = Nobody => \A p \in Plans : undo[k][p] = Nobody
  /\ \A c \in Executes : execute[c].at = "returned" =>
       execute[c].result \in done /\ execution[execute[c].key] # Nobody

ExecutionsInit ==
  /\ execution = [k \in Keys |-> Nobody]
  /\ undo = [k \in Keys |-> [p \in Plans |-> Nobody]]
  /\ execute = [c \in Executes |-> Unasked]
  /\ done = {} /\ earlier = [c \in Executes |-> {}] /\ dropped = 0

-----------------------------------------------------------------------------
Request(c) ==
  /\ execute[c] = Unasked
  /\ \E k \in Keys, p \in Plans : execute' = [execute EXCEPT ![c] =
       [at |-> "lookup", key |-> k, plan |-> p, result |-> Nobody]]
  /\ earlier' = [earlier EXCEPT ![c] = {d \in Executes : execute[d].at = "returned"}]
  /\ UNCHANGED <<execution, undo, done, dropped>>

RowOf(c) == execution[execute[c].key]

\* Mutant: a row of another plan is as good as none.
LookUpPlan(c) ==
  /\ execute[c].at = "lookup"
  /\ execute' = [execute EXCEPT ![c] =
       IF RowOf(c) # Nobody /\ RowOf(c).plan = @.plan
       THEN [@ EXCEPT !.at = "returned", !.result = RowOf(c).result]
       ELSE [@ EXCEPT !.at = "execute"]]
  /\ UNCHANGED <<execution, undo, done, earlier, dropped>>

\* A result of the same plan is replayed; the key of another plan is a conflict.
LookUp(c) ==
  /\ execute[c].at = "lookup"
  /\ execute' = [execute EXCEPT ![c] =
       IF RowOf(c) = Nobody THEN [@ EXCEPT !.at = "execute"]
       ELSE IF RowOf(c).plan = @.plan
            THEN [@ EXCEPT !.at = "returned", !.result = RowOf(c).result]
            ELSE [@ EXCEPT !.at = "conflict"]]
  /\ UNCHANGED <<execution, undo, done, earlier, dropped>>

\* dryRunAssistantActionPlan may find conflicts; then nothing is carried out.
Perform(c) ==
  /\ execute[c].at = "execute"
  /\ \/ /\ execute' = [execute EXCEPT ![c].at = "save", ![c].result = c]
        /\ done' = done \cup {c}
     \/ /\ execute' = [execute EXCEPT ![c].at = "dropped"]
        /\ UNCHANGED done
  /\ UNCHANGED <<execution, undo, earlier, dropped>>

\* Mutant: the caller does not wait for the save.
SaveLater(c) ==
  /\ execute[c].at = "save"
  /\ execute' = [execute EXCEPT ![c].at = "returned"]
  /\ UNCHANGED <<execution, undo, done, earlier, dropped>>

\* onConflictDoNothing: the first result stays, and its row is read instead.
Save(c) ==
  /\ execute[c].at = "save"
  /\ IF RowOf(c) = Nobody
     THEN /\ execution' = [execution EXCEPT ![execute[c].key] =
               [plan |-> execute[c].plan, result |-> c]]
          /\ execute' = [execute EXCEPT ![c].at = "items"]
     ELSE /\ execute' = [execute EXCEPT ![c].at = "find"]
          /\ UNCHANGED execution
  /\ UNCHANGED <<undo, done, earlier, dropped>>

Find(c) ==
  /\ execute[c].at = "find"
  /\ execute' = [execute EXCEPT ![c].at = "items"]
  /\ UNCHANGED <<execution, undo, done, earlier, dropped>>

\* The undo items go to the row that was found, whoever's it is; items of the same
\* actions and resources stay as they are.  A result may have none.
InsertUndoItems(c) ==
  /\ execute[c].at = "items"
  /\ \/ undo' = [undo EXCEPT ![execute[c].key][execute[c].plan] = IF @ = Nobody THEN c ELSE @]
     \/ UNCHANGED undo
  /\ execute' = [execute EXCEPT ![c].at = "returned"]
  /\ UNCHANGED <<execution, done, earlier, dropped>>

Drop(c) ==
  /\ execute[c].at \in {"lookup", "execute", "save", "find", "items"} /\ dropped < MaxDropped
  /\ execute' = [execute EXCEPT ![c].at = "dropped"]
  /\ dropped' = dropped + 1
  /\ UNCHANGED <<execution, undo, done, earlier>>

Store(c) == Save(c) \/ Find(c) \/ InsertUndoItems(c)

ExecutionsNext ==
  \E c \in Executes : Request(c) \/ LookUp(c) \/ Perform(c) \/ Store(c) \/ Drop(c)

ExecutionsSpec == ExecutionsInit /\ [][ExecutionsNext]_executionVars

-----------------------------------------------------------------------------
(* Properties *)

SameKey(c, d) == execute[c] # Unasked /\ execute[d] # Unasked /\ execute[c].key = execute[d].key

\* CMS_API.md: the key of a successful execution replays its result, and is a conflict for
\* another plan.  A request that begins after one returned under its key carries nothing
\* out and, if it returns, had the plan that is stored and returns the stored result.
SerialReplay ==
  \A c \in Executes : \A d \in earlier[c] : SameKey(c, d) =>
    /\ c \notin done
    /\ execute[c].at = "returned" =>
         execute[c].result = RowOf(d).result /\ execute[c].plan = RowOf(d).plan

\* The undo items of a key are those of the execution whose result is stored, unless
\* another one under the key overlapped with it.
UndoMatchesResult ==
  \A k \in Keys, p \in Plans : undo[k][p] # Nobody /\ undo[k][p] # execution[k].result =>
    LET c == undo[k][p]
        d == execution[k].result
    IN  SameKey(c, d) /\ c \notin earlier[d] /\ d \notin earlier[c]
=============================================================================
