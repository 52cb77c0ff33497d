---------------------------- MODULE Services_proofs ----------------------------
(***************************************************************************)
(* Proofs about the services of MC_Services that share no state.           *)
(* Executions of assistant plans, for any number of requests, keys and     *)
(* plans: a key replays the first result that was stored under it.         *)
(* Automations of a form, for any actions, retries and limits: every       *)
(* execution is logged, and the actions of a submission run in order.      *)
(* Events between tabs, for any events and channels of any length: each is *)
(* handled once, and none is lost; and the bounded map lists what is       *)
(* counted.                                                                *)
(***************************************************************************)
EXTENDS ActionExecutions, FormAutomation, CacheBus, Counting, SequenceTheorems, TLAPS

(* Executions of assistant plans *)

\* What a request has done by the point it has reached.
Progress(c) ==
  /\ execute[c].at \in {"none", "lookup", "execute"} => c \notin done
  /\ execute[c].at \in {"save", "find", "items"} => execute[c].result = c /\ c \in done
  /\ execute[c].at \in {"find", "items", "returned"} => RowOf(c) # Nobody

\* A request that began after d returned under its key has not got past the lookup.
Behind(c, d) ==
  /\ execute[d].at = "returned"
  /\ SameKey(c, d) =>
       /\ c \notin done
       /\ execute[c].at \in {"lookup", "returned", "conflict", "dropped"}
       /\ execute[c].at = "returned" =>
            execute[c].result = RowOf(d).result /\ execute[c].plan = RowOf(d).plan

\* Stored results are those of executions, and stay.
RowsAreResults == \A k \in Keys : execution[k] # Nobody => execution[k].result \in done

ReplayInv ==
  /\ ExecutionsTypeOK
  /\ RowsAreResults
  /\ \A c \in Executes : Progress(c)
  /\ \A c \in Executes : \A d \in earlier[c] : Behind(c, d)

LEMMA ReplayInvInit == ExecutionsInit => ReplayInv
  BY ExecutionsAssumption
  DEF ExecutionsInit, ReplayInv, ExecutionsTypeOK, RowsAreResults, Progress, Unasked

\* Unasked requests have no key; the others are records of one shape.
LEMMA Shape ==
  ASSUME ExecutionsTypeOK, NEW c \in Executes, execute[c].at # "none"
  PROVE  /\ execute[c] \in Performing
         /\ execute[c] # Unasked
         /\ execute[c].key \in Keys /\ execute[c].plan \in Plans
  BY DEF ExecutionsTypeOK, Performing, Unasked

LEMMA RequestStep ==
  ASSUME ReplayInv, NEW c \in Executes, Request(c)
  PROVE  ReplayInv'
<1>1. PICK k \in Keys, p \in Plans : execute' = [execute EXCEPT ![c] =
        [at |-> "lookup", key |-> k, plan |-> p, result |-> Nobody]]
  BY DEF Request
<1>2. ExecutionsTypeOK'
  BY <1>1 DEF Request, ReplayInv, ExecutionsTypeOK, Performing, Unasked
<1>3. /\ \A d \in Executes \ {c} : execute'[d] = execute[d]
      /\ execute'[c] = [at |-> "lookup", key |-> k, plan |-> p, result |-> Nobody]
      /\ UNCHANGED <<execution, done>>
  BY <1>1 DEF Request, ReplayInv, ExecutionsTypeOK
<1>4. RowsAreResults'
  BY <1>3 DEF ReplayInv, RowsAreResults
<1>5. \A d \in Executes : Progress(d)'
  BY <1>3 DEF ReplayInv, Progress, RowOf, Request, Unasked
<1>6. ASSUME NEW d \in Executes, NEW e \in earlier'[d] PROVE Behind(d, e)'
  <2>1. e \in Executes /\ execute[e].at = "returned" /\ e # c
    BY <1>6 DEF Request, ReplayInv, ExecutionsTypeOK, Behind, Unasked
  <2>2. execute'[e] = execute[e]
    BY <1>3, <2>1
  <2>3. CASE d = c
    BY <1>3, <1>5, <2>1, <2>2, <2>3 DEF Behind, Progress
  <2>4. CASE d # c
    <3>1. earlier'[d] = earlier[d] /\ execute'[d] = execute[d]
      BY <1>3, <2>4 DEF Request, ReplayInv, ExecutionsTypeOK
    <3> QED BY <1>3, <1>6, <2>2, <3>1 DEF ReplayInv, Behind, SameKey, RowOf
  <2> QED BY <2>3, <2>4
<1> QED BY <1>2, <1>4, <1>5, <1>6 DEF ReplayInv

\* What the steps of a request that is under way have in common: its key and plan stay,
\* rows only appear, and no other request is touched.
Steps(c) ==
  /\ execute[c].at \in {"lookup", "execute", "save", "find", "items"}
  /\ execute'[c].at # "none" /\ execute'[c] # Unasked
  /\ execute'[c].key = execute[c].key /\ execute'[c].plan = execute[c].plan
  /\ \A d \in Executes \ {c} : execute'[d] = execute[d]
  /\ \A k \in Keys : execution[k] # Nobody => execution'[k] = execution[k]
  /\ done' \in {done, done \cup {c}}
  /\ earlier' = earlier

\* A request under way that is past the lookup has no predecessor under its key.
LEMMA NoPredecessor ==
  ASSUME ReplayInv, NEW c \in Executes, NEW d \in earlier[c],
         execute[c].at \in {"execute", "save", "find", "items"}
  PROVE  ~SameKey(c, d)
  BY DEF ReplayInv, Behind

LEMMA OthersStay ==
  ASSUME ReplayInv, NEW c \in Executes, Steps(c), ExecutionsTypeOK', RowsAreResults',
         Progress(c)',
         \A d \in earlier[c] : execute[d].at = "returned" /\ SameKey(c, d) => Behind(c, d)'
  PROVE  ReplayInv'
<1>1. \A x \in Executes : execute[x].at # "none" =>
        /\ execute[x] # Unasked /\ execute[x].key \in Keys
        /\ RowOf(x) # Nobody => execution'[execute[x].key] = RowOf(x)
  BY Shape DEF ReplayInv, Steps, RowOf
<1>2. ASSUME NEW x \in Executes PROVE Progress(x)'
  <2>1. CASE x = c
    BY <2>1
  <2>2. CASE x # c
    <3>1. execute'[x] = execute[x] /\ (x \in done' <=> x \in done)
      BY <2>2 DEF Steps
    <3> QED BY <1>1, <3>1 DEF ReplayInv, Progress, RowOf
  <2> QED BY <2>1, <2>2
<1>3. ASSUME NEW x \in Executes, NEW d \in earlier'[x] PROVE Behind(x, d)'
  <2>1. d \in Executes /\ d \in earlier[x] /\ Behind(x, d) /\ execute[d].at = "returned"
    BY <1>3 DEF Steps, ReplayInv, ExecutionsTypeOK, Behind
  <2>2. d # c /\ execute'[d] = execute[d] /\ RowOf(d)' = RowOf(d)
    <3>1. d # c /\ execute'[d] = execute[d]
      BY <2>1 DEF Steps
    <3>2. RowOf(d) # Nobody
      BY <2>1 DEF ReplayInv, Progress
    <3> QED BY <1>1, <2>1, <3>1, <3>2 DEF RowOf
  <2>3. CASE x = c
    <3>1. SameKey(c, d)' => SameKey(c, d)
      BY <1>1, <2>1, <2>2 DEF SameKey, Steps
    <3> QED BY <2>1, <2>2, <2>3, <3>1 DEF Behind
  <2>4. CASE x # c
    <3>1. execute'[x] = execute[x] /\ (x \in done' <=> x \in done)
      BY <2>4 DEF Steps
    <3> QED BY <2>1, <2>2, <3>1 DEF Behind, SameKey
  <2> QED BY <2>3, <2>4
<1> QED BY <1>2, <1>3 DEF ReplayInv

\* A step that only moves a request on, to a point its progress allows.
Moves(c, at) ==
  /\ execute' = [execute EXCEPT ![c].at = at]
  /\ UNCHANGED <<execution, done, earlier>>

LEMMA MovesOn ==
  ASSUME ReplayInv, NEW c \in Executes, NEW at,
         execute[c].at \in {"lookup", "execute", "save", "find", "items"},
         execute[c].at = "lookup" => at = "dropped" \/ RowOf(c) = Nobody,
         at \in {"execute", "save", "find", "items", "returned", "conflict", "dropped"},
         Moves(c, at),
         undo' \in [Keys -> [Plans -> Executes \cup {Nobody}]],
         \A k \in Keys : execution[k] = Nobody => undo'[k] = undo[k],
         dropped' \in 0..MaxDropped,
         at = "execute" => execute[c].at = "lookup",
         at \in {"save", "find", "items", "returned"} => execute[c].at \in {"save", "find", "items"},
         at \in {"find", "items", "returned"} => RowOf(c) # Nobody
  PROVE  ReplayInv'
<1>1. /\ execute[c] \in Performing /\ execute[c] # Unasked /\ execute[c].at # "none"
      /\ execute[c].key \in Keys
  BY Shape DEF ReplayInv
<1>2. /\ execute'[c] = [execute[c] EXCEPT !.at = at]
      /\ \A d \in Executes \ {c} : execute'[d] = execute[d]
      /\ execute' = [execute EXCEPT ![c].at = at]
      /\ UNCHANGED <<execution, done, earlier>>
  BY DEF Moves, ReplayInv, ExecutionsTypeOK
<1>3. /\ execute'[c] \in Performing /\ execute'[c] # Unasked /\ execute'[c].at = at
      /\ execute'[c].key = execute[c].key /\ execute'[c].plan = execute[c].plan
      /\ execute'[c].result = execute[c].result
  BY <1>1, <1>2 DEF Performing, Unasked
<1>4. Progress(c) /\ Progress(c)'
  BY <1>2, <1>3 DEF ReplayInv, Progress, RowOf
<1>5. ExecutionsTypeOK'
  <2>1. execute' \in [Executes -> Performing \cup {Unasked}]
    BY <1>2, <1>3 DEF ReplayInv, ExecutionsTypeOK
  <2>2. \A d \in Executes : execute'[d].at = "returned" =>
          execute'[d].result \in done' /\ execution'[execute'[d].key] # Nobody
    <3>1. at = "returned" => execute[c].result \in done /\ RowOf(c) # Nobody
      BY <1>1, <1>4 DEF Progress
    <3>2. at = "returned" => execute'[c].result \in done' /\ execution'[execute'[c].key] # Nobody
      BY <1>2, <1>3, <3>1 DEF RowOf
    <3>3. \A d \in Executes \ {c} : execute'[d].at = "returned" =>
            execute'[d].result \in done' /\ execution'[execute'[d].key] # Nobody
      BY <1>2 DEF ReplayInv, ExecutionsTypeOK
    <3>4. execute'[c].at = at
      BY <1>3
    <3> QED BY <3>2, <3>3, <3>4
  <2> QED BY <1>2, <2>1, <2>2 DEF ReplayInv, ExecutionsTypeOK
<1>6. Steps(c) /\ RowsAreResults'
  BY <1>2, <1>3 DEF Steps, ReplayInv, RowsAreResults
<1>7. ASSUME NEW d \in earlier[c], execute[d].at = "returned", SameKey(c, d)
      PROVE  Behind(c, d)'
  <2>1. d \in Executes /\ d # c /\ Behind(c, d) /\ RowOf(d) # Nobody /\ RowOf(c) = RowOf(d)
    BY <1>1, <1>7 DEF ReplayInv, ExecutionsTypeOK, Progress, SameKey, RowOf
  <2>2. execute[c].at = "lookup" /\ at = "dropped"
    BY <1>7, <2>1, NoPredecessor
  <2> QED BY <1>2, <1>3, <1>7, <2>1, <2>2 DEF Behind
<1> QED BY <1>4, <1>5, <1>6, <1>7, OthersStay

LEMMA LookUpStep ==
  ASSUME ReplayInv, NEW c \in Executes, LookUp(c)
  PROVE  ReplayInv'
<1>0. /\ execute[c] \in Performing /\ execute[c] # Unasked /\ execute[c].at = "lookup"
      /\ execute[c].key \in Keys /\ execute[c].plan \in Plans /\ c \notin done
  BY Shape DEF LookUp, ReplayInv, Progress
<1>1. CASE RowOf(c) = Nobody
  <2>1. execute' = [execute EXCEPT ![c].at = "execute"]
    BY <1>1 DEF LookUp
  <2>2. /\ undo' \in [Keys -> [Plans -> Executes \cup {Nobody}]]
        /\ \A k \in Keys : execution[k] = Nobody => undo'[k] = undo[k]
        /\ dropped' \in 0..MaxDropped /\ Moves(c, "execute")
    BY <2>1 DEF LookUp, Moves, ReplayInv, ExecutionsTypeOK
  <2> QED BY <1>0, <1>1, <2>2, MovesOn
<1>2. CASE RowOf(c) # Nobody
  <2> DEFINE new == IF RowOf(c).plan = execute[c].plan
                    THEN [execute[c] EXCEPT !.at = "returned", !.result = RowOf(c).result]
                    ELSE [execute[c] EXCEPT !.at = "conflict"]
  <2>1. RowOf(c) \in Saved /\ RowOf(c).result \in Executes /\ RowOf(c).result \in done
    BY <1>0, <1>2 DEF ReplayInv, RowsAreResults, ExecutionsTypeOK, RowOf, Saved
  <2>2. execute'[c] = new /\ execute' = [execute EXCEPT ![c] = new]
        /\ \A d \in Executes \ {c} : execute'[d] = execute[d]
    BY <1>2 DEF LookUp, ReplayInv, ExecutionsTypeOK
  <2>3. /\ new \in Performing /\ new.at \in {"returned", "conflict"}
        /\ new.key = execute[c].key /\ new.plan = execute[c].plan
        /\ new.at = "returned" => RowOf(c).plan = new.plan /\ new.result = RowOf(c).result
    BY <1>0, <2>1 DEF Performing
  <2> HIDE DEF new
  <2>4. Steps(c) /\ RowsAreResults'
    BY <1>0, <2>2, <2>3 DEF LookUp, Steps, ReplayInv, RowsAreResults, Unasked
  <2>5. ExecutionsTypeOK'
    <3>1. execute' \in [Executes -> Performing \cup {Unasked}]
      BY <2>2, <2>3 DEF ReplayInv, ExecutionsTypeOK
    <3>2. \A d \in Executes : execute'[d].at = "returned" =>
            execute'[d].result \in done' /\ execution'[execute'[d].key] # Nobody
      BY <1>2, <2>1, <2>2, <2>3 DEF LookUp, ReplayInv, ExecutionsTypeOK, RowOf
    <3> QED BY <3>1, <3>2 DEF LookUp, ReplayInv, ExecutionsTypeOK
  <2>6. Progress(c)'
    BY <1>2, <2>2, <2>3 DEF LookUp, Progress, RowOf
  <2>7. ASSUME NEW d \in earlier[c], execute[d].at = "returned", SameKey(c, d)
        PROVE  Behind(c, d)'
    <3>1. d \in Executes /\ d # c /\ RowOf(d) = RowOf(c) /\ execute'[d] = execute[d]
      BY <1>0, <2>2, <2>7 DEF ReplayInv, ExecutionsTypeOK, SameKey, RowOf
    <3>2. RowOf(d)' = RowOf(c) /\ c \notin done'
      BY <1>0, <3>1 DEF LookUp, RowOf
    <3> QED BY <2>2, <2>3, <2>7, <3>1, <3>2 DEF Behind
  <2> QED BY <2>4, <2>5, <2>6, <2>7, OthersStay
<1> QED BY <1>1, <1>2

LEMMA PerformStep ==
  ASSUME ReplayInv, NEW c \in Executes, Perform(c)
  PROVE  ReplayInv'
<1>0. /\ execute[c] \in Performing /\ execute[c] # Unasked /\ execute[c].at = "execute"
      /\ execute[c].key \in Keys
  BY Shape DEF Perform, ReplayInv
<1>1. CASE execute' = [execute EXCEPT ![c].at = "dropped"] /\ UNCHANGED done
  <2>1. /\ undo' \in [Keys -> [Plans -> Executes \cup {Nobody}]]
        /\ \A k \in Keys : execution[k] = Nobody => undo'[k] = undo[k]
        /\ Moves(c, "dropped") /\ dropped' \in 0..MaxDropped
    BY <1>1 DEF Perform, Moves, ReplayInv, ExecutionsTypeOK
  <2> QED BY <1>0, <1>1, <2>1, MovesOn
<1>2. CASE /\ execute' = [execute EXCEPT ![c].at = "save", ![c].result = c]
           /\ done' = done \cup {c}
  <2> DEFINE new == [execute[c] EXCEPT !.at = "save", !.result = c]
  <2>1. execute'[c] = new /\ execute' = [execute EXCEPT ![c] = new]
        /\ \A d \in Executes \ {c} : execute'[d] = execute[d]
    BY <1>2 DEF ReplayInv, ExecutionsTypeOK
  <2>2. new \in Performing /\ new.at = "save" /\ new.result = c
        /\ new.key = execute[c].key /\ new.plan = execute[c].plan
    BY <1>0 DEF Performing
  <2> HIDE DEF new
  <2>3. Steps(c) /\ RowsAreResults'
    <3>1. execute'[c] # Unasked /\ UNCHANGED <<execution, earlier>>
      BY <2>1, <2>2 DEF Perform, Unasked
    <3> QED BY <1>0, <1>2, <2>1, <2>2, <3>1 DEF Steps, ReplayInv, RowsAreResults
  <2>4. ExecutionsTypeOK'
    <3>1. execute' \in [Executes -> Performing \cup {Unasked}]
      BY <2>1, <2>2 DEF ReplayInv, ExecutionsTypeOK
    <3>2. \A d \in Executes : execute'[d].at = "returned" =>
            execute'[d].result \in done' /\ execution'[execute'[d].key] # Nobody
      BY <1>2, <2>1, <2>2 DEF Perform, ReplayInv, ExecutionsTypeOK
    <3> QED BY <1>2, <3>1, <3>2 DEF Perform, ReplayInv, ExecutionsTypeOK
  <2>5. Progress(c)'
    BY <1>2, <2>1, <2>2 DEF Progress
  <2>6. \A d \in earlier[c] : ~SameKey(c, d)
    BY <1>0, NoPredecessor
  <2> QED BY <2>3, <2>4, <2>5, <2>6, OthersStay
<1> QED BY <1>1, <1>2 DEF Perform

LEMMA SaveStep ==
  ASSUME ReplayInv, NEW c \in Executes, Save(c)
  PROVE  ReplayInv'
<1>0. /\ execute[c] \in Performing /\ execute[c] # Unasked /\ execute[c].at = "save"
      /\ execute[c].key \in Keys /\ execute[c].plan \in Plans
      /\ execute[c].result = c /\ c \in done
  BY Shape DEF Save, ReplayInv, Progress
<1>1. CASE RowOf(c) # Nobody
  <2>1. /\ undo' \in [Keys -> [Plans -> Executes \cup {Nobody}]]
        /\ \A k \in Keys : execution[k] = Nobody => undo'[k] = undo[k]
        /\ dropped' \in 0..MaxDropped /\ Moves(c, "find")
    BY <1>1 DEF Save, Moves, ReplayInv, ExecutionsTypeOK
  <2> QED BY <1>0, <1>1, <2>1, MovesOn
<1>2. CASE RowOf(c) = Nobody
  <2> DEFINE row == [plan |-> execute[c].plan, result |-> c]
             new == [execute[c] EXCEPT !.at = "items"]
  <2>1. /\ execute'[c] = new /\ execute' = [execute EXCEPT ![c] = new]
        /\ \A d \in Executes \ {c} : execute'[d] = execute[d]
        /\ execution' = [execution EXCEPT ![execute[c].key] = row]
    BY <1>2 DEF Save, ReplayInv, ExecutionsTypeOK
  <2>2. /\ new \in Performing /\ new.at = "items" /\ new.result = c
        /\ new.key = execute[c].key /\ new.plan = execute[c].plan
        /\ row \in Saved /\ row.result = c
    BY <1>0 DEF Performing, Saved
  <2>3. row # Nobody
    BY <1>0, ExecutionsAssumption
  <2> HIDE DEF new, row
  <2>4. Steps(c) /\ RowsAreResults'
    BY <1>0, <1>2, <2>1, <2>2 DEF Save, Steps, ReplayInv, RowsAreResults, Unasked, RowOf, ExecutionsTypeOK
  <2>5. ExecutionsTypeOK'
    <3>1. execute' \in [Executes -> Performing \cup {Unasked}]
      BY <2>1, <2>2 DEF ReplayInv, ExecutionsTypeOK
    <3>2. \A k \in Keys : execution'[k] = execution[k] \/ execution'[k] # Nobody
      BY <2>1, <2>3 DEF ReplayInv, ExecutionsTypeOK
    <3>3. \A d \in Executes : execute'[d].at = "returned" =>
            execute'[d].result \in done' /\ execution'[execute'[d].key] # Nobody
      <4> SUFFICES ASSUME NEW d \in Executes, execute'[d].at = "returned"
                   PROVE  execute'[d].result \in done' /\ execution'[execute'[d].key] # Nobody
        OBVIOUS
      <4>1. d # c /\ execute'[d] = execute[d] /\ execute[d].key \in Keys
        BY <2>1, <2>2, Shape DEF ReplayInv
      <4> QED BY <3>2, <4>1 DEF Save, ReplayInv, ExecutionsTypeOK
    <3>4. execution' \in [Keys -> Saved \cup {Nobody}]
      BY <2>1, <2>2 DEF ReplayInv, ExecutionsTypeOK
    <3> QED BY <3>1, <3>2, <3>3, <3>4 DEF Save, ReplayInv, ExecutionsTypeOK
  <2>6. Progress(c)'
    BY <1>0, <2>1, <2>2, <2>3 DEF Save, Progress, RowOf, ReplayInv, ExecutionsTypeOK
  <2>7. \A d \in earlier[c] : ~SameKey(c, d)
    BY <1>0, NoPredecessor
  <2> QED BY <2>4, <2>5, <2>6, <2>7, OthersStay
<1> QED BY <1>1, <1>2

LEMMA ReplayInvStep == ReplayInv /\ [ExecutionsNext]_executionVars => ReplayInv'
<1> SUFFICES ASSUME ReplayInv, [ExecutionsNext]_executionVars PROVE ReplayInv'
  OBVIOUS
<1>1. CASE UNCHANGED executionVars
  BY <1>1 DEF executionVars, ReplayInv, ExecutionsTypeOK, RowsAreResults, Progress, Behind,
              SameKey, RowOf
<1>2. ASSUME NEW c \in Executes, Find(c) PROVE ReplayInv'
  <2>1. RowOf(c) # Nobody
    BY <1>2 DEF Find, ReplayInv, Progress
  <2>2. /\ undo' \in [Keys -> [Plans -> Executes \cup {Nobody}]]
        /\ \A k \in Keys : execution[k] = Nobody => undo'[k] = undo[k]
        /\ execute[c].at = "find" /\ dropped' \in 0..MaxDropped /\ Moves(c, "items")
    BY <1>2 DEF Find, Moves, ReplayInv, ExecutionsTypeOK
  <2> QED BY <2>1, <2>2, MovesOn
<1>3. ASSUME NEW c \in Executes, InsertUndoItems(c) PROVE ReplayInv'
  <2>1. RowOf(c) # Nobody /\ execute[c].key \in Keys /\ execute[c].plan \in Plans
    BY <1>3, Shape DEF InsertUndoItems, ReplayInv, Progress
  <2>2. /\ undo' \in [Keys -> [Plans -> Executes \cup {Nobody}]]
        /\ \A k \in Keys : execution[k] = Nobody => undo'[k] = undo[k]
    BY <1>3, <2>1 DEF InsertUndoItems, ReplayInv, ExecutionsTypeOK, RowOf
  <2>3. execute[c].at = "items" /\ Moves(c, "returned") /\ dropped' \in 0..MaxDropped
    BY <1>3 DEF InsertUndoItems, Moves, ReplayInv, ExecutionsTypeOK
  <2> QED BY <2>1, <2>2, <2>3, MovesOn
<1>4. ASSUME NEW c \in Executes, Drop(c) PROVE ReplayInv'
  <2>1. dropped' \in 0..MaxDropped
    BY <1>4, ExecutionsAssumption DEF Drop, ReplayInv, ExecutionsTypeOK
  <2>2. /\ undo' \in [Keys -> [Plans -> Executes \cup {Nobody}]]
        /\ \A k \in Keys : execution[k] = Nobody => undo'[k] = undo[k]
    BY <1>4 DEF Drop, ReplayInv, ExecutionsTypeOK
  <2>3. /\ execute[c].at \in {"lookup", "execute", "save", "find", "items"}
        /\ Moves(c, "dropped")
    BY <1>4 DEF Drop, Moves
  <2> QED BY <2>1, <2>2, <2>3, MovesOn
<1> QED BY <1>1, <1>2, <1>3, <1>4, RequestStep, LookUpStep, PerformStep, SaveStep
        DEF ExecutionsNext, Store

\* Requests, rows and undo items keep their types, and every stored result was executed.
THEOREM ExecutionsTypeCorrect == ExecutionsSpec => []ExecutionsTypeOK
<1>1. ReplayInv => ExecutionsTypeOK
  BY DEF ReplayInv
<1> QED BY <1>1, ReplayInvInit, ReplayInvStep, PTL DEF ExecutionsSpec

\* A request begun after one returned under its key carries nothing out; if it returns,
\* it had the stored plan and returns the stored result: saveAssistantActionExecutionResult
\* returns only once a row is there, and rows never change.
THEOREM ReplaysSerially == ExecutionsSpec => []SerialReplay
<1>1. ReplayInv => SerialReplay
  BY DEF ReplayInv, Behind, SerialReplay
<1> QED BY <1>1, ReplayInvInit, ReplayInvStep, PTL DEF ExecutionsSpec
-----------------------------------------------------------------------------
(* Undo items *)

\* c carried out a plan under the key k.
Performed(c, k) == c \in done /\ execute[c] # Unasked /\ execute[c].key = k

\* Rows and undo items are those of executions under their key.
OwnerInv ==
  \A k \in Keys :
    /\ execution[k] # Nobody => Performed(execution[k].result, k)
    /\ \A p \in Plans : undo[k][p] # Nobody => Performed(undo[k][p], k)

LEMMA OwnerInvInit == ExecutionsInit => OwnerInv
  BY DEF ExecutionsInit, OwnerInv

Moved(x, at) == [x EXCEPT !.at = at]
Answering(x, at, result) == [x EXCEPT !.at = at, !.result = result]

LEMMA MovedKeeps ==
  ASSUME NEW x \in Performing, NEW at, NEW result
  PROVE  /\ Moved(x, at).key = x.key /\ Moved(x, at).at = at
         /\ Answering(x, at, result).key = x.key /\ Answering(x, at, result).at = at
  BY DEF Performing, Moved, Answering

\* What was carried out, and the key of a request, stay.
LEMMA PerformedStays ==
  ASSUME ReplayInv, [ExecutionsNext]_executionVars,
         NEW c \in Executes, NEW k, Performed(c, k)
  PROVE  Performed(c, k)'
<1>0. execute[c] \in Performing /\ execute[c].at # "none"
  BY DEF Performed, ReplayInv, ExecutionsTypeOK, Performing
<1>1. CASE UNCHANGED executionVars
  BY <1>1 DEF executionVars, Performed
<1>2. ASSUME NEW d \in Executes, Request(d) \/ LookUp(d) \/ Perform(d) \/ Store(d) \/ Drop(d)
      PROVE  /\ done \subseteq done'
             /\ \/ execute'[c] = execute[c]
                \/ execute'[c].key = execute[c].key /\ execute'[c].at # "none"
  <2>1. CASE d # c
    BY <1>2, <2>1 DEF Request, LookUp, Perform, Store, Save, Find, InsertUndoItems, Drop,
                      ReplayInv, ExecutionsTypeOK
  <2>2. CASE d = c
    <3>1. CASE LookUp(c)
      <4>1. execute'[c] \in {Moved(execute[c], "execute"), Moved(execute[c], "conflict"),
                             Answering(execute[c], "returned", RowOf(c).result)}
        BY <3>1 DEF LookUp, Moved, Answering, ReplayInv, ExecutionsTypeOK
      <4> QED BY <1>0, <3>1, <4>1, MovedKeeps DEF LookUp
    <3>2. CASE Perform(c)
      <4>1. /\ execute'[c] \in {Answering(execute[c], "save", c), Moved(execute[c], "dropped")}
            /\ done \subseteq done'
        BY <3>2 DEF Perform, Moved, Answering, ReplayInv, ExecutionsTypeOK
      <4> QED BY <1>0, <4>1, MovedKeeps
    <3>3. CASE Store(c) \/ Drop(c)
      <4>1. /\ \E at \in {"items", "find", "returned", "dropped"} :
                 execute'[c] = Moved(execute[c], at)
            /\ done' = done
        BY <3>3 DEF Store, Save, Find, InsertUndoItems, Drop, Moved, ReplayInv, ExecutionsTypeOK
      <4> QED BY <1>0, <4>1, MovedKeeps
    <3>4. ~Request(c)
      BY DEF Request, Performed
    <3> QED BY <1>2, <2>2, <3>1, <3>2, <3>3, <3>4
  <2> QED BY <2>1, <2>2
<1>3. Unasked.at = "none"
  BY DEF Unasked
<1> QED BY <1>1, <1>2, <1>3 DEF ExecutionsNext, Performed

LEMMA OwnerInvStep == ReplayInv /\ OwnerInv /\ [ExecutionsNext]_executionVars => OwnerInv'
<1> SUFFICES ASSUME ReplayInv, OwnerInv, [ExecutionsNext]_executionVars,
                    NEW k \in Keys
             PROVE  /\ execution'[k] # Nobody => Performed(execution[k].result, k)'
                    /\ \A p \in Plans : undo'[k][p] # Nobody => Performed(undo[k][p], k)'
  BY DEF OwnerInv
<1>1. /\ execution[k] # Nobody => execution[k].result \in Executes
      /\ \A p \in Plans : undo[k][p] # Nobody => undo[k][p] \in Executes
  BY DEF ReplayInv, ExecutionsTypeOK, RowsAreResults
<1> DEFINE
  RowGiven == execution'[k] = execution[k] \/
                \E c \in Executes : execution'[k].result = c /\ Performed(c, k)
  ItemsGiven == \A p \in Plans : undo'[k][p] = undo[k][p] \/
                  \E c \in Executes : undo'[k][p] = c /\ Performed(c, k)
<1>2. RowGiven /\ ItemsGiven
  <2>1. CASE UNCHANGED <<execution, undo>>
    BY <2>1
  <2>2. ASSUME NEW c \in Executes, Save(c) PROVE RowGiven /\ ItemsGiven
    <3>1. /\ execute[c].key \in Keys /\ execute[c] # Unasked
          /\ c \in done /\ UNCHANGED undo
      BY <2>2, Shape DEF Save, ReplayInv, Progress
    <3>2. execution'[k] = execution[k] \/ (execution'[k].result = c /\ k = execute[c].key)
      BY <2>2, <3>1 DEF Save, ReplayInv, ExecutionsTypeOK
    <3> QED BY <3>1, <3>2 DEF Performed
  <2>3. ASSUME NEW c \in Executes, InsertUndoItems(c) PROVE RowGiven /\ ItemsGiven
    <3>1. /\ execute[c].key \in Keys /\ execute[c].plan \in Plans /\ execute[c] # Unasked
          /\ c \in done /\ UNCHANGED execution
      BY <2>3, Shape DEF InsertUndoItems, ReplayInv, Progress
    <3>2. \A p \in Plans : undo'[k][p] = undo[k][p] \/ (undo'[k][p] = c /\ k = execute[c].key)
      BY <2>3, <3>1 DEF InsertUndoItems, ReplayInv, ExecutionsTypeOK
    <3> QED BY <3>1, <3>2 DEF Performed
  <2> QED BY <2>1, <2>2, <2>3 DEF ExecutionsNext, Request, LookUp, Perform, Store, Find, Drop,
                                 executionVars
<1> QED BY <1>1, <1>2, PerformedStays DEF OwnerInv

LEMMA ReplayInvHolds == ExecutionsSpec => [](ReplayInv /\ OwnerInv)
  BY ReplayInvInit, ReplayInvStep, OwnerInvInit, OwnerInvStep, PTL DEF ExecutionsSpec

\* Undo items under a key are those of the stored result, or of an execution that
\* overlapped with it: one that came later would have found the row.
THEOREM UndoItemsMatch == ExecutionsSpec => []UndoMatchesResult
<1>1. ASSUME ReplayInv, OwnerInv PROVE UndoMatchesResult
  <2> SUFFICES ASSUME NEW k \in Keys, NEW p \in Plans,
                      undo[k][p] # Nobody, undo[k][p] # execution[k].result,
                      NEW c, c = undo[k][p], NEW d, d = execution[k].result
               PROVE  SameKey(c, d) /\ c \notin earlier[d] /\ d \notin earlier[c]
    BY DEF UndoMatchesResult
  <2>1. /\ execution[k] # Nobody /\ c \in Executes /\ d \in Executes
    BY <1>1 DEF ReplayInv, ExecutionsTypeOK, RowsAreResults
  <2>2. Performed(c, k) /\ Performed(d, k)
    BY <1>1, <2>1 DEF OwnerInv
  <2> QED BY <1>1, <2>1, <2>2 DEF Performed, SameKey, ReplayInv, Behind
<1> QED BY <1>1, ReplayInvHolds, PTL

-----------------------------------------------------------------------------
(* Form automations: types *)

\* What a caller holds of the log fits it.
Fits(x, log) ==
  /\ x.at \in {"execute", "logSuccess", "logFailure", "logSkip"} => x.attempt \in 1..(Len(log) + 1)
  /\ x \in Working /\ x.retryOf # 0 =>
       x.retryOf \in DOMAIN log /\ log[x.retryOf].status = "failed"

LogInv ==
  /\ AutomationTypeOK
  /\ \A c \in Callers : Fits(caller[c], runs)
  /\ \A i \in DOMAIN runs : runs[i].attempt <= i

\* A caller at work.
LEMMA AtWork ==
  ASSUME AutomationTypeOK, NEW c \in Callers, Busy(c)
  PROVE  /\ caller[c] \in Working
         /\ caller[c].id \in Actions \cup {None} /\ caller[c].of \in Actions
         /\ caller[c].todo \subseteq Actions /\ caller[c].index \in Nat
         /\ caller[c].attempt \in Nat /\ caller[c].retryOf \in Nat
<1>1. caller[c] \in Working
  BY DEF AutomationTypeOK, Busy, Ended, Unstarted
<1> QED
  BY <1>1 DEF Working

LEMMA FirstIsLeast ==
  ASSUME NEW todo \in SUBSET Actions, todo # {}
  PROVE  First(todo) \in todo /\ \A b \in todo : First(todo) <= b
<1>1. \E a \in todo : \A b \in todo : a <= b
  BY LeastNat, ActionsAssumption
<1> QED
  BY <1>1 DEF First

LEMMA Starts ==
  ASSUME NEW todo \in SUBSET Actions
  PROVE  /\ Start(todo) \in Working \cup Ended
         /\ todo = {} => Start(todo) \in Ended /\ Start(todo).at = "done"
         /\ todo # {} =>
              /\ Start(todo) \in Working /\ Start(todo).at = "attempt"
              /\ Start(todo).todo = todo /\ Start(todo).id = Start(todo).of
              /\ Start(todo).of \in todo /\ \A b \in todo : Start(todo).of <= b
              /\ Start(todo).index = 0 /\ Start(todo).retryOf = 0
<1>1. CASE todo = {}
  BY <1>1 DEF Start, Ended
<1>2. CASE todo # {}
  <2>1. First(todo) \in todo /\ First(todo) \in Actions /\ \A b \in todo : First(todo) <= b
    BY <1>2, FirstIsLeast
  <2>2. Start(todo) = [at |-> "attempt", todo |-> todo, id |-> First(todo), of |-> First(todo),
                       index |-> 0, attempt |-> 0, retryOf |-> 0]
    BY <1>2 DEF Start
  <2> HIDE DEF First
  <2>3. Start(todo) \in Working
    BY <2>1, <2>2 DEF Working
  <2> QED
    BY <1>2, <2>1, <2>2, <2>3
<1> QED
  BY <1>1, <1>2

\* What a step of c leaves alone.
OthersRest(c) ==
  /\ caller' = [d \in Callers |-> IF d = c THEN caller'[c] ELSE caller[d]]
  /\ \A d \in Callers \ {c} : caller'[d] = caller[d]

\* c goes on with the action it is at.
SameAction(c, at) ==
  /\ OthersRest(c)
  /\ caller[c] \in Working /\ caller'[c] \in Working /\ caller'[c].at = at
  /\ caller'[c].todo = caller[c].todo /\ caller'[c].id = caller[c].id
  /\ caller'[c].of = caller[c].of /\ caller'[c].retryOf = caller[c].retryOf

LEMMA AtBecomes ==
  ASSUME AutomationTypeOK, NEW c \in Callers, Busy(c),
         NEW at \in {"attempt", "execute", "logSuccess", "logFailure", "logSkip"},
         caller' = [caller EXCEPT ![c].at = at]
  PROVE  SameAction(c, at) /\ caller'[c].attempt = caller[c].attempt
         /\ caller'[c].index = caller[c].index
<1>1. caller[c] \in Working
  BY AtWork
<1>2. caller'[c] = [caller[c] EXCEPT !.at = at] /\ OthersRest(c)
  BY DEF AutomationTypeOK, OthersRest
<1>3. [caller[c] EXCEPT !.at = at] \in Working
  BY <1>1 DEF Working
<1> QED
  BY <1>1, <1>2, <1>3 DEF SameAction, Working

LEMMA AttemptBecomes ==
  ASSUME AutomationTypeOK, NEW c \in Callers, Busy(c), NEW n \in Nat,
         NEW at \in {"execute", "logSkip"},
         caller' = [caller EXCEPT ![c].attempt = n, ![c].at = at]
  PROVE  SameAction(c, at) /\ caller'[c].attempt = n /\ caller'[c].index = caller[c].index
<1>1. caller[c] \in Working
  BY AtWork
<1>2. caller'[c] = [caller[c] EXCEPT !.attempt = n, !.at = at] /\ OthersRest(c)
  BY DEF AutomationTypeOK, OthersRest
<1>3. [caller[c] EXCEPT !.attempt = n, !.at = at] \in Working
  BY <1>1 DEF Working
<1> QED
  BY <1>1, <1>2, <1>3 DEF SameAction, Working

LEMMA AgainBecomes ==
  ASSUME AutomationTypeOK, NEW c \in Callers, Busy(c),
         caller' = [caller EXCEPT ![c].at = "attempt", ![c].index = @ + 1]
  PROVE  SameAction(c, "attempt") /\ caller'[c].attempt = caller[c].attempt
<1> DEFINE n == caller[c].index + 1
<1>1. caller[c] \in Working /\ n \in Nat
  BY AtWork
<1> DEFINE y == [caller[c] EXCEPT !.at = "attempt", !.index = n]
<1>2. caller'[c] = y /\ OthersRest(c)
  BY DEF AutomationTypeOK, OthersRest
<1> HIDE DEF n
<1>3. y \in Working /\ y.at = "attempt" /\ y.attempt = caller[c].attempt
      /\ y.todo = caller[c].todo /\ y.id = caller[c].id
      /\ y.of = caller[c].of /\ y.retryOf = caller[c].retryOf
  BY <1>1 DEF Working
<1> HIDE DEF y
<1> QED
  BY <1>1, <1>2, <1>3 DEF SameAction

LEMMA EndBecomes ==
  ASSUME AutomationTypeOK, NEW c \in Callers, NEW at \in {"done", "thrown"},
         caller' = [caller EXCEPT ![c] = [at |-> at]]
  PROVE  OthersRest(c) /\ caller'[c] = [at |-> at] /\ caller'[c] \in Ended
  BY DEF AutomationTypeOK, OthersRest, Ended

LEMMA ContinueBecomes ==
  ASSUME AutomationTypeOK, NEW c \in Callers, Busy(c), Continue(c)
  PROVE  OthersRest(c) /\ caller'[c] = Start(caller[c].todo \ {caller[c].of})
         /\ caller[c].todo \ {caller[c].of} \in SUBSET Actions
  BY AtWork DEF AutomationTypeOK, OthersRest, Continue

\* The attempts of an action in the log number its rows at most.
LEMMA NextAttemptTyped ==
  ASSUME LogInv, NEW id
  PROVE  NextAttempt(id) \in 1..(Len(runs) + 1)
<1> DEFINE A == AttemptsOf(id)
<1>1. Len(runs) \in Nat /\ A \subseteq 1..Len(runs)
  <2>1. Len(runs) \in Nat /\ \A j \in DOMAIN runs : j \in 1..Len(runs) /\ runs[j] \in Run
    BY DEF LogInv, AutomationTypeOK
  <2>2. \A j \in DOMAIN runs : runs[j].attempt \in Nat \ {0} /\ runs[j].attempt <= j
    BY <2>1 DEF LogInv, Run
  <2> QED
    BY <2>1, <2>2 DEF AttemptsOf
<1>2. CASE A = {}
  BY <1>1, <1>2 DEF NextAttempt
<1>3. CASE A # {}
  <2>1. A \subseteq Nat /\ \A s \in A : s <= Len(runs)
    BY <1>1
  <2>2. \E d \in A : \A e \in A : e <= d
    BY <1>1, <1>3, <2>1, GreatestNat
  <2> DEFINE m == CHOOSE n \in A : \A e \in A : e <= n
  <2>3. m \in A
    BY <2>2
  <2>4. NextAttempt(id) = 1 + m
    BY <1>3 DEF NextAttempt
  <2> HIDE DEF m, A
  <2> QED
    BY <1>1, <2>3, <2>4
<1> QED
  BY <1>2, <1>3
-----------------------------------------------------------------------------
(* Form automations: what the steps do *)

\* A row of c is inserted.
Row(c, status) ==
  [id |-> caller[c].id, of |-> caller[c].of, status |-> status,
   attempt |-> caller[c].attempt, retryOf |-> caller[c].retryOf, by |-> c]

LEMMA LoggedRow ==
  ASSUME LogInv, NEW c \in Callers, caller[c].at \in {"logSuccess", "logFailure", "logSkip"},
         NEW status \in {"success", "failed", "skipped"}, RunInserted(c, status)
  PROVE  /\ runs' = Append(runs, Row(c, status)) /\ Row(c, status) \in Run
         /\ UNCHANGED <<actions, executed, saves>>
         /\ runs' \in Seq(Run) /\ Len(runs') = Len(runs) + 1 /\ Len(runs) \in Nat
         /\ DOMAIN runs' = DOMAIN runs \cup {Len(runs) + 1}
         /\ \A i \in DOMAIN runs : runs'[i] = runs[i]
         /\ runs'[Len(runs) + 1] = Row(c, status)
<1>1. Busy(c) /\ caller[c].attempt \in 1..(Len(runs) + 1) /\ runs \in Seq(Run)
  BY DEF Busy, LogInv, Fits, AutomationTypeOK
<1>2. caller[c].id \in Actions
  BY DEF RunInserted, LogInv, AutomationTypeOK
<1>3. Row(c, status) \in Run
  BY <1>1, <1>2, AtWork DEF LogInv, Row, Run
<1>4. runs' = Append(runs, Row(c, status)) /\ UNCHANGED <<actions, executed, saves>>
  BY DEF RunInserted, Row
<1> HIDE DEF Row
<1> QED
  BY <1>1, <1>3, <1>4

\* The log grows by one row, of the caller, and the caller goes on or ends.
LEMMA LogGrows ==
  ASSUME LogInv, NEW c \in Callers, NEW status \in {"success", "failed", "skipped"},
         caller[c].at \in {"logSuccess", "logFailure", "logSkip"}, RunInserted(c, status),
         refused' \in 0..MaxRefused,
         OthersRest(c), caller'[c] \in Working \cup Ended,
         \/ caller'[c].at \in {"attempt", "done", "thrown"}
         \/ caller'[c].attempt = caller[c].attempt,
         caller'[c] \in Working => caller'[c].retryOf \in {0, caller[c].retryOf}
  PROVE  LogInv'
<1>1. /\ Row(c, status) \in Run /\ UNCHANGED <<actions, executed, saves>>
      /\ runs' \in Seq(Run) /\ Len(runs') = Len(runs) + 1 /\ Len(runs) \in Nat
      /\ DOMAIN runs' = DOMAIN runs \cup {Len(runs) + 1}
      /\ \A i \in DOMAIN runs : runs'[i] = runs[i]
      /\ runs'[Len(runs) + 1] = Row(c, status)
  BY LoggedRow
<1>2. DOMAIN runs = 1..Len(runs)
  BY DEF LogInv, AutomationTypeOK
<1>3. /\ caller[c] \in Working /\ caller[c].attempt \in 1..(Len(runs) + 1)
      /\ caller[c].retryOf \in Nat
  BY AtWork DEF LogInv, Fits, Busy
<1>4. /\ Row(c, status).attempt <= Len(runs) + 1
      /\ Row(c, status).retryOf # 0 =>
           /\ Row(c, status).retryOf \in DOMAIN runs
           /\ runs[Row(c, status).retryOf].status = "failed"
  BY <1>3 DEF Row, LogInv, Fits
<1>5. \A i \in DOMAIN runs' : runs'[i].attempt <= i
  BY <1>1, <1>4 DEF LogInv
<1>6. \A i \in DOMAIN runs' : runs'[i].retryOf # 0 =>
        runs'[i].retryOf < i /\ runs'[runs'[i].retryOf].status = "failed"
  <2> SUFFICES ASSUME NEW i \in DOMAIN runs', runs'[i].retryOf # 0
               PROVE runs'[i].retryOf < i /\ runs'[runs'[i].retryOf].status = "failed"
    OBVIOUS
  <2>1. CASE i \in DOMAIN runs
    <3>1. runs'[i] = runs[i] /\ runs[i].retryOf \in Nat /\ runs[i].retryOf < i
          /\ runs[runs[i].retryOf].status = "failed"
      <4>1. runs'[i] = runs[i] /\ runs[i] \in Run
        BY <1>1, <2>1 DEF LogInv, AutomationTypeOK
      <4> QED
        BY <2>1, <4>1 DEF LogInv, AutomationTypeOK, Run
    <3>2. runs[i].retryOf \in DOMAIN runs
      BY <1>2, <2>1, <3>1
    <3> QED
      BY <1>1, <3>1, <3>2
  <2>2. CASE i = Len(runs) + 1
    BY <1>1, <1>2, <1>4, <2>2
  <2> QED
    BY <1>1, <2>1, <2>2
<1>7. caller' \in [Callers -> Working \cup Ended \cup {Unstarted}]
  BY DEF LogInv, AutomationTypeOK, OthersRest
<1>8. AutomationTypeOK'
  BY <1>1, <1>6, <1>7 DEF LogInv, AutomationTypeOK
<1>9. \A d \in Callers : Fits(caller'[d], runs')
  <2>1. ASSUME NEW d \in Callers \ {c} PROVE Fits(caller'[d], runs')
    BY <1>1, <1>2 DEF OthersRest, LogInv, Fits
  <2>2. Fits(caller'[c], runs')
    BY <1>1, <1>3 DEF LogInv, Fits
  <2> QED
    BY <2>1, <2>2
<1> QED
  BY <1>5, <1>8, <1>9 DEF LogInv

\* Steps that log nothing.
LEMMA LogRests ==
  ASSUME LogInv, NEW c \in Callers, UNCHANGED <<actions, runs, saves>>, OthersRest(c),
         refused' \in 0..MaxRefused, executed' \in [Callers -> Nat],
         caller'[c] \in Working \cup Ended, Fits(caller'[c], runs)
  PROVE  LogInv'
<1>1. caller' \in [Callers -> Working \cup Ended \cup {Unstarted}]
  BY DEF LogInv, AutomationTypeOK, OthersRest
<1>2. AutomationTypeOK'
  BY <1>1 DEF LogInv, AutomationTypeOK
<1>3. \A d \in Callers : Fits(caller'[d], runs)
  BY DEF LogInv, OthersRest
<1> QED
  BY <1>2, <1>3 DEF LogInv, Fits

\* A refusal leaves the log as it is, or inserts a row and counts as an accident.
LEMMA RefusedCounts ==
  ASSUME LogInv, NEW c, NEW status, Refused(c, status)
  PROVE  /\ UNCHANGED <<actions, executed, saves>>
         /\ refused' \in 0..MaxRefused /\ refused <= refused'
         /\ UNCHANGED runs \/ (RunInserted(c, status) /\ refused' = refused + 1)
  BY AutomationBounds DEF LogInv, AutomationTypeOK, Refused, Accident, RunInserted

\* Rows whose insert is answered, or not.
LEMMA InsertCounts ==
  ASSUME LogInv, NEW c, NEW status, Logged(c, status)
  PROVE  RunInserted(c, status) /\ refused' = refused /\ refused' \in 0..MaxRefused
  BY DEF LogInv, AutomationTypeOK, Logged

LEMMA EndFits ==
  ASSUME NEW x \in Ended, NEW log
  PROVE  Fits(x, log) /\ x \notin Working /\ x.at \in {"done", "thrown"}
  BY DEF Ended, Fits, Working

LEMMA SubmitLogs ==
  ASSUME LogInv, Submit
  PROVE  LogInv'
<1>1. Submission \in Callers /\ actions \in SUBSET Actions
  BY DEF Callers, LogInv, AutomationTypeOK
<1>2. caller'[Submission] = Start(actions) /\ OthersRest(Submission)
  BY <1>1 DEF Submit, LogInv, AutomationTypeOK, OthersRest
<1>3. Fits(Start(actions), runs)
  <2>1. CASE actions = {}
    BY <1>1, <2>1, Starts, EndFits
  <2>2. CASE actions # {}
    BY <1>1, <2>2, Starts DEF Fits
  <2> QED
    BY <2>1, <2>2
<1> QED
  BY <1>1, <1>2, <1>3, Starts, LogRests DEF Submit, LogInv, AutomationTypeOK

\* A retry begins with the run it is of.
LEMMA RetryBegins ==
  ASSUME LogInv, NEW c \in Callers, Retry(c)
  PROVE  /\ OthersRest(c) /\ c \in Retries /\ caller[c] = Unstarted
         /\ caller'[c] \in Working /\ caller'[c].at = "attempt" /\ Fits(caller'[c], runs)
         /\ UNCHANGED <<actions, runs, executed, refused, saves>>
<1>1. PICK i \in DOMAIN runs :
        /\ runs[i].status = "failed"
        /\ caller' = [caller EXCEPT ![c] =
             [at |-> "attempt", todo |-> {runs[i].of}, id |-> runs[i].id, of |-> runs[i].of,
              index |-> 0, attempt |-> 0, retryOf |-> i]]
  BY DEF Retry
<1>2. runs[i] \in Run /\ i \in Nat
  BY DEF LogInv, AutomationTypeOK
<1> DEFINE x == [at |-> "attempt", todo |-> {runs[i].of}, id |-> runs[i].id, of |-> runs[i].of,
                 index |-> 0, attempt |-> 0, retryOf |-> i]
<1>3. x \in Working
  BY <1>2 DEF Run, Working
<1>4. Fits(x, runs) /\ x.at = "attempt"
  BY <1>1 DEF Fits
<1>5. caller'[c] = x /\ OthersRest(c)
  BY <1>1 DEF LogInv, AutomationTypeOK, OthersRest
<1> HIDE DEF x
<1> QED
  BY <1>3, <1>4, <1>5 DEF Retry

LEMMA ResolveGoes ==
  ASSUME LogInv, NEW c \in Callers, ResolveNextAttempt(c)
  PROVE  /\ caller[c].at = "attempt" /\ Busy(c)
         /\ SameAction(c, "execute") \/ (SameAction(c, "logSkip") /\ c = Submission)
         /\ caller'[c].attempt \in 1..(Len(runs) + 1)
         /\ UNCHANGED <<actions, runs, executed, refused, saves>>
<1> DEFINE n == NextAttempt(caller[c].id)
           at == IF c = Submission /\ caller[c].of \in Skipped THEN "logSkip" ELSE "execute"
<1>1. caller[c].at = "attempt" /\ Busy(c) /\ AutomationTypeOK
  BY DEF ResolveNextAttempt, Busy, LogInv
<1>2. n \in 1..(Len(runs) + 1) /\ Len(runs) \in Nat
  BY NextAttemptTyped DEF LogInv, AutomationTypeOK
<1>3. caller' = [caller EXCEPT ![c].attempt = n, ![c].at = at]
      /\ UNCHANGED <<actions, runs, executed, refused, saves>>
  BY DEF ResolveNextAttempt
<1>4. at \in {"execute", "logSkip"} /\ (at = "logSkip" => c = Submission) /\ n \in Nat
  BY <1>2
<1> HIDE DEF n, at
<1>5. SameAction(c, at) /\ caller'[c].attempt = n
  BY <1>1, <1>3, <1>4, AttemptBecomes
<1> QED
  BY <1>1, <1>2, <1>3, <1>4, <1>5

LEMMA ExecuteGoes ==
  ASSUME LogInv, NEW c \in Callers, Execute(c)
  PROVE  /\ caller[c].at = "execute" /\ Busy(c)
         /\ SameAction(c, "logSuccess") \/ SameAction(c, "logFailure")
         /\ caller'[c].attempt = caller[c].attempt
         /\ executed' = [executed EXCEPT ![c] = @ + 1]
         /\ UNCHANGED <<actions, runs, refused, saves>>
<1>1. caller[c].at = "execute" /\ Busy(c) /\ AutomationTypeOK
  BY DEF Execute, Busy, LogInv
<1>2. PICK at \in {"logSuccess", "logFailure"} : caller' = [caller EXCEPT ![c].at = at]
  BY DEF Execute
<1>3. SameAction(c, at) /\ caller'[c].attempt = caller[c].attempt
  BY <1>1, <1>2, AtBecomes
<1> QED
  BY <1>1, <1>2, <1>3 DEF Execute

LEMMA SameFits ==
  ASSUME LogInv, NEW c \in Callers, NEW at, SameAction(c, at),
         caller'[c].attempt \in 1..(Len(runs) + 1)
  PROVE  Fits(caller'[c], runs) /\ caller'[c] \in Working /\ OthersRest(c)
  BY DEF LogInv, Fits, SameAction

\* A refused row ends the caller, or counts as a failed execution.
Throws(c) ==
  /\ OthersRest(c) /\ caller'[c] \in Ended /\ caller'[c].at = "thrown" /\ LogInv'
  /\ UNCHANGED <<actions, executed, saves>> /\ refused <= refused'
  /\ \/ UNCHANGED runs
     \/ /\ caller[c].at \in {"logSuccess", "logFailure", "logSkip"} /\ refused' = refused + 1
        /\ \E status \in {"success", "failed", "skipped"} :
             /\ RunInserted(c, status)
             /\ status = "skipped" <=> caller[c].at = "logSkip"

LEMMA CutOffGoes ==
  ASSUME LogInv, NEW c \in Callers, CutOff(c)
  PROVE  Throws(c) /\ UNCHANGED runs
<1>1. /\ UNCHANGED <<actions, runs, executed, saves>> /\ Throw(c)
      /\ refused' \in 0..MaxRefused /\ refused <= refused'
  BY AutomationBounds DEF CutOff, Accident, LogInv, AutomationTypeOK
<1>2. caller'[c] = [at |-> "thrown"] /\ caller'[c] \in Ended /\ OthersRest(c)
  BY <1>1, EndBecomes DEF LogInv, Throw
<1>3. executed' \in [Callers -> Nat]
  BY <1>1 DEF LogInv, AutomationTypeOK
<1>4. LogInv'
  BY <1>1, <1>2, <1>3, EndFits, LogRests
<1> QED
  BY <1>1, <1>2, <1>4 DEF Throws

LEMMA RefusedGoes ==
  ASSUME LogInv, NEW c \in Callers, NEW status \in {"success", "failed", "skipped"},
         caller[c].at \in {"logSuccess", "logFailure", "logSkip"},
         status = "skipped" <=> caller[c].at = "logSkip",
         Refused(c, status), Throw(c)
  PROVE  Throws(c)
<1>1. /\ UNCHANGED <<actions, executed, saves>>
      /\ refused' \in 0..MaxRefused /\ refused <= refused'
      /\ UNCHANGED runs \/ (RunInserted(c, status) /\ refused' = refused + 1)
  BY RefusedCounts
<1>2. caller'[c] = [at |-> "thrown"] /\ caller'[c] \in Ended /\ OthersRest(c)
  BY EndBecomes DEF LogInv, Throw
<1>3. executed' \in [Callers -> Nat]
  BY <1>1 DEF LogInv, AutomationTypeOK
<1>4. LogInv'
  <2>1. CASE UNCHANGED runs
    BY <1>1, <1>2, <1>3, <2>1, EndFits, LogRests
  <2>2. CASE RunInserted(c, status)
    BY <1>1, <1>2, <2>2, EndFits, LogGrows
  <2> QED
    BY <1>1, <2>1, <2>2
<1> QED
  BY <1>1, <1>2, <1>4 DEF Throws

\* The outcomes of Log: a row and what comes next, another try to log, or the end.
LogsRow(c, status) ==
  /\ Logged(c, status) /\ OthersRest(c)
  /\ status = "failed" <=> caller[c].at = "logFailure"
  /\ status = "skipped" <=> caller[c].at = "logSkip"
  /\ \/ /\ caller'[c] = Start(caller[c].todo \ {caller[c].of})
        /\ status = "failed" => ~(c = Submission /\ caller[c].of \in Strict)
     \/ SameAction(c, "attempt") /\ status = "failed"
     \/ /\ caller'[c] = [at |-> "done"] /\ status = "failed"
        /\ c = Submission /\ caller[c].of \in Strict

TriesAgain(c) ==
  /\ caller[c].at = "logSuccess" /\ SameAction(c, "logFailure")
  /\ caller'[c].attempt = caller[c].attempt
  /\ UNCHANGED <<actions, executed, saves>>
  /\ refused' \in 0..MaxRefused /\ refused <= refused'
  /\ UNCHANGED runs \/ (RunInserted(c, "success") /\ refused' = refused + 1)

LEMMA LogGoes ==
  ASSUME LogInv, NEW c \in Callers, Log(c)
  PROVE  /\ caller[c].at \in {"logSuccess", "logFailure", "logSkip"} /\ Busy(c)
         /\ \/ \E status \in {"success", "failed", "skipped"} : LogsRow(c, status)
            \/ TriesAgain(c)
            \/ Throws(c)
<1>0. AutomationTypeOK
  BY DEF LogInv
<1>1. caller[c].at \in {"logSuccess", "logFailure", "logSkip"} /\ Busy(c)
  BY DEF Log, LogSkip, LogSuccess, LogFailure, Busy
<1>3. CASE LogSkip(c)
  <2>1. caller[c].at = "logSkip"
    BY <1>3 DEF LogSkip
  <2>2. ASSUME Logged(c, "skipped"), Continue(c) PROVE LogsRow(c, "skipped")
    BY <1>0, <1>1, <2>1, <2>2, ContinueBecomes DEF LogsRow
  <2>3. ASSUME Refused(c, "skipped"), Throw(c) PROVE Throws(c)
    BY <2>1, <2>3, RefusedGoes
  <2> QED
    BY <1>1, <1>3, <2>2, <2>3 DEF LogSkip
<1>4. CASE LogSuccess(c)
  <2>1. caller[c].at = "logSuccess"
    BY <1>4 DEF LogSuccess
  <2>2. ASSUME Logged(c, "success"), Continue(c) PROVE LogsRow(c, "success")
    BY <1>0, <1>1, <2>1, <2>2, ContinueBecomes DEF LogsRow
  <2>3. ASSUME Refused(c, "success"), caller' = [caller EXCEPT ![c].at = "logFailure"]
        PROVE TriesAgain(c)
    BY <1>0, <1>1, <2>1, <2>3, AtBecomes, RefusedCounts DEF TriesAgain
  <2> QED
    BY <1>1, <1>4, <2>2, <2>3 DEF LogSuccess
<1>5. CASE LogFailure(c)
  <2>1. caller[c].at = "logFailure"
    BY <1>5 DEF LogFailure
  <2>2. ASSUME Logged(c, "failed"),
               caller' = [caller EXCEPT ![c].at = "attempt", ![c].index = @ + 1]
        PROVE LogsRow(c, "failed")
    <3>1. SameAction(c, "attempt") /\ OthersRest(c)
      BY <1>0, <1>1, <2>2, AgainBecomes DEF SameAction
    <3> QED
      BY <2>1, <2>2, <3>1 DEF LogsRow
  <2>3. ASSUME Logged(c, "failed"), Stops(c), caller' = [caller EXCEPT ![c] = [at |-> "done"]]
        PROVE LogsRow(c, "failed")
    <3>1. caller'[c] = [at |-> "done"] /\ OthersRest(c)
      BY <1>0, <2>3, EndBecomes
    <3> QED
      BY <2>1, <2>3, <3>1 DEF LogsRow, Stops
  <2>4. ASSUME Logged(c, "failed"), ~More(c), ~Stops(c), Continue(c) PROVE LogsRow(c, "failed")
    <3>1. caller'[c] = Start(caller[c].todo \ {caller[c].of}) /\ OthersRest(c)
      BY <1>0, <1>1, <2>4, ContinueBecomes
    <3> QED
      BY <2>1, <2>4, <3>1 DEF LogsRow, Stops
  <2>5. ASSUME Refused(c, "failed"), Throw(c) PROVE Throws(c)
    BY <2>1, <2>5, RefusedGoes
  <2> QED
    BY <1>1, <1>5, <2>2, <2>3, <2>4, <2>5 DEF LogFailure
<1> QED
  BY <1>1, <1>3, <1>4, <1>5 DEF Log

LEMMA LogsRowLogs ==
  ASSUME LogInv, NEW c \in Callers, NEW status \in {"success", "failed", "skipped"},
         caller[c].at \in {"logSuccess", "logFailure", "logSkip"}, Busy(c), LogsRow(c, status)
  PROVE  LogInv' /\ caller'[c].at \in {"attempt", "done"}
<1>1. /\ RunInserted(c, status) /\ refused' = refused /\ refused' \in 0..MaxRefused
      /\ OthersRest(c)
  BY InsertCounts DEF LogsRow
<1>2. CASE caller'[c] = Start(caller[c].todo \ {caller[c].of})
  <2> DEFINE todo == caller[c].todo \ {caller[c].of}
  <2>1. todo \in SUBSET Actions
    BY AtWork DEF LogInv
  <2>2. /\ caller'[c] \in Working \cup Ended /\ caller'[c].at \in {"attempt", "done"}
        /\ caller'[c] \in Working => caller'[c].retryOf = 0
    <3>1. CASE todo = {}
      BY <1>2, <2>1, <3>1, Starts, EndFits
    <3>2. CASE todo # {}
      BY <1>2, <2>1, <3>2, Starts
    <3> QED
      BY <3>1, <3>2
  <2> QED
    BY <1>1, <2>2, LogGrows
<1>3. CASE SameAction(c, "attempt")
  BY <1>1, <1>3, LogGrows DEF SameAction
<1>4. CASE caller'[c] = [at |-> "done"]
  <2>1. caller'[c] \in Ended /\ caller'[c].at = "done"
    BY <1>4 DEF Ended
  <2> QED
    BY <1>1, <2>1, EndFits, LogGrows
<1> QED
  BY <1>2, <1>3, <1>4 DEF LogsRow

\* The rows a save leaves without their action are otherwise the same.
LEMMA SavedRows ==
  ASSUME LogInv, SetFormActions
  PROVE  /\ runs' \in Seq(Run) /\ DOMAIN runs' = DOMAIN runs /\ Len(runs') = Len(runs)
         /\ \A i \in DOMAIN runs :
              /\ runs'[i].of = runs[i].of /\ runs'[i].status = runs[i].status
              /\ runs'[i].attempt = runs[i].attempt /\ runs'[i].retryOf = runs[i].retryOf
              /\ runs'[i].by = runs[i].by
         /\ UNCHANGED <<caller, executed, refused>> /\ saves' = saves + 1
         /\ actions' \subseteq Actions /\ saves' \in 1..MaxSaves
<1> DEFINE Cut(x) == IF x.id \in actions THEN [x EXCEPT !.id = None] ELSE x
<1>1. \A x \in Run : /\ Cut(x) \in Run /\ Cut(x).of = x.of /\ Cut(x).status = x.status
                     /\ Cut(x).attempt = x.attempt /\ Cut(x).retryOf = x.retryOf
                     /\ Cut(x).by = x.by
  BY DEF Run
<1>2. runs \in Seq(Run) /\ Len(runs) \in Nat /\ DOMAIN runs = 1..Len(runs)
  BY DEF LogInv, AutomationTypeOK
<1>3. runs' = [i \in DOMAIN runs |-> Cut(runs[i])]
  BY DEF SetFormActions
<1>4. \A i \in DOMAIN runs : runs[i] \in Run
  BY <1>2
<1> HIDE DEF Cut
<1>5. runs' \in Seq(Run) /\ DOMAIN runs' = DOMAIN runs /\ Len(runs') = Len(runs)
      /\ \A i \in DOMAIN runs : runs'[i] = Cut(runs[i])
  BY <1>1, <1>2, <1>3, <1>4
<1>6. /\ UNCHANGED <<caller, executed, refused>> /\ saves' = saves + 1
      /\ actions' \subseteq Actions /\ saves' \in 1..MaxSaves
  BY AutomationBounds DEF SetFormActions, LogInv, AutomationTypeOK
<1> QED
  BY <1>1, <1>4, <1>5, <1>6

LEMMA SaveLogs ==
  ASSUME LogInv, SetFormActions
  PROVE  LogInv'
<1>1. \A i \in DOMAIN runs' : runs'[i].retryOf # 0 =>
        runs'[i].retryOf < i /\ runs'[runs'[i].retryOf].status = "failed"
  <2> SUFFICES ASSUME NEW i \in DOMAIN runs', runs'[i].retryOf # 0
               PROVE runs'[i].retryOf < i /\ runs'[runs'[i].retryOf].status = "failed"
    OBVIOUS
  <2>1. /\ i \in 1..Len(runs) /\ Len(runs) \in Nat /\ DOMAIN runs = 1..Len(runs)
        /\ runs[i] \in Run /\ runs'[i].retryOf = runs[i].retryOf
    BY SavedRows DEF LogInv, AutomationTypeOK
  <2>2. /\ runs[i].retryOf \in Nat /\ runs[i].retryOf < i
        /\ runs[runs[i].retryOf].status = "failed"
    BY <2>1 DEF LogInv, AutomationTypeOK, Run
  <2>3. runs[i].retryOf \in DOMAIN runs
    BY <2>1, <2>2
  <2> QED
    BY <2>1, <2>2, <2>3, SavedRows
<1>2. AutomationTypeOK'
  BY <1>1, SavedRows, AutomationBounds DEF LogInv, AutomationTypeOK
<1>3. \A c \in Callers : Fits(caller'[c], runs')
  BY SavedRows DEF LogInv, Fits
<1> QED
  BY <1>2, <1>3, SavedRows DEF LogInv

LEMMA LogInvStep ==
  ASSUME LogInv, [AutomationNext]_automationVars
  PROVE  LogInv'
<1>1. ASSUME NEW c \in Callers, Retry(c) PROVE LogInv'
  BY <1>1, RetryBegins, LogRests DEF LogInv, AutomationTypeOK
<1>2. ASSUME NEW c \in Callers, ResolveNextAttempt(c) PROVE LogInv'
  BY <1>2, ResolveGoes, SameFits, LogRests DEF LogInv, AutomationTypeOK
<1>3. ASSUME NEW c \in Callers, Execute(c) PROVE LogInv'
  <2>1. caller[c].attempt \in 1..(Len(runs) + 1) /\ executed' \in [Callers -> Nat]
    BY <1>3, ExecuteGoes DEF LogInv, Fits, AutomationTypeOK
  <2> QED
    BY <1>3, <2>1, ExecuteGoes, SameFits, LogRests DEF LogInv, AutomationTypeOK
<1>4. ASSUME NEW c \in Callers, Log(c) PROVE LogInv'
  <2>1. CASE TriesAgain(c)
    <3>1. caller[c].attempt \in 1..(Len(runs) + 1)
      BY <2>1 DEF TriesAgain, LogInv, Fits
    <3>2. CASE UNCHANGED runs
      BY <2>1, <3>1, <3>2, SameFits, LogRests DEF LogInv, AutomationTypeOK, TriesAgain
    <3>3. CASE RunInserted(c, "success")
      BY <2>1, <3>3, LogGrows DEF TriesAgain, SameAction
    <3> QED
      BY <2>1, <3>2, <3>3 DEF TriesAgain
  <2>2. CASE Throws(c)
    BY <2>2 DEF Throws
  <2> QED
    BY <1>4, <2>1, <2>2, LogGoes, LogsRowLogs
<1>5. ASSUME NEW c \in Callers, CutOff(c) PROVE LogInv'
  BY <1>5, CutOffGoes DEF Throws
<1>6. CASE UNCHANGED automationVars
  BY <1>6 DEF automationVars, LogInv, AutomationTypeOK
<1> QED
  BY <1>1, <1>2, <1>3, <1>4, <1>5, <1>6, SubmitLogs, SaveLogs DEF AutomationNext

LEMMA LogInvInit == AutomationInit => LogInv
<1> SUFFICES ASSUME AutomationInit PROVE LogInv
  OBVIOUS
<1>1. DOMAIN runs = {} /\ runs \in Seq(Run)
  BY DEF AutomationInit
<1>2. AutomationTypeOK
  BY <1>1, AutomationBounds DEF AutomationInit, AutomationTypeOK
<1>3. \A c \in Callers : Fits(caller[c], runs)
  BY DEF AutomationInit, Fits, Working, Unstarted
<1> QED
  BY <1>1, <1>2, <1>3 DEF LogInv

\* Rows and callers keep their types, a retry is of an earlier failed run, whatever is
\* saved, refused or cut off meanwhile.
THEOREM AutomationTypeCorrect == AutomationSpec => []AutomationTypeOK
<1>1. LogInv => AutomationTypeOK
  BY DEF LogInv
<1> QED
  BY <1>1, LogInvInit, LogInvStep, PTL DEF AutomationSpec

-----------------------------------------------------------------------------
(* Form automations: a row of every execution *)

\* What the log lacks of a caller's executions, by the point it has reached, and what it
\* has too many when answers were lost.
Complete(at, ran, log, lost) ==
  LET rows == Cardinality(log)
  IN  /\ at \in {"logSuccess", "logFailure"} => ran <= rows + 1 /\ rows + 1 <= ran + lost
      /\ at = "thrown" => ran <= rows + 1 /\ rows <= ran + lost
      /\ at \notin {"logSuccess", "logFailure", "thrown"} => ran <= rows /\ rows <= ran + lost

CountInv == \A c \in Callers : Complete(caller[c].at, executed[c], RunsOf(c), refused)

LEMMA RunsOfFinite ==
  ASSUME AutomationTypeOK, NEW c
  PROVE  IsFiniteSet(RunsOf(c)) /\ Cardinality(RunsOf(c)) \in Nat
<1>1. Len(runs) \in Nat /\ RunsOf(c) \in SUBSET (1..Len(runs))
  BY DEF AutomationTypeOK, RunsOf
<1>2. IsFiniteSet(1..Len(runs))
  BY <1>1, FS_Interval
<1> QED
  BY <1>1, <1>2, FS_Subset, FS_CardinalityType

\* The row of a caller is one more of its own, unless it is skipped, and of no other's.
LEMMA LoggedCounts ==
  ASSUME LogInv, NEW c \in Callers, caller[c].at \in {"logSuccess", "logFailure", "logSkip"},
         NEW status \in {"success", "failed", "skipped"}, RunInserted(c, status)
  PROVE  /\ \A d \in Callers \ {c} : RunsOf(d)' = RunsOf(d)
         /\ status = "skipped" => RunsOf(c)' = RunsOf(c)
         /\ status # "skipped" => Cardinality(RunsOf(c)') = Cardinality(RunsOf(c)) + 1
<1> DEFINE n == Len(runs) + 1
<1>1. /\ DOMAIN runs' = DOMAIN runs \cup {n} /\ n \notin DOMAIN runs
      /\ \A i \in DOMAIN runs : runs'[i] = runs[i]
      /\ runs'[n].by = c /\ runs'[n].status = status
  <2>1. n \notin DOMAIN runs
    BY DEF LogInv, AutomationTypeOK
  <2>2. Row(c, status).by = c /\ Row(c, status).status = status
    BY DEF Row
  <2> QED
    BY <2>1, <2>2, LoggedRow
<1> HIDE DEF n
<1>2. \A d \in Callers \ {c} : RunsOf(d)' = RunsOf(d)
  BY <1>1 DEF RunsOf
<1>3. status = "skipped" => RunsOf(c)' = RunsOf(c)
  BY <1>1 DEF RunsOf
<1>4. ASSUME status # "skipped" PROVE RunsOf(c)' = RunsOf(c) \cup {n} /\ n \notin RunsOf(c)
  BY <1>1, <1>4 DEF RunsOf
<1>5. IsFiniteSet(RunsOf(c))
  BY RunsOfFinite DEF LogInv
<1>6. ASSUME status # "skipped" PROVE Cardinality(RunsOf(c)') = Cardinality(RunsOf(c)) + 1
  BY <1>4, <1>5, <1>6, FS_AddElement
<1> QED
  BY <1>2, <1>3, <1>6

\* What is complete stays so when more answers are lost.
LEMMA MoreLost ==
  ASSUME LogInv, NEW d \in Callers, NEW at, refused' \in 0..MaxRefused, refused <= refused',
         Complete(at, executed[d], RunsOf(d), refused)
  PROVE  Complete(at, executed[d], RunsOf(d), refused')
<1>1. /\ Cardinality(RunsOf(d)) \in Nat /\ executed[d] \in Nat
      /\ refused \in Nat /\ refused' \in Nat
  BY RunsOfFinite, AutomationBounds DEF LogInv, AutomationTypeOK
<1> QED
  BY <1>1 DEF Complete

\* A step of c that executes and logs nothing, from a point like the one it reaches.
LEMMA CountRests ==
  ASSUME LogInv, CountInv, NEW c \in Callers, OthersRest(c), UNCHANGED <<runs, executed>>,
         refused' \in 0..MaxRefused, refused <= refused',
         Complete(caller'[c].at, executed[c], RunsOf(c), refused)
  PROVE  CountInv'
<1>1. \A d \in Callers : RunsOf(d)' = RunsOf(d)
  BY DEF RunsOf
<1>2. \A d \in Callers : caller'[d].at = caller[d].at \/ d = c
  BY DEF OthersRest
<1>3. \A d \in Callers : Complete(caller'[d].at, executed[d], RunsOf(d), refused)
  BY <1>2 DEF CountInv
<1> QED
  BY <1>1, <1>3, MoreLost DEF CountInv

\* A step of c that inserts a row: it executes nothing.
LEMMA CountGrows ==
  ASSUME LogInv, CountInv, NEW c \in Callers, OthersRest(c), UNCHANGED executed,
         caller[c].at \in {"logSuccess", "logFailure", "logSkip"},
         NEW status \in {"success", "failed", "skipped"}, RunInserted(c, status),
         status = "skipped" <=> caller[c].at = "logSkip",
         refused' \in 0..MaxRefused,
         \/ refused' = refused /\ caller'[c].at \in {"attempt", "done"}
         \/ refused' = refused + 1 /\ caller'[c].at = "thrown"
         \/ /\ refused' = refused + 1 /\ caller'[c].at = "logFailure"
            /\ caller[c].at = "logSuccess"
  PROVE  CountInv'
<1>1. /\ \A d \in Callers \ {c} : RunsOf(d)' = RunsOf(d)
      /\ status = "skipped" => RunsOf(c)' = RunsOf(c)
      /\ status # "skipped" => Cardinality(RunsOf(c)') = Cardinality(RunsOf(c)) + 1
  BY LoggedCounts
<1>2. /\ Cardinality(RunsOf(c)) \in Nat /\ executed[c] \in Nat
      /\ refused \in Nat /\ refused' \in Nat /\ refused <= refused'
  BY RunsOfFinite, AutomationBounds DEF LogInv, AutomationTypeOK
<1>3. Complete(caller'[c].at, executed'[c], RunsOf(c)', refused')
  BY <1>1, <1>2 DEF CountInv, Complete
<1>4. ASSUME NEW d \in Callers \ {c}
      PROVE  Complete(caller'[d].at, executed'[d], RunsOf(d)', refused')
  BY <1>1, <1>2, MoreLost DEF OthersRest, CountInv
<1> QED
  BY <1>3, <1>4 DEF CountInv

LEMMA CountInvStep ==
  ASSUME LogInv, CountInv, [AutomationNext]_automationVars
  PROVE  CountInv'
<1>0. /\ \A c \in Callers : Cardinality(RunsOf(c)) \in Nat /\ executed[c] \in Nat
      /\ refused \in Nat /\ refused \in 0..MaxRefused
  BY RunsOfFinite DEF LogInv, AutomationTypeOK
<1>1. CASE Submit
  <2>1. Submission \in Callers /\ actions \in SUBSET Actions
    BY DEF Callers, LogInv, AutomationTypeOK
  <2>2. caller'[Submission] = Start(actions) /\ OthersRest(Submission)
    BY <1>1, <2>1 DEF Submit, LogInv, AutomationTypeOK, OthersRest
  <2>3. caller'[Submission].at \in {"attempt", "done"}
    BY <2>1, <2>2, Starts
  <2>4. caller[Submission].at = "idle" /\ UNCHANGED <<runs, executed, refused>>
    BY <1>1 DEF Submit, Unstarted
  <2> QED
    BY <1>0, <2>1, <2>2, <2>3, <2>4, CountRests DEF CountInv, Complete
<1>2. ASSUME NEW c \in Callers, Retry(c) PROVE CountInv'
  BY <1>0, <1>2, RetryBegins, CountRests DEF CountInv, Complete, Unstarted
<1>3. ASSUME NEW c \in Callers, ResolveNextAttempt(c) PROVE CountInv'
  BY <1>0, <1>3, ResolveGoes, CountRests DEF CountInv, Complete, SameAction
<1>4. ASSUME NEW c \in Callers, Execute(c) PROVE CountInv'
  <2>1. /\ caller'[c].at \in {"logSuccess", "logFailure"} /\ caller[c].at = "execute"
        /\ \A d \in Callers \ {c} : caller'[d] = caller[d]
        /\ executed' = [executed EXCEPT ![c] = @ + 1] /\ UNCHANGED <<runs, refused>>
    BY <1>4, ExecuteGoes DEF SameAction, OthersRest
  <2>2. /\ \A d \in Callers : RunsOf(d)' = RunsOf(d)
        /\ executed'[c] = executed[c] + 1
        /\ \A d \in Callers \ {c} : executed'[d] = executed[d]
    BY <2>1 DEF RunsOf, LogInv, AutomationTypeOK
  <2>3. /\ executed[c] <= Cardinality(RunsOf(c))
        /\ Cardinality(RunsOf(c)) <= executed[c] + refused
    BY <2>1 DEF CountInv, Complete
  <2> QED
    BY <1>0, <2>1, <2>2, <2>3 DEF CountInv, Complete
<1>5. ASSUME NEW c \in Callers, Log(c) PROVE CountInv'
  <2>1. caller[c].at \in {"logSuccess", "logFailure", "logSkip"} /\ Busy(c)
    BY <1>5, LogGoes
  <2>2. ASSUME NEW status \in {"success", "failed", "skipped"}, LogsRow(c, status)
        PROVE CountInv'
    <3>1. /\ RunInserted(c, status) /\ refused' = refused /\ refused' \in 0..MaxRefused
          /\ OthersRest(c)
          /\ status = "skipped" <=> caller[c].at = "logSkip"
      BY <2>2, InsertCounts DEF LogsRow
    <3>2. UNCHANGED executed /\ caller'[c].at \in {"attempt", "done"}
      BY <2>1, <2>2, <3>1, LogsRowLogs DEF RunInserted
    <3> QED
      BY <2>1, <3>1, <3>2, CountGrows
  <2>3. CASE TriesAgain(c)
    <3>1. CASE UNCHANGED runs
      BY <1>0, <2>3, <3>1, CountRests DEF TriesAgain, SameAction, CountInv, Complete
    <3>2. CASE RunInserted(c, "success") /\ refused' = refused + 1
      BY <2>3, <3>2, CountGrows DEF TriesAgain, SameAction
    <3> QED
      BY <2>3, <3>1, <3>2 DEF TriesAgain
  <2>4. CASE Throws(c)
    <3>1. refused' \in 0..MaxRefused
      BY <2>4 DEF Throws, LogInv, AutomationTypeOK
    <3>2. CASE UNCHANGED runs
      <4>1. Complete("thrown", executed[c], RunsOf(c), refused)
        BY <1>0, <2>1 DEF CountInv, Complete
      <4> QED
        BY <2>4, <3>1, <3>2, <4>1, CountRests DEF Throws
    <3>3. CASE runs' # runs
      BY <2>4, <3>1, <3>3, CountGrows DEF Throws
    <3> QED
      BY <3>2, <3>3
  <2> QED
    BY <1>5, <2>2, <2>3, <2>4, LogGoes
<1>6. ASSUME NEW c \in Callers, CutOff(c) PROVE CountInv'
  <2>1. /\ Busy(c) /\ OthersRest(c) /\ caller'[c].at = "thrown" /\ UNCHANGED <<runs, executed>>
        /\ refused' \in 0..MaxRefused /\ refused <= refused'
    BY <1>6, CutOffGoes DEF CutOff, Throws, LogInv, AutomationTypeOK
  <2>2. Complete("thrown", executed[c], RunsOf(c), refused)
    BY <1>0, <2>1 DEF Busy, CountInv, Complete
  <2> QED
    BY <2>1, <2>2, CountRests
<1>7. CASE SetFormActions
  <2>1. \A c \in Callers : RunsOf(c)' = RunsOf(c)
    BY <1>7, SavedRows DEF RunsOf
  <2> QED
    BY <1>7, <2>1, SavedRows DEF CountInv
<1>8. CASE UNCHANGED automationVars
  BY <1>8 DEF automationVars, CountInv, RunsOf
<1> QED
  BY <1>1, <1>2, <1>3, <1>4, <1>5, <1>6, <1>7, <1>8 DEF AutomationNext

LEMMA CountInvInit == AutomationInit => CountInv
<1> SUFFICES ASSUME AutomationInit, NEW c \in Callers
             PROVE Complete(caller[c].at, executed[c], RunsOf(c), refused)
  BY DEF CountInv
<1>1. RunsOf(c) = {} /\ caller[c].at = "idle" /\ executed[c] = 0 /\ refused = 0
  BY DEF AutomationInit, RunsOf, Unstarted
<1>2. Cardinality(RunsOf(c)) = 0
  BY <1>1, FS_EmptySet
<1> QED
  BY <1>1, <1>2 DEF Complete

\* A caller leaves a row of every execution, but for the last of one that throws, and
\* rows beyond that only for answers that were lost: whatever rows are refused, whatever is
\* saved and however many retries run beside it.
THEOREM EveryExecutionLogged == AutomationSpec => []ExecutionsLogged
<1>1. ASSUME LogInv, CountInv PROVE ExecutionsLogged
  <2>1. /\ \A c \in Callers : Cardinality(RunsOf(c)) \in Nat /\ executed[c] \in Nat
        /\ refused \in Nat
    BY <1>1, RunsOfFinite DEF LogInv, AutomationTypeOK
  <2>2. ASSUME NEW c \in Callers, NEW rows, rows = Cardinality(RunsOf(c))
        PROVE  /\ executed[c] <= rows + 1 /\ rows <= executed[c] + refused
               /\ caller[c].at \notin {"logSuccess", "logFailure", "thrown"} => executed[c] <= rows
    BY <1>1, <2>1, <2>2 DEF CountInv, Complete
  <2> QED
    BY <2>1, <2>2 DEF ExecutionsLogged
<1> QED
  BY <1>1, LogInvInit, LogInvStep, CountInvInit, CountInvStep, PTL DEF AutomationSpec

-----------------------------------------------------------------------------
(* Form automations: the order of the pipeline *)

Rows(a) == RunsOfAction(Submission, a)
Ran == {a \in Actions : Rows(a) # {}}
Failed == {a \in Ran : runs[Last(Rows(a))].status = "failed"}

\* What ran before the action a: those of the list that are not todo, none of them a strict
\* one that failed.
Reached(a, todo) ==
  /\ a \in todo /\ todo \subseteq Actions /\ \A b \in todo : a <= b
  /\ \A b \in Ran : b <= a /\ (b < a => b \notin Failed \cap Strict)
  /\ saves = 0 => actions = Ran \cup todo

InOrder ==
  /\ \A a \in Ran, b \in Ran : a < b => a \notin Failed \cap Strict
  /\ Failed \cap Strict = {} /\ saves = 0 => Ran = actions

PipeInv ==
  LET x == caller[Submission]
  IN  /\ x.at = "idle" => Ran = {}
      /\ Busy(Submission) => Reached(x.of, x.todo)
      /\ x.at = "done" => InOrder

LEMMA LastIsGreatest ==
  ASSUME AutomationTypeOK, NEW a, Rows(a) # {}
  PROVE  Last(Rows(a)) \in Rows(a) /\ Last(Rows(a)) \in DOMAIN runs
<1>1. Len(runs) \in Nat /\ Rows(a) \subseteq 1..Len(runs) /\ DOMAIN runs = 1..Len(runs)
  BY DEF AutomationTypeOK, Rows, RunsOfAction
<1>2. \E d \in Rows(a) : \A e \in Rows(a) : e <= d
  BY <1>1, GreatestNat
<1>3. Last(Rows(a)) \in Rows(a)
  BY <1>2 DEF Last
<1> QED
  BY <1>1, <1>3

\* Steps that log no row of the submission.
LEMMA RowsStay ==
  ASSUME AutomationTypeOK,
         \A a \in Actions : Rows(a)' = Rows(a),
         \A i \in DOMAIN runs : runs'[i].status = runs[i].status
  PROVE  Ran' = Ran /\ Failed' = Failed
<1>1. Ran' = Ran
  BY DEF Ran
<1>2. \A a \in Ran : Last(Rows(a)') = Last(Rows(a)) /\ Last(Rows(a)) \in DOMAIN runs
  BY LastIsGreatest DEF Ran
<1>3. \A a \in Ran : runs'[Last(Rows(a)')].status = runs[Last(Rows(a))].status
  BY <1>2
<1> QED
  BY <1>1, <1>3 DEF Failed

LEMMA RowsUnchanged ==
  ASSUME AutomationTypeOK, UNCHANGED runs
  PROVE  Ran' = Ran /\ Failed' = Failed
<1>1. \A a \in Actions : Rows(a)' = Rows(a)
  BY DEF Rows, RunsOfAction
<1> QED
  BY <1>1, RowsStay

LEMMA OthersRows ==
  ASSUME LogInv, NEW c \in Callers \ {Submission},
         caller[c].at \in {"logSuccess", "logFailure", "logSkip"},
         NEW status \in {"success", "failed", "skipped"}, RunInserted(c, status)
  PROVE  Ran' = Ran /\ Failed' = Failed
<1> DEFINE n == Len(runs) + 1
<1>1. /\ DOMAIN runs' = DOMAIN runs \cup {n}
      /\ \A i \in DOMAIN runs : runs'[i] = runs[i]
      /\ runs'[n].by # Submission
  <2>1. Row(c, status).by = c
    BY DEF Row
  <2> QED
    BY <2>1, LoggedRow
<1> HIDE DEF n
<1>2. \A a \in Actions : Rows(a)' = Rows(a)
  BY <1>1 DEF Rows, RunsOfAction
<1> QED
  BY <1>1, <1>2, RowsStay DEF LogInv

\* The row the submission logs is the last of its action.
LEMMA OwnRow ==
  ASSUME LogInv, caller[Submission].at \in {"logSuccess", "logFailure", "logSkip"},
         NEW status \in {"success", "failed", "skipped"}, RunInserted(Submission, status),
         NEW a, a = caller[Submission].of
  PROVE  /\ a \in Actions /\ Ran' = Ran \cup {a}
         /\ Failed' = (Failed \ {a}) \cup (IF status = "failed" THEN {a} ELSE {})
<1> DEFINE n == Len(runs) + 1
<1>0. Submission \in Callers /\ AutomationTypeOK
  BY DEF Callers, LogInv
<1>1. a \in Actions
  BY <1>0, AtWork DEF Busy
<1>2. /\ DOMAIN runs' = DOMAIN runs \cup {n} /\ n \notin DOMAIN runs
      /\ \A i \in DOMAIN runs : runs'[i] = runs[i] /\ i \in Nat /\ i <= n
      /\ runs'[n].by = Submission /\ runs'[n].of = a /\ runs'[n].status = status
      /\ n \in Nat
  <2>1. /\ Row(Submission, status).by = Submission /\ Row(Submission, status).of = a
        /\ Row(Submission, status).status = status
    BY DEF Row
  <2>2. n \notin DOMAIN runs /\ n \in Nat /\ \A i \in DOMAIN runs : i \in Nat /\ i <= n
    BY <1>0 DEF AutomationTypeOK
  <2> QED
    BY <1>0, <2>1, <2>2, LoggedRow
<1> HIDE DEF n
<1>3. Rows(a)' = Rows(a) \cup {n} /\ \A b \in Actions \ {a} : Rows(b)' = Rows(b)
  BY <1>2 DEF Rows, RunsOfAction
<1>4. Last(Rows(a)') = n
  <2>1. \A i \in Rows(a)' : i \in Nat /\ i <= n
    BY <1>2, <1>3 DEF Rows, RunsOfAction
  <2> DEFINE S == Rows(a)'
  <2>2. n \in S
    BY <1>3
  <2> HIDE DEF S
  <2>3. \A i \in S : i \in Nat /\ i <= n
    BY <2>1 DEF S
  <2>4. Last(S) \in S /\ \A j \in S : j <= Last(S)
    BY <2>2, <2>3 DEF Last
  <2> DEFINE m == Last(S)
  <2>5. m \in Nat /\ n \in Nat /\ m <= n /\ n <= m
    BY <2>2, <2>3, <2>4
  <2> HIDE DEF m
  <2>6. m = n
    BY <2>5
  <2> QED
    BY <2>6 DEF S, m
<1>5. Ran' = Ran \cup {a}
  BY <1>1, <1>3 DEF Ran
<1>6. \A b \in Ran \ {a} : /\ Last(Rows(b)') = Last(Rows(b))
                           /\ runs'[Last(Rows(b)')].status = runs[Last(Rows(b))].status
  BY <1>0, <1>2, <1>3, LastIsGreatest DEF Ran
<1>7. runs'[Last(Rows(a)')].status = status
  BY <1>2, <1>4
<1>8. \A b \in Ran' : b \in Failed' <=> runs'[Last(Rows(b)')].status = "failed"
  BY DEF Failed
<1>9. \A b \in Ran : b \in Failed <=> runs[Last(Rows(b))].status = "failed"
  BY DEF Failed
<1>10. Failed \subseteq Ran /\ Failed' \subseteq Ran'
  BY DEF Failed
<1> QED
  BY <1>1, <1>5, <1>6, <1>7, <1>8, <1>9, <1>10

\* The submission stays at the action it is at, or is not at work.
LEMMA PipeRests ==
  ASSUME LogInv, PipeInv, Ran' = Ran, Failed' = Failed, UNCHANGED <<actions, saves>>,
         \/ caller'[Submission] = caller[Submission]
         \/ SameAction(Submission, caller'[Submission].at) /\ Busy(Submission)
         \/ caller'[Submission].at = "thrown"
  PROVE  PipeInv'
<1>1. CASE caller'[Submission] = caller[Submission]
  BY <1>1 DEF PipeInv, Reached, InOrder, Busy
<1>2. CASE SameAction(Submission, caller'[Submission].at) /\ Busy(Submission)
  <2>1. /\ caller'[Submission].at \notin {"idle", "done", "thrown"}
        /\ caller'[Submission].of = caller[Submission].of
        /\ caller'[Submission].todo = caller[Submission].todo
    BY <1>2 DEF SameAction, Working
  <2> QED
    BY <1>2, <2>1 DEF PipeInv, Reached, InOrder
<1>3. CASE caller'[Submission].at = "thrown"
  BY <1>3 DEF PipeInv, Busy
<1> QED
  BY <1>1, <1>2, <1>3

\* The answer of a row of success was lost: the action counts as failed, but its row does
\* not say so yet.
LEMMA SubmissionTriesAgain ==
  ASSUME LogInv, PipeInv, caller[Submission].at = "logSuccess", Busy(Submission),
         SameAction(Submission, "logFailure"), RunInserted(Submission, "success"),
         NEW a, a = caller[Submission].of, NEW todo, todo = caller[Submission].todo
  PROVE  PipeInv'
<1>1. Reached(a, todo) /\ UNCHANGED <<actions, saves>>
  BY DEF PipeInv, RunInserted
<1>2. a \in Actions /\ Ran' = Ran \cup {a} /\ Failed' = Failed \ {a}
  BY OwnRow
<1>3. caller'[Submission].of = a /\ caller'[Submission].todo = todo
      /\ caller'[Submission].at = "logFailure"
  BY DEF SameAction
<1>4. a <= a
  BY <1>2, ActionsAssumption
<1>5. Reached(a, todo)'
  BY <1>1, <1>2, <1>4 DEF Reached
<1>6. ASSUME NEW u, u = caller'[Submission].of, NEW rest, rest = caller'[Submission].todo
      PROVE  Reached(u, rest)'
  BY <1>3, <1>5, <1>6
<1> QED
  BY <1>3, <1>6 DEF PipeInv

LEMMA SubmissionLogs ==
  ASSUME LogInv, PipeInv, NEW status \in {"success", "failed", "skipped"},
         caller[Submission].at \in {"logSuccess", "logFailure", "logSkip"},
         Busy(Submission), LogsRow(Submission, status),
         NEW a, a = caller[Submission].of, NEW todo, todo = caller[Submission].todo
  PROVE  PipeInv'
<1> DEFINE y == caller'[Submission]
<1>1. Reached(a, todo) /\ UNCHANGED <<actions, saves>>
  BY DEF PipeInv, LogsRow, Logged, RunInserted
<1>2. /\ a \in Actions /\ Ran' = Ran \cup {a}
      /\ Failed' = (Failed \ {a}) \cup (IF status = "failed" THEN {a} ELSE {})
  BY InsertCounts, OwnRow DEF LogsRow
<1>3. a \in Nat /\ Ran \subseteq Nat /\ Ran' \subseteq Nat /\ todo \subseteq Nat
  BY <1>1, <1>2, ActionsAssumption DEF Reached, Ran
<1>4. CASE y = Start(todo \ {a}) /\ (status = "failed" => a \notin Strict)
  <2>1. todo \ {a} \in SUBSET Actions
    BY <1>1 DEF Reached
  <2>2. \A b \in Ran' : b <= a /\ b \notin Failed' \cap Strict
    BY <1>1, <1>2, <1>3, <1>4 DEF Reached
  <2>3. CASE todo \ {a} = {}
    <3>1. y.at = "done"
      BY <1>4, <2>1, <2>3, Starts
    <3>2. saves = 0 => Ran' = actions
      BY <1>1, <1>2, <2>3 DEF Reached
    <3> QED
      BY <1>1, <2>2, <3>1, <3>2 DEF PipeInv, InOrder, Busy
  <2>4. CASE todo \ {a} # {}
    <3>1. /\ y.at = "attempt" /\ y.todo = todo \ {a} /\ y.of \in todo \ {a}
          /\ \A b \in todo \ {a} : y.of <= b
      BY <1>4, <2>1, <2>4, Starts
    <3>2. a < y.of
      BY <1>1, <1>2, <1>3, <3>1, ActionsAssumption DEF Reached
    <3>3. ASSUME NEW u, u = y.of, NEW rest, rest = y.todo PROVE Reached(u, rest)'
      <4>1. \A b \in Ran' : b <= u /\ b \notin Failed' \cap Strict
        <5>1. u \in Nat /\ a < u
          BY <1>3, <3>1, <3>2, <3>3
        <5> QED
          BY <1>3, <2>2, <5>1
      <4>2. saves' = 0 => actions' = Ran' \cup rest
        BY <1>1, <1>2, <3>1, <3>3 DEF Reached
      <4>3. u \in rest /\ rest \subseteq Actions /\ \A b \in rest : u <= b
        BY <2>1, <3>1, <3>3
      <4> QED
        BY <4>1, <4>2, <4>3 DEF Reached
    <3> HIDE DEF y
    <3> QED
      BY <3>1, <3>3 DEF PipeInv, y
  <2> QED
    BY <2>3, <2>4
<1>5. CASE SameAction(Submission, "attempt")
  <2>1. y.at = "attempt" /\ y.of = a /\ y.todo = todo
    BY <1>5 DEF SameAction
  <2>2. Reached(a, todo)'
    BY <1>1, <1>2, <1>3 DEF Reached
  <2> QED
    BY <2>1, <2>2 DEF PipeInv
<1>6. CASE y = [at |-> "done"] /\ status = "failed" /\ a \in Strict
  <2>1. a \in Failed' \cap Strict
    BY <1>2, <1>6
  <2>2. \A b \in Ran' : b <= a /\ (b < a => b \notin Failed' \cap Strict)
    BY <1>1, <1>2, <1>3 DEF Reached
  <2>3. \A b, d \in Ran' : b < d => b < a
    BY <1>2, <1>3, <2>2, ActionsAssumption
  <2>4. InOrder'
    BY <2>1, <2>2, <2>3 DEF InOrder
  <2> QED
    BY <1>6, <2>4 DEF PipeInv, Busy
<1> QED
  BY <1>4, <1>5, <1>6 DEF LogsRow

LEMMA PipeInvStep ==
  ASSUME LogInv, PipeInv, [AutomationNext]_automationVars
  PROVE  PipeInv'
<1>0. Submission \in Callers /\ AutomationTypeOK
  BY DEF Callers, LogInv
<1>1. CASE Submit
  <2> DEFINE y == caller'[Submission]
  <2>1. y = Start(actions) /\ UNCHANGED <<actions, runs, saves>> /\ actions \in SUBSET Actions
    BY <1>0, <1>1 DEF Submit, AutomationTypeOK
  <2>2. Ran = {} /\ Ran' = {} /\ Failed' = {}
    BY <1>0, <1>1, <2>1, RowsUnchanged DEF PipeInv, Submit, Unstarted, Failed
  <2>3. CASE actions = {}
    BY <2>1, <2>2, <2>3, Starts DEF PipeInv, InOrder, Busy
  <2>4. CASE actions # {}
    <3>1. /\ y.at = "attempt" /\ y.todo = actions /\ y.of \in actions
          /\ \A b \in actions : y.of <= b
      BY <2>1, <2>4, Starts
    <3> QED
      BY <2>1, <2>2, <3>1 DEF PipeInv, Reached
  <2> QED
    BY <2>3, <2>4
<1>2. ASSUME NEW c \in Callers, Retry(c) PROVE PipeInv'
  <2>1. caller'[Submission] = caller[Submission] /\ UNCHANGED <<actions, runs, saves>>
    BY <1>0, <1>2, RetryBegins, CallersAssumption DEF OthersRest
  <2> QED
    BY <1>0, <2>1, RowsUnchanged, PipeRests
<1>3. ASSUME NEW c \in Callers, ResolveNextAttempt(c) \/ Execute(c) PROVE PipeInv'
  <2>1. /\ Busy(c) /\ SameAction(c, caller'[c].at) /\ UNCHANGED <<actions, runs, saves>>
    BY <1>3, ResolveGoes, ExecuteGoes DEF SameAction
  <2>2. c # Submission => caller'[Submission] = caller[Submission]
    BY <1>0, <2>1 DEF SameAction, OthersRest
  <2> QED
    BY <1>0, <2>1, <2>2, RowsUnchanged, PipeRests
<1>4. ASSUME NEW c \in Callers, Log(c) PROVE PipeInv'
  <2>1. caller[c].at \in {"logSuccess", "logFailure", "logSkip"} /\ Busy(c)
    BY <1>4, LogGoes
  <2>2. ASSUME NEW status \in {"success", "failed", "skipped"}, LogsRow(c, status)
        PROVE PipeInv'
    <3>1. CASE c = Submission
      BY <2>1, <2>2, <3>1, SubmissionLogs
    <3>2. CASE c # Submission
      <4>1. caller'[Submission] = caller[Submission] /\ UNCHANGED <<actions, saves>>
        BY <1>0, <2>2, <3>2 DEF LogsRow, Logged, RunInserted, OthersRest
      <4>2. Ran' = Ran /\ Failed' = Failed
        BY <2>1, <2>2, <3>2, InsertCounts, OthersRows DEF LogsRow
      <4> QED
        BY <4>1, <4>2, PipeRests
    <3> QED
      BY <3>1, <3>2
  <2>3. CASE TriesAgain(c)
    <3>1. /\ SameAction(c, caller'[c].at) /\ UNCHANGED <<actions, saves>>
          /\ c # Submission => caller'[Submission] = caller[Submission]
      BY <1>0, <2>3 DEF TriesAgain, SameAction, OthersRest
    <3>2. CASE UNCHANGED runs
      BY <1>0, <2>1, <3>1, <3>2, RowsUnchanged, PipeRests
    <3>3. CASE RunInserted(c, "success") /\ c # Submission
      <4>1. Ran' = Ran /\ Failed' = Failed
        BY <2>1, <3>3, OthersRows
      <4> QED
        BY <3>1, <3>3, <4>1, PipeRests
    <3>4. CASE RunInserted(c, "success") /\ c = Submission
      BY <2>1, <2>3, <3>4, SubmissionTriesAgain DEF TriesAgain
    <3> QED
      BY <2>3, <3>2, <3>3, <3>4 DEF TriesAgain
  <2>4. CASE Throws(c)
    <3>1. /\ caller'[c].at = "thrown" /\ UNCHANGED <<actions, saves>>
          /\ c # Submission => caller'[Submission] = caller[Submission]
      BY <1>0, <2>4 DEF Throws, OthersRest
    <3>2. CASE c = Submission
      BY <3>1, <3>2 DEF PipeInv, Busy
    <3>3. CASE c # Submission /\ UNCHANGED runs
      BY <1>0, <3>1, <3>3, RowsUnchanged, PipeRests
    <3>4. CASE c # Submission /\ runs' # runs
      <4>1. PICK status \in {"success", "failed", "skipped"} : RunInserted(c, status)
        BY <2>4, <3>4 DEF Throws
      <4>2. Ran' = Ran /\ Failed' = Failed
        BY <2>1, <3>4, <4>1, OthersRows
      <4> QED
        BY <3>1, <3>4, <4>2, PipeRests
    <3> QED
      BY <3>2, <3>3, <3>4
  <2> QED
    BY <1>4, <2>2, <2>3, <2>4, LogGoes
<1>5. ASSUME NEW c \in Callers, CutOff(c) PROVE PipeInv'
  <2>1. /\ caller'[c].at = "thrown" /\ UNCHANGED <<actions, runs, saves>>
        /\ c # Submission => caller'[Submission] = caller[Submission]
    BY <1>0, <1>5, CutOffGoes DEF Throws, OthersRest
  <2> QED
    BY <1>0, <2>1, RowsUnchanged, PipeRests
<1>6. CASE SetFormActions
  <2>1. \A a \in Actions : Rows(a)' = Rows(a)
    BY <1>6, SavedRows DEF Rows, RunsOfAction
  <2>2. Ran' = Ran /\ Failed' = Failed
    BY <1>0, <1>6, <2>1, SavedRows, RowsStay
  <2>3. caller' = caller /\ saves' # 0
    BY <1>6, SavedRows
  <2> QED
    BY <2>2, <2>3 DEF PipeInv, Reached, InOrder, Busy
<1>7. CASE UNCHANGED automationVars
  BY <1>0, <1>7, RowsUnchanged, PipeRests DEF automationVars
<1> QED
  BY <1>1, <1>2, <1>3, <1>4, <1>5, <1>6, <1>7 DEF AutomationNext

LEMMA PipeInvInit == AutomationInit => PipeInv
<1> SUFFICES ASSUME AutomationInit PROVE PipeInv
  OBVIOUS
<1>1. Ran = {}
  BY DEF AutomationInit, Ran, Rows, RunsOfAction
<1>2. caller[Submission].at = "idle"
  BY DEF AutomationInit, Callers, Unstarted
<1> QED
  BY <1>1, <1>2 DEF PipeInv, Busy

\* The actions of a submission run in their order, up to the first strict one whose last
\* attempt failed, and all of them if there is none: whatever is retried beside it.
THEOREM PipelineRunsInOrder == AutomationSpec => []PipelineOrder
<1>1. PipeInv => PipelineOrder
  BY DEF PipeInv, InOrder, PipelineOrder, Ran, Failed, Rows
<1> QED
  BY <1>1, LogInvInit, LogInvStep, PipeInvInit, PipeInvStep, PTL DEF AutomationSpec

-----------------------------------------------------------------------------
(* Events between tabs: what the map of counts remembers *)

\* The counts of e become c, but those in gone leave the map: to make room, or because
\* there is nothing to remember of them.
Remembers(e, c, gone) ==
  /\ \A d \in Remote : counts'[d] = IF d \in gone THEN NoCounts ELSE IF d = e THEN c ELSE counts[d]
  /\ counts' \in [Remote -> [canonical : Nat, legacy : Nat, delivered : Nat]]
  /\ evicted \subseteq evicted' /\ gone \subseteq evicted' \cup (IF InMap(c) THEN {} ELSE {e})

LEMMA RememberEffect ==
  ASSUME counts \in [Remote -> [canonical : Nat, legacy : Nat, delivered : Nat]],
         NEW e \in Remote, NEW c \in [canonical : Nat, legacy : Nat, delivered : Nat],
         Remember(e, c)
  PROVE  \E gone : Remembers(e, c, gone)
<1>0. NoCounts \in [canonical : Nat, legacy : Nat, delivered : Nat]
  BY DEF NoCounts
<1>1. \E list :
        \/ ~InMap(c) /\ counts' = [counts EXCEPT ![e] = NoCounts] /\ evicted' = evicted
        \/ /\ counts' = [counts EXCEPT ![e] = c, ![Head(list)] = NoCounts]
           /\ evicted' = evicted \cup {Head(list)}
        \/ counts' = [counts EXCEPT ![e] = c] /\ evicted' = evicted
  BY DEF Remember
<1>2. PICK first :
        \/ ~InMap(c) /\ counts' = [counts EXCEPT ![e] = NoCounts] /\ evicted' = evicted
        \/ /\ counts' = [counts EXCEPT ![e] = c, ![first] = NoCounts]
           /\ evicted' = evicted \cup {first}
        \/ counts' = [counts EXCEPT ![e] = c] /\ evicted' = evicted
  BY <1>1
<1>3. CASE ~InMap(c) /\ counts' = [counts EXCEPT ![e] = NoCounts] /\ evicted' = evicted
  <2>1. Remembers(e, c, {e})
    BY <1>0, <1>3 DEF Remembers
  <2> QED
    BY <2>1
<1>4. CASE /\ counts' = [counts EXCEPT ![e] = c, ![first] = NoCounts]
           /\ evicted' = evicted \cup {first}
  <2>1. Remembers(e, c, {first})
    BY <1>0, <1>4 DEF Remembers
  <2> QED
    BY <2>1
<1>5. CASE counts' = [counts EXCEPT ![e] = c] /\ evicted' = evicted
  <2>1. Remembers(e, c, {})
    BY <1>5 DEF Remembers
  <2> QED
    BY <2>1
<1> QED
  BY <1>2, <1>3, <1>4, <1>5

-----------------------------------------------------------------------------
(* Events between tabs: the tally of one event *)

Counts == [canonical : Nat, legacy : Nat, delivered : Nat]

\* What deliverRemote makes of the counts c when a copy arrives on t.
Seen(c, t) == [c EXCEPT ![t] = @ + 1]
Told(c, t) ==
  IF CallsHandler(Seen(c, t)) THEN [Seen(c, t) EXCEPT !.delivered = @ + 1] ELSE Seen(c, t)
Calls(c, t) == IF CallsHandler(Seen(c, t)) THEN 1 ELSE 0

\* The handler was called for every copy that arrived, on either channel: a1 and a2 arrived,
\* and it was called h times.  It was not called more often unless the map forgot the event.
Tally(c, a1, a2, h) ==
  /\ c.canonical <= c.delivered /\ c.legacy <= c.delivered
  /\ a1 + c.delivered <= h + c.canonical /\ a2 + c.delivered <= h + c.legacy
Exact(c, a1, a2, h) ==
  /\ c.delivered = Larger(c.canonical, c.legacy)
  /\ a1 + c.delivered = h + c.canonical /\ a2 + c.delivered = h + c.legacy

LEMMA SeenCopy ==
  ASSUME NEW c \in Counts, NEW t \in Transports
  PROVE  /\ Seen(c, t) \in Counts /\ Seen(c, t).delivered = c.delivered
         /\ Seen(c, t).canonical = c.canonical + (IF t = "canonical" THEN 1 ELSE 0)
         /\ Seen(c, t).legacy = c.legacy + (IF t = "legacy" THEN 1 ELSE 0)
<1>1. CASE t = "canonical"
  BY <1>1 DEF Seen, Counts
<1>2. CASE t = "legacy"
  BY <1>2 DEF Seen, Counts
<1> QED
  BY <1>1, <1>2 DEF Transports

LEMMA ToldCopy ==
  ASSUME NEW c \in Counts, NEW t \in Transports
  PROVE  /\ Told(c, t) \in Counts /\ Calls(c, t) \in {0, 1}
         /\ Told(c, t).canonical = Seen(c, t).canonical /\ Told(c, t).legacy = Seen(c, t).legacy
         /\ Told(c, t).delivered = c.delivered + Calls(c, t)
<1> DEFINE s == Seen(c, t)
<1>1. s \in Counts /\ s.delivered = c.delivered
  BY SeenCopy
<1> HIDE DEF s
<1>2. /\ [s EXCEPT !.delivered = @ + 1] \in Counts
      /\ [s EXCEPT !.delivered = @ + 1].canonical = s.canonical
      /\ [s EXCEPT !.delivered = @ + 1].legacy = s.legacy
      /\ [s EXCEPT !.delivered = @ + 1].delivered = s.delivered + 1
  BY <1>1 DEF Counts
<1>3. s.delivered \in Nat
  BY <1>1 DEF Counts
<1>4. CASE CallsHandler(s)
  BY <1>1, <1>2, <1>4 DEF Told, Calls, s
<1>5. CASE ~CallsHandler(s)
  BY <1>1, <1>3, <1>5 DEF Told, Calls, s
<1> QED
  BY <1>4, <1>5

LEMMA PairedCounts ==
  ASSUME NEW c \in Counts, c.canonical <= c.delivered, c.legacy <= c.delivered
  PROVE  /\ Paired(c) \in Counts
         /\ \E n \in Nat : /\ Paired(c).canonical + n = c.canonical
                           /\ Paired(c).legacy + n = c.legacy
                           /\ Paired(c).delivered + n = c.delivered
  BY DEF Counts, Paired, Smaller

\* One copy more, and the tally still is right.
LEMMA TallyCopy ==
  ASSUME NEW c \in Counts, NEW t \in Transports, NEW a1 \in Nat, NEW a2 \in Nat, NEW h \in Nat,
         Tally(c, a1, a2, h), NEW b1, NEW b2, NEW n,
         b1 = a1 + (IF t = "canonical" THEN 1 ELSE 0),
         b2 = a2 + (IF t = "legacy" THEN 1 ELSE 0), n = h + Calls(c, t)
  PROVE  /\ Paired(Told(c, t)) \in Counts /\ b1 \in Nat /\ b2 \in Nat /\ n \in Nat
         /\ Tally(Paired(Told(c, t)), b1, b2, n)
         /\ Exact(c, a1, a2, h) => Exact(Paired(Told(c, t)), b1, b2, n)
<1> DEFINE s == Seen(c, t)
           x == Told(c, t)
           y == Paired(x)
<1>1. /\ s \in Counts /\ x \in Counts /\ Calls(c, t) \in {0, 1} /\ s.delivered = c.delivered
      /\ s.canonical = c.canonical + (IF t = "canonical" THEN 1 ELSE 0)
      /\ s.legacy = c.legacy + (IF t = "legacy" THEN 1 ELSE 0)
      /\ x.canonical = s.canonical /\ x.legacy = s.legacy
      /\ x.delivered = c.delivered + Calls(c, t)
  BY SeenCopy, ToldCopy
<1>2. Calls(c, t) = IF Larger(s.canonical, s.legacy) > s.delivered THEN 1 ELSE 0
  BY DEF Calls, CallsHandler
<1>3. /\ c.canonical \in Nat /\ c.legacy \in Nat /\ c.delivered \in Nat
      /\ x.canonical \in Nat /\ x.legacy \in Nat /\ x.delivered \in Nat
  BY <1>1 DEF Counts
<1> HIDE DEF s, x
<1>4. x.canonical <= x.delivered /\ x.legacy <= x.delivered
  BY <1>1, <1>2, <1>3 DEF Tally, Larger, Transports
<1>5. y \in Counts
  BY <1>1, <1>4, PairedCounts
<1>6. PICK p \in Nat : /\ y.canonical + p = x.canonical /\ y.legacy + p = x.legacy
                       /\ y.delivered + p = x.delivered
  BY <1>1, <1>4, PairedCounts
<1>7. y.canonical \in Nat /\ y.legacy \in Nat /\ y.delivered \in Nat
  BY <1>5 DEF Counts
<1> HIDE DEF y
<1>8. b1 \in Nat /\ b2 \in Nat /\ n \in Nat
  BY <1>1
<1>9. Tally(y, b1, b2, n)
  BY <1>1, <1>3, <1>4, <1>6, <1>7, <1>8 DEF Tally, Transports
<1>10. ASSUME Exact(c, a1, a2, h) PROVE Exact(y, b1, b2, n)
  <2>1. x.delivered = Larger(x.canonical, x.legacy)
    BY <1>1, <1>2, <1>3, <1>10 DEF Exact, Larger, Transports
  <2>2. y.delivered = Larger(y.canonical, y.legacy)
    BY <1>3, <1>6, <1>7, <2>1 DEF Larger
  <2>3. b1 + x.delivered = n + x.canonical /\ b2 + x.delivered = n + x.legacy
    BY <1>1, <1>3, <1>10 DEF Exact
  <2>4. b1 + y.delivered = n + y.canonical /\ b2 + y.delivered = n + y.legacy
    BY <1>3, <1>6, <1>7, <1>8, <2>3
  <2> QED
    BY <2>2, <2>4 DEF Exact
<1> QED
  BY <1>5, <1>8, <1>9, <1>10 DEF x, y

\* What the map forgot is tallied from nothing.
LEMMA TallyForgets ==
  ASSUME NEW c \in Counts, NEW a1 \in Nat, NEW a2 \in Nat, NEW h \in Nat, Tally(c, a1, a2, h)
  PROVE  /\ NoCounts \in Counts /\ Tally(NoCounts, a1, a2, h)
         /\ Exact(c, a1, a2, h) /\ ~InMap(c) => Exact(NoCounts, a1, a2, h)
  BY DEF Counts, NoCounts, Tally, Exact, InMap, Larger

LEMMA TallyExact ==
  ASSUME NEW c \in Counts, NEW a1 \in Nat, NEW a2 \in Nat, NEW h \in Nat, Exact(c, a1, a2, h)
  PROVE  h = Larger(a1, a2)
  BY DEF Counts, Exact, Larger
-----------------------------------------------------------------------------
(* Events between tabs: copies on their way *)

Copies(e, q) == {i \in DOMAIN q : q[i] = e}

LEMMA CopiesFinite ==
  ASSUME NEW q \in Seq(Events), NEW e
  PROVE  IsFiniteSet(Copies(e, q)) /\ Cardinality(Copies(e, q)) \in Nat
<1>1. Len(q) \in Nat /\ Copies(e, q) \in SUBSET (1..Len(q))
  BY DEF Copies
<1>2. IsFiniteSet(1..Len(q))
  BY <1>1, FS_Interval
<1> QED
  BY <1>1, <1>2, FS_Subset, FS_CardinalityType

LEMMA CopiesAppended ==
  ASSUME NEW q \in Seq(Events), NEW d \in Events, NEW e
  PROVE  Cardinality(Copies(e, Append(q, d))) = Cardinality(Copies(e, q)) + (IF d = e THEN 1 ELSE 0)
<1> DEFINE n == Len(q) + 1
           r == Append(q, d)
<1>1. /\ DOMAIN r = DOMAIN q \cup {n} /\ n \notin DOMAIN q /\ r[n] = d
      /\ \A i \in DOMAIN q : r[i] = q[i]
  OBVIOUS
<1> HIDE DEF r, n
<1>2. IsFiniteSet(Copies(e, q)) /\ Cardinality(Copies(e, q)) \in Nat /\ n \notin Copies(e, q)
  BY <1>1, CopiesFinite DEF Copies
<1>3. CASE d = e
  <2>1. Copies(e, r) = Copies(e, q) \cup {n}
    BY <1>1, <1>3 DEF Copies
  <2> QED
    BY <1>2, <1>3, <2>1, FS_AddElement DEF r
<1>4. CASE d # e
  <2>1. Copies(e, r) = Copies(e, q)
    BY <1>1, <1>4 DEF Copies
  <2> QED
    BY <1>2, <1>4, <2>1 DEF r
<1> QED
  BY <1>3, <1>4

LEMMA CopiesTaken ==
  ASSUME NEW q \in Seq(Events), q # << >>, NEW e
  PROVE  Cardinality(Copies(e, q)) =
           Cardinality(Copies(e, Tail(q))) + (IF Head(q) = e THEN 1 ELSE 0)
<1> DEFINE r == Tail(q)
           S == Copies(e, r)
           T == Copies(e, q) \ {1}
           f == [i \in S |-> i + 1]
<1>1. /\ Len(q) \in Nat \ {0} /\ r \in Seq(Events) /\ DOMAIN r = 1..(Len(q) - 1)
      /\ \A i \in DOMAIN r : r[i] = q[i + 1]
      /\ DOMAIN q = 1..Len(q) /\ Head(q) = q[1]
  OBVIOUS
<1> HIDE DEF r
<1>2. IsFiniteSet(S) /\ IsFiniteSet(Copies(e, q)) /\ Cardinality(S) \in Nat
      /\ Cardinality(Copies(e, q)) \in Nat
  BY <1>1, CopiesFinite
<1>3. f \in Bijection(S, T)
  <2>1. \A i \in S : i \in Nat /\ i + 1 \in T
    BY <1>1 DEF Copies
  <2>2. \A j \in T : j - 1 \in S /\ (j - 1) + 1 = j
    BY <1>1 DEF Copies
  <2>3. f \in [S -> T] /\ IsInjective(f)
    BY <2>1 DEF IsInjective
  <2>4. \A j \in T : \E i \in S : f[i] = j
    BY <2>2
  <2> QED
    BY <2>3, <2>4 DEF Bijection, Injection, Surjection
<1>4. Cardinality(T) = Cardinality(S)
  BY <1>2, <1>3, FS_Bijection DEF ExistsBijection
<1>5. 1 \in Copies(e, q) <=> Head(q) = e
  BY <1>1 DEF Copies
<1>6. Cardinality(T) = IF Head(q) = e THEN Cardinality(Copies(e, q)) - 1
                       ELSE Cardinality(Copies(e, q))
  BY <1>2, <1>5, FS_RemoveElement
<1>7. Cardinality(Copies(e, q)) = Cardinality(S) + (IF Head(q) = e THEN 1 ELSE 0)
  <2> HIDE DEF S, T
  <2> QED
    BY <1>2, <1>4, <1>6
<1> QED
  BY <1>7 DEF r
-----------------------------------------------------------------------------
(* Events between tabs: the subscription *)

BusTyped ==
  /\ inbox \in [Transports -> Seq(Events)] /\ counts \in [Remote -> Counts]
  /\ handled \in [Events -> Nat] /\ broadcasts \in [Events -> Nat]
  /\ arrived \in [Transports -> [Events -> Nat]]

\* Every tab sends its events on the legacy channel.
Underway(e) ==
  arrived["legacy"][e] + Cardinality(Copies(e, inbox["legacy"])) = broadcasts[e]

TallyOf(e) ==
  /\ Tally(counts[e], arrived["canonical"][e], arrived["legacy"][e], handled[e])
  /\ e \notin evicted =>
       Exact(counts[e], arrived["canonical"][e], arrived["legacy"][e], handled[e])

BusInv ==
  /\ BusTyped
  /\ \A e \in Own : handled[e] = broadcasts[e]
  /\ \A e \in Remote : Underway(e) /\ TallyOf(e)

LEMMA EventSets ==
  /\ Remote \subseteq Events /\ Own \subseteq Events /\ Events = Remote \cup Own
  /\ Remote \cap Own = {} /\ Remote = Modern \cup Old
  /\ Transports = {"canonical", "legacy"} /\ "legacy" \in Transports /\ "canonical" \in Transports
  BY BusAssumption DEF Events, Remote, Transports

LEMMA BusInvInit == BusInit => BusInv
<1> SUFFICES ASSUME BusInit PROVE BusInv
  OBVIOUS
<1>1. BusTyped
  BY EventSets DEF BusInit, BusTyped, Counts, NoCounts
<1>2. \A e \in Own : handled[e] = broadcasts[e]
  BY EventSets DEF BusInit
<1>3. \A e \in Remote : Underway(e)
  <2> TAKE e \in Remote
  <2>1. Copies(e, inbox["legacy"]) = {}
    BY EventSets DEF BusInit, Copies
  <2>2. Cardinality(Copies(e, inbox["legacy"])) = 0
    BY <2>1, FS_EmptySet
  <2>3. arrived["legacy"][e] = 0 /\ broadcasts[e] = 0
    BY EventSets DEF BusInit
  <2> QED
    BY <2>2, <2>3 DEF Underway
<1>4. \A e \in Remote : TallyOf(e)
  BY EventSets DEF BusInit, TallyOf, Tally, Exact, NoCounts, Larger
<1> QED
  BY <1>1, <1>2, <1>3, <1>4 DEF BusInv

LEMMA BroadcastStep ==
  ASSUME BusInv, NEW e \in Events, Broadcast(e)
  PROVE  BusInv'
<1>1. /\ broadcasts' \in [Events -> Nat] /\ broadcasts'[e] = broadcasts[e] + 1
      /\ \A d \in Events \ {e} : broadcasts'[d] = broadcasts[d]
      /\ broadcasts[e] \in Nat
  BY DEF Broadcast, BusInv, BusTyped
<1>2. /\ handled' \in [Events -> Nat]
      /\ \A d \in Events \ {e} : handled'[d] = handled[d]
      /\ handled'[e] = IF e \in Own THEN handled[e] + 1 ELSE handled[e]
  BY DEF Broadcast, BusInv, BusTyped
<1>3. inbox' \in [Transports -> Seq(Events)] /\ inbox'["legacy"] = Append(inbox["legacy"], e)
      /\ inbox["legacy"] \in Seq(Events)
  BY EventSets DEF Broadcast, BusInv, BusTyped
<1>4. UNCHANGED <<counts, arrived, evicted>>
  BY DEF Broadcast
<1>5. BusTyped'
  BY <1>1, <1>2, <1>3, <1>4 DEF BusInv, BusTyped
<1>6. \A d \in Own : handled'[d] = broadcasts'[d]
  BY <1>1, <1>2, EventSets DEF BusInv
<1>7. ASSUME NEW d \in Remote PROVE Underway(d)'
  <2>1. Cardinality(Copies(d, inbox["legacy"])) \in Nat
    BY <1>3, CopiesFinite
  <2>4. arrived["legacy"][d] \in Nat
    BY EventSets DEF BusInv, BusTyped
  <2>2. Cardinality(Copies(d, inbox'["legacy"])) =
          Cardinality(Copies(d, inbox["legacy"])) + (IF e = d THEN 1 ELSE 0)
    BY <1>3, CopiesAppended
  <2>3. broadcasts'[d] = broadcasts[d] + (IF e = d THEN 1 ELSE 0)
    BY <1>1, EventSets DEF BusInv, BusTyped
  <2> QED
    BY <1>4, <2>1, <2>2, <2>3, <2>4 DEF BusInv, Underway
<1>8. \A d \in Remote : TallyOf(d)'
  BY <1>2, <1>4, EventSets DEF BusInv, TallyOf
<1> QED
  BY <1>5, <1>6, <1>7, <1>8 DEF BusInv

\* What a delivery does besides the counts.
LEMMA Delivered ==
  ASSUME BusInv, NEW t \in Transports, DeliverRemote(t), NEW e, e = Head(inbox[t])
  PROVE  /\ e \in Events /\ inbox' \in [Transports -> Seq(Events)]
         /\ arrived' \in [Transports -> [Events -> Nat]] /\ UNCHANGED broadcasts
         /\ \A u \in Transports, d \in Events :
              /\ arrived[u][d] \in Nat
              /\ arrived'[u][d] = arrived[u][d] + (IF u = t /\ d = e THEN 1 ELSE 0)
         /\ \A d \in Remote : Underway(d)'
<1>1. /\ inbox[t] \in Seq(Events) /\ inbox[t] # << >> /\ e \in Events
      /\ inbox' = [inbox EXCEPT ![t] = Tail(@)] /\ Tail(inbox[t]) \in Seq(Events)
      /\ arrived' = [arrived EXCEPT ![t][e] = @ + 1] /\ UNCHANGED broadcasts
  <2>1. inbox[t] \in Seq(Events)
    BY DEF BusInv, BusTyped
  <2>2. /\ inbox[t] # << >> /\ inbox' = [inbox EXCEPT ![t] = Tail(@)] /\ UNCHANGED broadcasts
        /\ arrived' = [arrived EXCEPT ![t][e] = @ + 1]
    BY DEF DeliverRemote
  <2> QED
    BY <2>1, <2>2, HeadTailProperties
<1>2. inbox' \in [Transports -> Seq(Events)] /\ inbox'[t] = Tail(inbox[t])
      /\ \A u \in Transports \ {t} : inbox'[u] = inbox[u]
  BY <1>1 DEF BusInv, BusTyped
<1>3. /\ arrived' \in [Transports -> [Events -> Nat]]
      /\ \A u \in Transports, d \in Events :
           /\ arrived[u][d] \in Nat
           /\ arrived'[u][d] = arrived[u][d] + (IF u = t /\ d = e THEN 1 ELSE 0)
  BY <1>1 DEF BusInv, BusTyped
<1>4. ASSUME NEW d \in Remote PROVE Underway(d)'
  <2>1. Cardinality(Copies(d, inbox'["legacy"])) + (IF t = "legacy" /\ d = e THEN 1 ELSE 0)
          = Cardinality(Copies(d, inbox["legacy"]))
    <3>1. inbox["legacy"] \in Seq(Events) /\ inbox'["legacy"] \in Seq(Events)
      BY <1>2, EventSets DEF BusInv, BusTyped
    <3>2. /\ Cardinality(Copies(d, inbox["legacy"])) \in Nat
          /\ Cardinality(Copies(d, inbox'["legacy"])) \in Nat
      BY <3>1, CopiesFinite
    <3>3. CASE t = "legacy"
      BY <1>1, <1>2, <3>2, <3>3, CopiesTaken
    <3>4. CASE t # "legacy"
      BY <1>2, <3>2, <3>4, EventSets
    <3> QED
      BY <3>3, <3>4
  <2>2. /\ arrived["legacy"][d] \in Nat
        /\ arrived'["legacy"][d] = arrived["legacy"][d] + (IF t = "legacy" /\ d = e THEN 1 ELSE 0)
    BY <1>3, EventSets
  <2>3. Cardinality(Copies(d, inbox'["legacy"])) \in Nat
    BY <1>2, CopiesFinite, EventSets
  <2>4. arrived["legacy"][d] + Cardinality(Copies(d, inbox["legacy"])) = broadcasts[d]
    BY DEF BusInv, Underway
  <2> QED
    BY <1>1, <2>1, <2>2, <2>3, <2>4 DEF Underway
<1> QED
  BY <1>1, <1>2, <1>3, <1>4

LEMMA DeliverStep ==
  ASSUME BusInv, NEW t \in Transports, DeliverRemote(t)
  PROVE  BusInv'
<1> DEFINE e == Head(inbox[t])
<1>1. /\ e \in Events /\ inbox' \in [Transports -> Seq(Events)]
      /\ arrived' \in [Transports -> [Events -> Nat]] /\ UNCHANGED broadcasts
      /\ \A u \in Transports, d \in Events :
           /\ arrived[u][d] \in Nat
           /\ arrived'[u][d] = arrived[u][d] + (IF u = t /\ d = e THEN 1 ELSE 0)
      /\ \A d \in Remote : Underway(d)'
  BY Delivered
<1>2. CASE e \in Own
  <2>1. UNCHANGED <<counts, handled, evicted>>
    BY <1>2 DEF DeliverRemote
  <2>2. BusTyped'
    BY <1>1, <2>1 DEF BusInv, BusTyped
  <2>3. \A d \in Remote : /\ arrived'["canonical"][d] = arrived["canonical"][d]
                          /\ arrived'["legacy"][d] = arrived["legacy"][d]
    <3> HIDE DEF e
    <3> TAKE d \in Remote
    <3>1. d # e /\ d \in Events
      BY <1>2, EventSets
    <3> QED
      BY <1>1, <3>1, EventSets
  <2>4. \A d \in Remote : TallyOf(d)'
    BY <2>1, <2>3 DEF BusInv, TallyOf
  <2> QED
    BY <1>1, <2>1, <2>2, <2>4 DEF BusInv
<1>3. CASE e \in Remote
  <2>1. /\ Remember(e, Paired(Told(counts[e], t)))
        /\ handled' = IF CallsHandler(Seen(counts[e], t)) THEN [handled EXCEPT ![e] = @ + 1]
                      ELSE handled
    BY <1>3, EventSets DEF DeliverRemote, Told, Seen
  <2>2. /\ handled' \in [Events -> Nat] /\ handled'[e] = handled[e] + Calls(counts[e], t)
        /\ \A d \in Events \ {e} : handled'[d] = handled[d]
    BY <1>1, <2>1 DEF Calls, BusInv, BusTyped
  <2>3. /\ \A d \in Remote : counts[d] \in Counts
        /\ \A d \in Events : /\ arrived["canonical"][d] \in Nat /\ arrived["legacy"][d] \in Nat
                             /\ handled[d] \in Nat
    BY EventSets DEF BusInv, BusTyped
  <2>4. /\ arrived'["canonical"][e] =
             arrived["canonical"][e] + (IF t = "canonical" THEN 1 ELSE 0)
        /\ arrived'["legacy"][e] = arrived["legacy"][e] + (IF t = "legacy" THEN 1 ELSE 0)
        /\ \A d \in Events \ {e} : /\ arrived'["canonical"][d] = arrived["canonical"][d]
                                   /\ arrived'["legacy"][d] = arrived["legacy"][d]
    BY <1>1, <2>3, EventSets
  <2> DEFINE x == Paired(Told(counts[e], t))
  <2> HIDE DEF e
  <2>5. /\ x \in Counts
        /\ Tally(x, arrived'["canonical"][e], arrived'["legacy"][e], handled'[e])
        /\ e \notin evicted =>
             Exact(x, arrived'["canonical"][e], arrived'["legacy"][e], handled'[e])
    <3>1. Tally(counts[e], arrived["canonical"][e], arrived["legacy"][e], handled[e])
      BY <1>3 DEF BusInv, TallyOf
    <3>2. e \notin evicted =>
            Exact(counts[e], arrived["canonical"][e], arrived["legacy"][e], handled[e])
      BY <1>3 DEF BusInv, TallyOf
    <3>3. /\ counts[e] \in Counts /\ handled[e] \in Nat
          /\ arrived["canonical"][e] \in Nat /\ arrived["legacy"][e] \in Nat
      BY <1>3, <2>3, EventSets
    <3>4. handled'[e] = handled[e] + Calls(counts[e], t)
      BY <2>2
    <3>5. /\ arrived'["canonical"][e] =
               arrived["canonical"][e] + (IF t = "canonical" THEN 1 ELSE 0)
          /\ arrived'["legacy"][e] = arrived["legacy"][e] + (IF t = "legacy" THEN 1 ELSE 0)
      BY <2>4
    <3> QED
      BY <3>1, <3>2, <3>3, <3>4, <3>5, TallyCopy, Zenon
  <2> HIDE DEF x
  <2>6. PICK gone : Remembers(e, x, gone)
    BY <1>3, <2>1, <2>5, RememberEffect DEF BusInv, BusTyped, Counts, x
  <2>7. ASSUME NEW d \in Remote PROVE TallyOf(d)'
    <3> DEFINE y == IF d = e THEN x ELSE counts[d]
    <3>1. /\ y \in Counts
          /\ Tally(y, arrived'["canonical"][d], arrived'["legacy"][d], handled'[d])
          /\ d \notin evicted =>
               Exact(y, arrived'["canonical"][d], arrived'["legacy"][d], handled'[d])
      <4>1. CASE d = e
        BY <2>5, <4>1
      <4>2. CASE d # e
        BY <2>2, <2>3, <2>4, <4>2, EventSets DEF BusInv, TallyOf
      <4> QED
        BY <4>1, <4>2
    <3>2. /\ arrived'["canonical"][d] \in Nat /\ arrived'["legacy"][d] \in Nat
          /\ handled'[d] \in Nat
      BY <1>1, <2>2, EventSets
    <3>3. counts'[d] = IF d \in gone THEN NoCounts ELSE y
      BY <2>6 DEF Remembers
    <3>4. d \in gone /\ d \notin evicted' => d = e /\ ~InMap(x)
      BY <2>6 DEF Remembers
    <3>5. d \notin evicted' => d \notin evicted
      BY <2>6 DEF Remembers
    <3>6. d \in gone /\ d \notin evicted' => ~InMap(y)
      BY <3>4
    <3> HIDE DEF y
    <3>7. CASE d \in gone
      BY <3>1, <3>2, <3>3, <3>5, <3>6, <3>7, TallyForgets DEF TallyOf
    <3>8. CASE d \notin gone
      BY <3>1, <3>3, <3>5, <3>8 DEF TallyOf
    <3> QED
      BY <3>7, <3>8
  <2>8. BusTyped'
    BY <1>1, <2>2, <2>6 DEF BusInv, BusTyped, Remembers, Counts
  <2>9. \A d \in Own : handled'[d] = broadcasts'[d]
    BY <1>1, <1>3, <2>2, EventSets DEF BusInv
  <2> QED
    BY <1>1, <2>7, <2>8, <2>9 DEF BusInv
<1> QED
  BY <1>1, <1>2, <1>3, EventSets

LEMMA BusInvHolds == BusSpec => []BusInv
<1>1. BusInv /\ [BusNext]_busVars => BusInv'
  <2>1. ASSUME BusInv, UNCHANGED busVars PROVE BusInv'
    <3>1. UNCHANGED <<inbox, counts, handled, broadcasts, arrived, evicted>>
      BY <2>1 DEF busVars
    <3>2. BusTyped'
      BY <2>1, <3>1 DEF BusInv, BusTyped
    <3> QED
      BY <2>1, <3>1, <3>2 DEF BusInv, Underway, TallyOf
  <2> QED
    BY <2>1, BroadcastStep, DeliverStep DEF BusNext
<1> QED
  BY <1>1, BusInvInit, PTL DEF BusSpec

\* An event is handled with the first copy of it that either channel brings and not with
\* the second, in whatever order they come, as long as the map did not forget it.
THEOREM CopiesHandledOnce == BusSpec => []HandledOnce
<1>1. ASSUME BusInv PROVE HandledOnce
  <2>1. ASSUME NEW e \in Remote, e \notin evicted
        PROVE  handled[e] = Larger(arrived["canonical"][e], arrived["legacy"][e])
    <3>1. /\ counts[e] \in Counts /\ handled[e] \in Nat
          /\ arrived["canonical"][e] \in Nat /\ arrived["legacy"][e] \in Nat
      BY <1>1, EventSets DEF BusInv, BusTyped
    <3> QED
      BY <1>1, <2>1, <3>1, TallyExact DEF BusInv, TallyOf
  <2> QED
    BY <1>1, <2>1, EventSets DEF HandledOnce, BusInv
<1> QED
  BY <1>1, BusInvHolds, PTL

\* What has arrived was handled as often as it was broadcast, at least: the map may forget
\* an identity and tell of it again, and never keeps an event back.
THEOREM NoEventLost == BusSpec => []NothingLost
<1>1. ASSUME BusInv, NEW e \in Events, \A t \in Transports : e \notin Range(inbox[t])
      PROVE  handled[e] >= broadcasts[e]
  <2>1. CASE e \in Own
    BY <1>1, <2>1, EventSets DEF BusInv, BusTyped
  <2>2. CASE e \in Remote
    <3>1. Copies(e, inbox["legacy"]) = {}
      BY <1>1, EventSets DEF Range, Copies
    <3>2. /\ counts[e] \in Counts /\ handled[e] \in Nat /\ arrived["legacy"][e] \in Nat
          /\ broadcasts[e] \in Nat
      BY <1>1, <2>2, EventSets DEF BusInv, BusTyped
    <3>3. arrived["legacy"][e] = broadcasts[e]
      <4>1. Cardinality(Copies(e, inbox["legacy"])) = 0
        BY <3>1, FS_EmptySet
      <4> QED
        BY <1>1, <2>2, <3>2, <4>1 DEF BusInv, Underway
    <3>4. /\ counts[e].legacy <= counts[e].delivered
          /\ arrived["legacy"][e] + counts[e].delivered <= handled[e] + counts[e].legacy
      BY <1>1, <2>2 DEF BusInv, TallyOf, Tally
    <3> QED
      BY <3>2, <3>3, <3>4 DEF Counts
  <2> QED
    BY <2>1, <2>2, EventSets
<1>2. BusInv => NothingLost
  BY <1>1 DEF NothingLost
<1> QED
  BY <1>2, BusInvHolds, PTL

-----------------------------------------------------------------------------
(* Events between tabs: the map and the order of its identities *)

\* The list of the identities counted last holds those of the map, once each.
Listing ==
  /\ counts \in [Remote -> Counts]
  /\ recent \in Seq(Remote) /\ IsInjective(recent) /\ Len(recent) <= MaxIdentities
  /\ Range(recent) = {e \in Remote : InMap(counts[e])}

LEMMA RememberLists ==
  ASSUME Listing, NEW e \in Remote, NEW c \in Counts, Remember(e, c) PROVE Listing'
<1> DEFINE others == Without(recent, {e})
           list == Append(others, e)
<1>1. /\ others \in Seq(Remote) /\ IsInjective(others)
      /\ Range(others) = Range(recent) \ {e}
      /\ Len(others) <= Len(recent)
  BY WithoutFacts DEF Listing
<1>2. \/ /\ ~InMap(c) /\ counts' = [counts EXCEPT ![e] = NoCounts] /\ recent' = others
      \/ /\ InMap(c) /\ Overflowing(list)
         /\ counts' = [counts EXCEPT ![e] = c, ![Head(list)] = NoCounts] /\ recent' = Tail(list)
      \/ /\ InMap(c) /\ ~Overflowing(list)
         /\ counts' = [counts EXCEPT ![e] = c] /\ recent' = list
  BY DEF Remember
<1> HIDE DEF others
<1>3. /\ list \in Seq(Remote) /\ IsInjective(list)
      /\ Range(list) = Range(others) \cup {e} /\ Len(list) = Len(others) + 1
  BY <1>1, AppendFacts
<1> HIDE DEF list
<1>4. /\ Len(recent) \in Nat /\ Len(others) \in Nat /\ Len(list) \in Nat /\ MaxIdentities \in Nat
      /\ Len(recent) <= MaxIdentities
  BY <1>1, <1>3, LenProperties, BusAssumption DEF Listing
<1>5. NoCounts \in Counts /\ ~InMap(NoCounts)
  BY DEF NoCounts, Counts, InMap
<1>6. CASE ~InMap(c) /\ counts' = [counts EXCEPT ![e] = NoCounts] /\ recent' = others
  <2>1. Len(others) <= MaxIdentities
    BY <1>1, <1>4
  <2>2. counts' \in [Remote -> Counts]
        /\ \A d \in Remote : counts'[d] = IF d = e THEN NoCounts ELSE counts[d]
    BY <1>5, <1>6 DEF Listing
  <2> QED BY <1>1, <1>5, <1>6, <2>1, <2>2 DEF Listing
<1>7. CASE /\ InMap(c) /\ Overflowing(list)
           /\ counts' = [counts EXCEPT ![e] = c, ![Head(list)] = NoCounts] /\ recent' = Tail(list)
  <2>1. list # << >>
    BY <1>1, <1>3, <1>4, EmptySeq
  <2>2. /\ Head(list) \in Range(list) /\ Tail(list) \in Seq(Remote) /\ IsInjective(Tail(list))
        /\ Range(Tail(list)) = Range(list) \ {Head(list)} /\ Len(Tail(list)) = Len(list) - 1
    BY <1>3, <2>1, TailFacts
  <2>3. Len(Tail(list)) <= MaxIdentities
    BY <1>1, <1>3, <1>4, <2>2
  <2>4. Head(list) \in Remote
    BY <1>3, <2>1, HeadTailProperties
  <2>5. /\ counts' \in [Remote -> Counts]
        /\ \A d \in Remote : counts'[d] = IF d = Head(list) THEN NoCounts
                                          ELSE IF d = e THEN c ELSE counts[d]
    BY <1>5, <1>7, <2>4 DEF Listing
  <2> QED BY <1>1, <1>3, <1>5, <1>7, <2>2, <2>3, <2>5 DEF Listing
<1>8. CASE /\ InMap(c) /\ ~Overflowing(list)
           /\ counts' = [counts EXCEPT ![e] = c] /\ recent' = list
  <2>1. Len(list) <= MaxIdentities
    BY <1>4, <1>8 DEF Overflowing
  <2>2. /\ counts' \in [Remote -> Counts]
        /\ \A d \in Remote : counts'[d] = IF d = e THEN c ELSE counts[d]
    BY <1>8 DEF Listing
  <2> QED BY <1>1, <1>3, <1>8, <2>1, <2>2 DEF Listing
<1> QED BY <1>2, <1>6, <1>7, <1>8

LEMMA ListingStep ==
  ASSUME BusInv, Listing, [BusNext]_busVars PROVE Listing'
<1>1. ASSUME UNCHANGED <<counts, recent>> PROVE Listing'
  BY <1>1 DEF Listing
<1>2. ASSUME NEW e \in Events, Broadcast(e) PROVE Listing'
  BY <1>1, <1>2 DEF Broadcast
<1>3. ASSUME NEW t \in Transports, DeliverRemote(t) PROVE Listing'
  <2>1. PICK e \in Events : e = Head(inbox[t])
    BY <1>3, Delivered
  <2>2. CASE e \in Own
    BY <1>1, <1>3, <2>1, <2>2 DEF DeliverRemote
  <2>3. CASE e \in Remote
    <3>1. Remember(e, Paired(Told(counts[e], t)))
      BY <1>3, <2>1, <2>3, EventSets DEF DeliverRemote, Told, Seen
    <3>2. /\ counts[e] \in Counts /\ arrived["canonical"][e] \in Nat
          /\ arrived["legacy"][e] \in Nat /\ handled[e] \in Nat
          /\ Tally(counts[e], arrived["canonical"][e], arrived["legacy"][e], handled[e])
      BY <2>3, EventSets DEF BusInv, BusTyped, TallyOf
    <3>3. Paired(Told(counts[e], t)) \in Counts
      BY <3>2, TallyCopy, Zenon
    <3> QED BY <2>3, <3>1, <3>3, RememberLists
  <2> QED BY <2>2, <2>3, EventSets
<1>4. CASE UNCHANGED busVars
  BY <1>1, <1>4 DEF busVars
<1> QED BY <1>2, <1>3, <1>4 DEF BusNext

\* Only what other tabs sent ever left the map.
Forgotten == evicted \subseteq Remote

\* The map never holds more identities than it may, and the list that says which of them
\* is to leave next holds those of the map, each of them once.
THEOREM BusTypeCorrect == BusSpec => []BusTypeOK
<1>1. BusInit => Listing
  <2> SUFFICES ASSUME BusInit PROVE Listing
    OBVIOUS
  <2>1. << >> \in Seq(Remote) /\ Len(<< >>) = 0 /\ Range(<< >>) = {} /\ IsInjective(<< >>)
    BY EmptySeq DEF Range, IsInjective
  <2>2. counts \in [Remote -> Counts] /\ \A e \in Remote : ~InMap(counts[e])
    BY DEF BusInit, NoCounts, Counts, InMap
  <2> QED BY <2>1, <2>2, BusAssumption DEF BusInit, Listing
<1>2. Forgotten /\ Listing /\ BusInv /\ [BusNext]_busVars => Forgotten'
  <2> SUFFICES ASSUME evicted \subseteq Remote, Listing, BusInv, [BusNext]_busVars
               PROVE  evicted' \subseteq Remote
    BY DEF Forgotten
  <2>1. ASSUME NEW e \in Remote, NEW c, Remember(e, c) PROVE evicted' \subseteq Remote
    <3> DEFINE list == Append(Without(recent, {e}), e)
    <3>1. list \in Seq(Remote) /\ list # << >> => Head(list) \in Remote
      BY HeadTailProperties
    <3>2. list \in Seq(Remote) /\ list # << >>
      <4>1. Without(recent, {e}) \in Seq(Remote)
        BY WithoutFacts DEF Listing
      <4> QED BY <4>1
    <3>3. evicted' = evicted \/ evicted' = evicted \cup {Head(list)}
      BY <2>1 DEF Remember
    <3> HIDE DEF list
    <3> QED BY <3>1, <3>2, <3>3
  <2>2. ASSUME NEW t \in Transports, DeliverRemote(t) PROVE evicted' \subseteq Remote
    <3>1. Head(inbox[t]) \in Events
      BY <2>2, Delivered
    <3> QED BY <2>1, <2>2, <3>1, EventSets DEF DeliverRemote
  <2> QED BY <2>2 DEF BusNext, Broadcast, busVars
<1>3. BusInit => Forgotten
  BY DEF BusInit, Forgotten
<1>4. BusInv /\ Listing /\ Forgotten => BusTypeOK
  BY DEF Forgotten, BusInv, BusTyped, Listing, Counts, BusTypeOK
<1>5. BusInv /\ Listing /\ [BusNext]_busVars => Listing'
  BY ListingStep
<1> QED BY <1>1, <1>2, <1>3, <1>4, <1>5, BusInvHolds, PTL DEF BusSpec
=============================================================================
