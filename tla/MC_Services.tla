----------------------------- MODULE MC_Services -----------------------------
(***************************************************************************)
(* Model values for Booking, FormAutomation, ActionExecutions, CacheBus    *)
(* PublicSite and SiteCache, which share no state.  The first state        *)
(* picks a scene, and the components that are not in it rest: the state    *)
(* space is the sum of theirs.                                             *)
(***************************************************************************)
EXTENDS Booking, FormAutomation, ActionExecutions, CacheBus, PublicSite, SiteCache, TLC

CONSTANTS q1, q2, e1, e2, e3, k1, k2, sub, Scenes

VARIABLE scene

T(from, to) == [from |-> from, to |-> to]
MCSpans == {T(0, 1), T(1, 2), T(2, 4), T(0, 2), T(1, 3), T(0, 4)}
FewSpans == {T(0, 1), T(1, 2), T(0, 4)}
MCOffers ==
  {[duration |-> 1, before |-> 0, after |-> 1], [duration |-> 1, before |-> 1, after |-> 0]}
MCRequests == {q1, q2}
MCRetries == {k1, k2}
MCExecutes == {e1, e2, e3}
\* Three keys, two of them variants of one path.
MCPathOf == "list" :> "/list" @@ "list?page=2" :> "/list" @@ "home" :> "/"

\* Reservations at the desk, from the site, and from both, under blackouts; and one
\* reservation under every edit.
Desk == INSTANCE Booking WITH Askers <- {"admin"}, Edits <- {}
Site == INSTANCE Booking WITH Askers <- {"visitor"}, Spans <- FewSpans, Edits <- {"blackout"}
Both == INSTANCE Booking WITH Spans <- {T(0, 1), T(0, 2)}, Edits <- {"blackout"}
Edited == INSTANCE Booking WITH Spans <- FewSpans, Requests <- {q1}

\* A retry beside the submission; two beside each other; the order of the pipeline.
Pipeline == INSTANCE FormAutomation WITH Actions <- {1, 2}, Retries <- {k1}
Twice == INSTANCE FormAutomation WITH Actions <- {1}, MaxRefused <- 0
Order == INSTANCE FormAutomation WITH Retries <- {}

BookingScenes == {"desk", "site", "both", "edited"}
FormScenes == {"pipeline", "twice", "order"}
OtherScenes == {"executions", "tabs", "publish", "list"}

ASSUME ScenesAssumption == Scenes \subseteq BookingScenes \cup FormScenes \cup OtherScenes

SceneInit ==
  /\ scene \in Scenes
  /\ BookingInit /\ AutomationInit /\ ExecutionsInit
  /\ BusInit /\ Init /\ ListInit
  /\ scene \notin BookingScenes =>
       (\A s \in Services : service[s] = Absent) /\ (\A r \in Resources : open[r] = {T(0, 4)})
  /\ scene # "order" =>
       actions = CASE scene = "pipeline" -> {1, 2} [] scene = "twice" -> {1} [] OTHER -> {}
  /\ scene # "publish" => home = "page"

services == <<bookingVars, automationVars, executionVars>>
caches == <<vars, listVars>>

SceneNext ==
  /\ UNCHANGED scene
  /\ \/ /\ UNCHANGED <<automationVars, executionVars, busVars, caches>>
        /\ \/ scene = "desk" /\ Desk!BookingNext
           \/ scene = "site" /\ Site!BookingNext
           \/ scene = "both" /\ Both!BookingNext
           \/ scene = "edited" /\ Edited!BookingNext
     \/ /\ UNCHANGED <<bookingVars, executionVars, busVars, caches>>
        /\ \/ scene = "pipeline" /\ Pipeline!AutomationNext
           \/ scene = "twice" /\ Twice!AutomationNext
           \/ scene = "order" /\ Order!AutomationNext
     \/ /\ UNCHANGED <<bookingVars, automationVars, busVars, caches>>
        /\ scene = "executions" /\ ExecutionsNext
     \/ scene = "tabs" /\ BusNext /\ UNCHANGED <<services, caches>>
     \/ scene = "publish" /\ Next /\ UNCHANGED <<services, busVars, listVars>>
     \/ scene = "list" /\ ListNext /\ UNCHANGED <<services, busVars, vars>>

SceneSpec == SceneInit /\ [][SceneNext]_<<scene, services, busVars, caches>>
=============================================================================
