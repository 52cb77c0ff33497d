\* Reservations, form automations, executions of assistant plans, the
\* tabs of the admin and the site cache, in eleven scenes.
SPECIFICATION SceneSpec
CONSTANTS
  q1 = q1
  q2 = q2
  e1 = e1
  e2 = e2
  e3 = e3
  k1 = k1
  k2 = k2
  sub = sub
  Scenes = {"desk", "site", "both", "edited", "pipeline", "twice", "order", 
            "executions", "tabs", "publish", "list"}
  Services = {"cut"}
  Resources = {"chair"}
  Blackouts = {"holiday"}
  Requests <- MCRequests
  Askers = {"visitor", "admin"}
  Spans <- MCSpans
  Offers <- MCOffers
  Interval = 1
  Everywhere = Everywhere
  Settable = {"confirmed", "cancelled"}
  Edits = {"service", "resource", "binding", "schedule", "blackout"}
  Actions = {1, 2, 3}
  Strict = {2}
  Skipped = {3}
  Submission = sub
  Retries <- MCRetries
  None = None
  MaxAttempts = 2
  MaxRefused = 1
  MaxSaves = 1
  Executes <- MCExecutes
  Keys = {"key", "other"}
  Plans = {"plan", "changed"}
  Nobody = Nobody
  MaxDropped = 1
  Modern = {"event"}
  Old = {"legacy"}
  Own = {"own"}
  MaxIdentities = 1
  MaxBroadcasts = 3
  Procs = {"proc"}
  Reqs = {"visit1", "visit2"}
  Admins = {"call1", "call2"}
  Pages = {"page"}
  Paths = {"/", "/about"}
  Contents = {"old", "new"}
  Root = "/"
  Nothing = "nothing"
  Ttls = {1}
  DefaultTtl = 1
  MaxTtl = 1
  NonceTtl = 2
  MaxRender = 1
  MaxEntries = 2
  Allowed = {"publish", "unpublish"}
  MaxTime = 1
  ListKeys = {"list", "list?page=2", "home"}
  ListPaths = {"/list", "/"}
  PathOf <- MCPathOf
  Renders = {"old", "new"}
  ListTtls = {0, 1, 2}
  ShortTtl = 1
  ListSize = 2
  ListTime = 3
INVARIANT ReferencesHold
INVARIANT SlotsExclusive
INVARIANT WindowsRespected
INVARIANT ExecutionsLogged
INVARIANT PipelineOrder
INVARIANT SerialReplay
INVARIANT UndoMatchesResult
INVARIANT InvalidationComplete
INVARIANT HandledOnce
INVARIANT NothingLost
PROPERTY BusyEntriesStay
PROPERTY IsLossyCache
CHECK_DEADLOCK FALSE
