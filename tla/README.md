# Coderso: TLA+ models, model checking and proofs

Coderso is a CMS: a Bun/Hono server over PostgreSQL (`core/server`), services
that own the tables (`core/services`), a public site rendered on the server
(`core/site`, `core/server/publicSite.tsx`), an admin client (`core/admin`),
and plugins. Several server processes may share one database. Nothing in the
services is locked unless a transaction, an advisory lock or a unique index
does it; between any two `await`s another request, or another process, runs.
That is where the models below look: each `await` is a step boundary, each
transaction is modelled statement by statement at READ COMMITTED.

Paths in this file are relative to the repository (`src/` in `PROJECT.json`).

## The parts of the system

| part | state | operations | what is hard | what makes it correct | module |
|---|---|---|---|---|---|
| backup store, `services/backups/backupService.ts` | rows of `backups`, artifacts on local disk or a remote backend, the configured storage driver | create, delete, prune by age | concurrent creates, deletes and sweeps; a crash or refused write between row and artifact; a driver switch in between | a complete row has an artifact; a finished row stays as it is; sweeps take finished rows only; what a sweep removes it removes whole; a run ends | `BackupStore` |
| backup scheduler, `server/jobs/backupScheduler.ts` | the `backup_schedules` row, a session advisory lock, `isRunning` of each process | the tick (check, lock, re-check, back up, advance, prune, unlock), seeding, admin edits | many processes see the row due; a crash at any step; edits during a run; the seeding race | one run at a time; one backup per due time; a due schedule runs | `BackupScheduler` |
| pages and revisions, `services/pages/pageService.ts`, `revisionService.ts` | a row of `pages`, its `page_revisions` | create, update, publish, unpublish, autosave, restore, discard, delete | overlapping transactions read the same `max(version)` and prune by ids read earlier | the live document is recoverable; bounded retention; a recovery snapshot is not lost; the row moves in single legal steps | `PageRevisions` |
| public site, `server/publicSite.tsx`, `site/cache/siteCache.ts`, `services/analytics/beaconTtl.ts` | HTML cache of each process, its last TTL, `site.homepageId`, `site.cacheTtlSeconds` | serve a path; invalidate after publish and unpublish | a render that straddles a publish; other processes' caches; renames; TTL changes in mid-request | bounded staleness; drafts are never served; a cached nonce is valid; complete invalidation | `PublicSite` |
| site cache list, `site/cache/siteCache.ts` | an insertion-ordered `Map` used as an LRU list | get, set, configure, clear, invalidate by path | expiry, overflow, re-insertion | behaves as a map with expiry that may lose the least recently used entry | `SiteCache` |
| sessions and password reset, `services/auth` | the password, sessions and reset tokens of an account | log in, log out, revoke, ask for a reset, confirm it | the session limit is enforced before the insert; two confirmations of one token; a failure between the new password and the end of the old sessions | the limit holds up to logins in flight; a token is spent once; a new password ends the old sessions | `Sessions` |
| users, roles, first run, `services/admin` | users, roles, grants | set roles, enable, disable, delete; change and delete roles; create the first administrator | each check is several statements before its write | an administrator remains; one first administrator | `AdminAccess` |
| booking, `services/booking/bookingService.ts`, `server/publicBookingApi.ts` | services, resources, bindings, openings, blackouts, reservations | preview, reserve, change status, edit everything else | seven reads, then an insert, without a transaction | reservations of a resource overlap only if they raced; what the request checked still holds | `Booking` |
| form automations, `services/forms` | actions of a form, `form_action_runs` | submit, run the pipeline, retry a failed run, save the actions | an action may fail after its effect; its row may be refused; the actions change under a run | the log has one row per execution; the pipeline stops where it must | `FormAutomation` |
| assistant executions, `services/assistant/actionExecutionStore.ts` | stored results and undo items by idempotency key | look up, execute, save | two requests with one key; a death between execution and save | a later request replays the stored result; undo items belong to it | `ActionExecutions` |
| admin cache events, `core/admin/utils/cacheBus.ts` | counts of the copies each channel brought | broadcast, receive | two channels, any order, equal identities, a bounded map | an event is handled once, and never lost | `CacheBus` |
| container start-up, `server/dockerStart.ts`, `startupMigrations.ts`, `startupAssistantDocs.ts` | applied migrations, indexed documents, the recorded image, two advisory locks | migrate, ingest, serve; reindex on request | replicas of several images; deaths and refusals at any step | migrations run once and before the server; the recorded image is the indexed one; every start ends | `Startup` |
| backup contents and restore, plugins, webhooks, content and posts, theme profiles, assistant planning, kits, menus, media, commerce, mail, admin UI, rendering, tooling | rows or process memory of their own | mostly create, read, update, delete | see "Not modelled" | | none |

How they interact: admin routes call the services; the page service writes
rows and then invalidates paths in the cache **of its own process** by a
direct call; the public handler reads settings, theme profile, cache and rows
in that order and stores what it rendered; the scheduler calls the backup
service under its lock; the backup service calls the media storage adapter
that is configured *at that moment*; a form's submission starts its automation
and waits for it; a start-up's ingestion and an administrator's reindex are the
same function, the first under a lock and the second without. `PROJECT.json`
lists every part with its sources, and each hazard at its line.

## Modules

| module | models | state and actions |
|---|---|---|
| `BackupStore` | `createBackup`, `deleteBackup`, `pruneExpiredBackups` | `rows`, `store` (artifacts by backend, whole or in part), `driver`, `job` (each caller's local variables and position). `CreateRead … MarkBackupComplete` is one create, `DeleteRead … DeleteArtifact` one delete, `PruneSelect`/`PruneNext` a sweep. Every `await` has its failing variant: an insert or update may be refused or commit and lose its answer, an upload that fails may leave its artifact (`torn`, a history) |
| `BackupScheduler` | `runDueScheduledBackups`, `getBackupSchedule`, `setBackupSchedule`, `markScheduleRun` | extends `BackupStore`: instances call the store as jobs. `schedules`, `lock`, `run`, `edit`; `served` is a history of the due times that started a backup. `TickDue … Unlock` is one run, `EditRead`/`EditWrite` one PATCH |
| `SingleFlightLock` | what an advisory lock promises | abstract: whoever is inside is inside alone. `BackupScheduler` and the ingestions of `Startup` implement it |
| `PageLifecycle` | what the page service promises about one row | abstract: create, save, publish, unpublish, restore, delete, each one step. `PageRevisions` implements it, statement by statement; `PublicSite` moves its rows by the same single steps, so nothing is checked of that |
| `PageRevisions` | every write of one page and its revisions | `page`, `revs` (committed), `job` (a request's transaction: what it inserted and deleted so far). One action per statement; `Visible`, `LockedFor`, `HoldsPage` are READ COMMITTED visibility, row locks and the foreign key's key-share lock |
| `PublicSite` | the page branch of the public handler, the caches of all processes, publish and unpublish with their invalidations | `pages`, `slug`, `home`, `ttl` (database), `cache`, `cachedTtl` (per process), `req`, `admin`; `lastLive` and `raced` are history. `ReadTtl, Lookup, ReadHome, ReadPage / ReadSlug, Mint, Fill` is one request |
| `SiteCache` | the `Map` in `siteCache.ts` | `store` as a sequence in insertion order, `listTtl`, `listNow`; `uses` is a history of keys by last use |
| `Lists` | a JavaScript `Map` read as the list of what it holds | `Without` (deletion), `Before`; a recursive function, so that it can be proved about. `SiteCache` and `CacheBus` use it |
| `LossyCache` | what users of the cache rely on | abstract; `SiteCache` implements it, and so does the cache of each process of `PublicSite`, which evicts any entry |
| `Sessions` | logins with their limit, logout, revocations, reset requests and confirmations of one account | `account` (status, version of the password), `sessions`, `resets`, `request`. A login is verify, enforce the limit, revoke the excess, insert; a confirmation is select, consume, read the status, set the password, revoke. A request may be cut off at any step |
| `AdminAccess` | `usersService`, `rolesService`, `firstRunService` as far as statuses, permissions and grants go | `user`, `role`, `grants`, `call`, `installer`. Each read of `ensureNotLastAdmin` and `ensureAdminRoleRemains` is a step; `setUserRoles` deletes and inserts in a transaction; `updateRole` holds its row; the installer counts again under its lock. `overlapped` is history |
| `Booking` | `createBookingReservation` for administrators and, behind the preview, for visitors; every edit of what it reads | `service`, `resource`, `bound`, `open`, `blackout`, `booking`, `request`. One action per read; the history fields of a row (`known`, `closed`, `offered`, `reopened`) say what its request saw |
| `FormAutomation` | the pipeline after a submission, retries of failed runs, and the actions saved again | `actions`, `runs`, `caller`. Attempt, execute (an action may fail before or after its effect), log; a log whose insert is refused, or commits and loses its answer, is written again as a failure, and a second one ends the call |
| `ActionExecutions` | look-up, execution and save of a plan under an idempotency key | `execution`, `undo`, `execute`; `earlier` is a history of who had returned when a request began |
| `CacheBus` | one subscriber of the two channels of the admin's tabs | `inbox` (per channel; any order between the channels), `counts`, `recent` (the bounded map); `handled`, `broadcasts`, `arrived` are history |
| `Startup` | `dockerStart`, both advisory locks, the ingestion statement by statement, reindexes | `schema`, `docs`, `recorded`, the locks, `replica`, `ingest`. A replica has an image and may fail, die and start under another |
| `MC_*` | model values, scenes and symmetry for TLC | |
| `*_proofs` | theorems and their proofs | `Backups_proofs` holds those of the store and of the scheduler, `Accounts_proofs` those of `Sessions` and `AdminAccess`, `PublicSite_proofs` those of `PublicSite` and `SiteCache`, `Services_proofs` those of `ActionExecutions`, `FormAutomation` and `CacheBus` |
| `Counting` | lemmas that several proofs need | least and greatest numbers, one more element of a set, the `Ledger` of what overlapping callers leave, and what `Without`, `Append` and `Tail` do to the order of a list |

Conventions. A process's local variables are a record with a `pc` or an `at`. A
definition whose comment begins with "Mutant:" is a plausible bug of the
definition that follows it; it is used nowhere and is there to show that
a property notices the bug. `Allowed` (a constant of `PublicSite`), `allowed` (of the backup store,
picked from `Environments` in the first state) and `may` (what each caller of
`PageRevisions` does, picked from `Roles` in the first state) restrict what the environment
does; guards of the code are never in them. A *scene* (`scene` in the MC modules) is picked in the first state and never
changes: it selects the component, or the instance of it with smaller sets,
that moves. The state space of such a run is the sum of its scenes', and a
property holds in every one of them.

Each module has one type invariant, and each of them is proved, except those of the abstract
modules, of `PageRevisions` (its proofs carry the types they need) and of `BackupScheduler`
(likewise). That of `BackupStore` is also checked by its run. Some say more than types: that no
grant outlives its role (`AdminAccess`), no chunks their document (`Startup`), that the list holds
a key once (`SiteCache`) and lists exactly what is counted (`CacheBus`).

What is abstracted: documents, plans and contents are two model values;
passwords are versions; titles and slugs are left out of `PageRevisions` (draft
and live share those columns; where equality of the whole snapshot matters,
both outcomes are allowed); a cache key in `PublicSite` is a path (one theme
profile, no query); redirects, content routes, the not-found page and the audit
log are left out; `preparePublishedPageData` is taken to yield the document it is
given; two rows whose different slugs normalise to one path are left out; run
hours and days are units of the clock; a booking lies on one day, in the
units of its spans; what an assistant's plan or a form's action does is one step;
CSRF tokens, bot protection and the login fingerprint are left out; the migrator
is modelled from its use (it applies what is newer than the last migration, in one
transaction); the variables that switch a start-up step off are left out.

Where a definition is simpler than the lines it maps:

- an invalidation of the homepage (`PublicSite`) leaves out that of `/404` after it (`pageService.ts:244`), as the
  not-found page is left out;
- what is rendered is always stored, for the time read at the start: cache modes `none` and `short-ttl`
  (`publicSite.tsx:1708`, `1784`), which store nothing or for a shorter time, are left out;
- the two or three `SELECT`s that read a service, a resource and their states at the start of a reservation
  (`bookingService.ts:977`) and of a preview (`publicBookingApi.ts:174`) are one step;
- the results that `actionExecutorService.ts:6653` keeps in memory when it is given no store are left out;
- a reindex reads the documents of its replica's image; the code reads those of `settings.docsSourceRoot`
  (`assistantService.ts:474`), and a prune is of one root (`docsIngestService.ts:191`), so "the index holds no
  other documents" is said of one root;
- a prune of the index deletes a row by its path, the code by its id: they differ only when ingestions overlap,
  which `torn` exempts;
- `markScheduleRun`, the re-check and the selection of a prune may throw in the code: the lock is released and the
  schedule stays as it is, or as it has become, which is what a crash at that step leaves.

## Runs

Bounds end a behaviour (the clock stops, ids and requests run out), so every
run switches deadlock checking off; that nothing hangs is what the liveness
properties say.

Backups:

- `backup_store`: two callers, two backups, two drivers, clock to 2, and two failures of any
  kind, or a calm environment (`Calm`) in which callers create and sweep and only uploads may fail. Types, `CompleteHasArtifact` and
  `RowsEndOnce` (a finished row stays as it is until it is deleted, and a sweep deletes no
  other) hold in both. Two of each suffice: each property is about one row, its creator and one
  intruder; two failures let a failed upload be followed by a failed update or a crash. In the
  calm environment an artifact outlives the row that names it only if it is what a failed write
  left (`ArtifactAccounted`), and every running row ends
  (`CalmRunFinishes`). Elsewhere a crash, a refused removal, a driver switch, the lost answer of an update or
  the deletion of a running row orphans an artifact as well, and a crash or a refused "failed" update
  leaves a row running, which sweeps skip.
- `backup_scheduler_safety`: two instances, four backups, one schedule, clock to 2, two
  failures. `NoDoubleRun`, `DueEventuallyRuns` and `LockSpec` hold. Two due times and two
  failures need four backups.
- `backup_scheduler_edits`: an empty table that two instances may seed twice, and
  an admin who toggles `enabled` and deletes backups, one crash: the lock still serialises the
  runs (`SingleFlight`).
- `backup_scheduler_throw`, `backup_scheduler_edit_race` (violations): see Findings.

Pages and the site:

- `page_revisions`: two requests, four revisions, two documents, and two assignments of roles.
  `OnePublisher`: one publishes, the other autosaves, saves, restores, discards, unpublishes and
  deletes, with retention 1 or 2 depending on the document. Here `PublishedHasRevision` (what
  visitors see is in a revision) and `RecoveryKept` (the recovery snapshot goes only with a discard
  or the page) have force; their conditions `Alone` speak of the role assignment.
  `EverythingRaces`: both publish and autosave. `RetentionBounded` and `AutosavesBounded` are exact
  with one publisher or autosaver and allow one more row for each further one;
  `Lifecycle` (the row implements `PageLifecycle`) holds in both. Four revisions are one more
  than the retention and a second publisher allow.
- `public_site_safety`: two processes, one request, one admin, two paths (`/` and one more), one
  page, which may be the home page, TTL 0 or 1, caches of one entry, clock to 3:
  `BoundedStaleness`, `NonceOutlivesEntry`, and the
  cache of each process follows `LossyCache` (`CachesAreLossy`). An entry of the process
  that did not handle a publish ages out. The clock goes past store + TTL, so that entries
  expire within a run; a render may take one unit, so it can straddle a change.
- `public_site_rename` (violation): see Findings.

Accounts (`accounts`, five scenes over `Sessions` and `AdminAccess`):

- *crowd*: two logins at a time, four sessions in all, limit 1 or 2, one cut: `SessionLimitSlack`.
- *resets*: two reset requests and two confirmations, three tokens, a clock that lets tokens
  expire: `TokenSpentOnce`. A token that a confirmation saw open may be used by
  another and be replaced by a third before the update.
- *change*: a login, a reset request, two confirmations: `PasswordChangeEndsSessions`.
- *race*: two administrators' calls after one installation; *alone*: one, after two racing
  installations. Two users, two roles: `AdminRemains`, `InstallOnce`. Once full access was taken
  while another call ran the behaviour ends: nothing is claimed of it any more.

Services (`services`, eleven scenes):

- *desk*, *site*, *both*, *edited*: two reservations by administrators, by visitors under
  blackouts, by both, and one reservation under every edit of what it reads. One service and
  one resource, spans on a day of four units, a buffer of 1 before or after. `SlotsExclusive`,
  `WindowsRespected`, and no row refers to one that is gone (`ReferencesHold`). An overlap takes two rows; both kinds of requester and both orders
  of check and insert occur.
- *pipeline*, *twice*, *order*: a submission with a retry beside it, with two retries beside
  each other, and alone over three actions (one strict, one skipped); one accident (a statement
  refused, or an insert whose answer is lost), one save. `ExecutionsLogged`, `PipelineOrder`.
- *executions*: three requests, two keys, two plans, one request dropped half-way.
  `SerialReplay`, `UndoMatchesResult`. The third request comes after two that raced.
- *tabs*: an event of a modern tab, one of an old tab and one of the own tab, broadcast up to
  three times, a map of one identity. `HandledOnce`, `NothingLost`. The map overflows
  as soon as both foreign events are unpaired; the code's limit is 128.
- *publish*: two visitors and two admins in one process, two documents: after a publish or
  unpublish only an entry whose own render overlapped it is stale (`InvalidationComplete`).
- *list*: three keys on two paths, a cache of two entries, TTLs 0 to 2, clock to 3:
  `BusyEntriesStay` (an entry makes room only after as many other keys as the cache
  holds were used) and `IsLossyCache`. Two entries are enough for a hit to change which goes first.
- `form_retry` (violation, the scene *twice*): see Findings.

Start-up (`startup`): two replicas, three starts, two images that share one document and have
one each, one reindex, one refused statement or dead process. `MigrationsOnce`,
`SchemaIsReady`, `RecordedIsIndexed`, `SeedsOneByOne` (an instance of `SingleFlightLock`),
`StartsOrStops`. Three starts are a rollout and a roll-back, or a crash between two.

## Fairness

`StoreFairness` (in `MCSpec`) and the scheduler's `FairSpec` assume weak fairness of the steps *inside* a call
that has begun (`ServiceStep`, `RunStep`): a promise chain in a live process is scheduled until
it ends, and the interval timer keeps firing. That of the store is asked only of the calm
environment, the one `CalmRunFinishes` speaks of. `StartupSpec` assumes weak fairness of each
replica's start-up steps (`Boot`), including the grant of a lock that is free: PostgreSQL
queues the waiters of an advisory lock, and starts are finitely many here. Nothing is
assumed of requests, admins, operators, crashes, failures or the clock. The other models
state safety only: their requests wait for nothing.

## Proofs

Each theorem is about the specification of its component, for all values of the constants
that satisfy its module's assumptions. A scene of `accounts` or `services` is that
specification with smaller sets.

| theorem | says | from |
|---|---|---|
| `Backups_proofs!StoreTypeCorrect` | types | `JobsAssumption` |
| `Backups_proofs!CompleteRowsHaveArtifacts` | `StoreSpec => []CompleteHasArtifact` | `ArtifactInv` |
| `Backups_proofs!SingleFlightHolds` | `Spec => []SingleFlight` | `LockInv` |
| `Backups_proofs!RefinesLock` | the job implements `SingleFlightLock` | `SingleFlight`, step by step |
| `Backups_proofs!FinishedRowsStay` | `StoreSpec => RowsEndOnce` | `EndInv` |
| `Backups_proofs!ArtifactsAccounted` | `StoreSpec => []ArtifactAccounted` | `ArtifactInv`, `EndInv`, `CalmInv` |
| `Backups_proofs!ScheduledBackupsHaveArtifacts` | `Spec => []CompleteHasArtifact` | `StoreInv` |
| `Backups_proofs!ScheduledRowsStay` | `Spec => RowsEndOnce` | `StoreInv` |
| `Backups_proofs!EachDueTimeOnce` | `Spec => []NoDoubleRun`, without edits and deletes by name | `LockInv`, `StoreInv`, `NamedInv`, `ServeInv` |
| `PageRevisions_proofs!RefinesLifecycle` | a page row moves as `PageLifecycle` allows | `Inv` |
| `PageRevisions_proofs!RetentionIsBounded` | `Spec => []RetentionBounded` | `TxInv`, `PublishCount` |
| `PageRevisions_proofs!AutosavesAreBounded` | `Spec => []AutosavesBounded` | `TxInv`, `AutosaveCount` |
| `PageRevisions_proofs!RecoveryIsKept` | `Spec => RecoveryKept` | `TxInv`, `DiscardOK` |
| `PageRevisions_proofs!LiveIsRecoverable` | `Spec => []PublishedHasRevision` | `TxInv`, `NewestInv` |
| `PublicSite_proofs!SiteTypeCorrect` | types | `PathsAssumption`, `TtlAssumption`, `BoundsAssumption` |
| `PublicSite_proofs!ServedIsFresh` | `Spec => []BoundedStaleness` | `Fresh` |
| `PublicSite_proofs!NoncesOutliveEntries` | `Spec => []NonceOutlivesEntry` | `Fresh`, `NonceAssumption` |
| `PublicSite_proofs!SiteCachesAreLossy` | each process's cache implements `LossyCache` | `TypeOK`, step by step |
| `PublicSite_proofs!ListTypeCorrect` | `ListSpec => []ListTypeOK` | `ListInv`, `ListAssumption` |
| `PublicSite_proofs!BusyEntriesStayCorrect` | `ListSpec => BusyEntriesStay` | `ListInv` |
| `PublicSite_proofs!ListIsLossyCache` | the list implements `LossyCache` | `ListInv`, step by step |
| `PublicSite_proofs!ChangesInvalidate` | `Spec => []InvalidationComplete`, in one process, without renames, restores, deletes and changes of the homepage | `PlaceInv` |
| `Accounts_proofs!SessionsTypeCorrect` | types | `SessionBounds`, `SessionLimits` |
| `Accounts_proofs!LoginsExceedByOverlap` | `SessionsSpec => []SessionLimitSlack` | `LimitInv`, `FiniteLogins` |
| `Accounts_proofs!TokensSpentOnce` | `SessionsSpec => []TokenSpentOnce` | `TokenInv` |
| `Accounts_proofs!OldSessionsEnd` | `SessionsSpec => []PasswordChangeEndsSessions` | `EndedInv` |
| `Accounts_proofs!AdministratorRemains` | `AdminSpec => []AdminRemains` | `AdminInv` |
| `Accounts_proofs!InstalledOnce` | `AdminSpec => []InstallOnce` | `AdminInv` |
| `Accounts_proofs!AdminTypeCorrect` | `AdminSpec => []AdminTypeOK` | `AdminInv`, `GrantsStand`, `FormsSpent`, `FormsFinite` |
| `Booking_proofs!ReservationsExclude` | `BookingSpec => []SlotsExclusive` | `BookingInv` |
| `Booking_proofs!WindowsStayRespected` | `BookingSpec => []WindowsRespected` | `BookingInv` |
| `Booking_proofs!ReferencesStayWhole` | `BookingSpec => []ReferencesHold` | `References`, `BookingInv` |
| `Booking_proofs!BookingTypeCorrect` | types | `References`, `BookingInv` |
| `Services_proofs!ExecutionsTypeCorrect` | types | |
| `Services_proofs!ReplaysSerially` | `ExecutionsSpec => []SerialReplay` | `ReplayInv` |
| `Services_proofs!UndoItemsMatch` | `ExecutionsSpec => []UndoMatchesResult` | `OwnerInv`, `ReplayInv` |
| `Services_proofs!AutomationTypeCorrect` | types | `LogInv` |
| `Services_proofs!EveryExecutionLogged` | `AutomationSpec => []ExecutionsLogged` | `LogInv`, `CountInv` |
| `Services_proofs!PipelineRunsInOrder` | `AutomationSpec => []PipelineOrder` | `LogInv`, `PipeInv` |
| `Services_proofs!CopiesHandledOnce` | `BusSpec => []HandledOnce` | `BusInv` |
| `Services_proofs!NoEventLost` | `BusSpec => []NothingLost` | `BusInv` |
| `Services_proofs!BusTypeCorrect` | `BusSpec => []BusTypeOK` | `Listing` |
| `Startup_proofs!MigrationsAppliedOnce` | `StartupSpec => []MigrationsOnce` | `BootInv` |
| `Startup_proofs!SchemaStaysReady` | `StartupSpec => []SchemaIsReady` | `BootInv` |
| `Startup_proofs!RefinesSeedLock` | start-up ingestions implement `SingleFlightLock` | `BootInv`, step by step |
| `Startup_proofs!RecordedStaysIndexed` | `StartupSpec => []RecordedIsIndexed` | `BootInv`, `IndexInv` |
| `Startup_proofs!StartupTypeCorrect` | `StartupSpec => []StartupTypeOK` | `BootInv`, `IndexInv`, `HostInv`, `BackedInv` |

Why the invariants are needed:

- `CompleteHasArtifact` is not inductive: the update that completes a row relies on
  the artifact written one step earlier, and removals rely on rows already gone.
  `ArtifactInv` adds that a caller about to complete a row that still exists has stored its
  artifact, that a caller about to remove an artifact removes that of a row that no longer exists,
  and that both ids are among those handed out (`used`), so no new row gets them.
- `LockInv` is the first half of `SingleFlight` with the types of `lock` and `run`; the lock names one
  process, so the second half follows.
- `EndInv`: the row a create works on is not finished and no other create works on it, and the rows
  a sweep selected are finished or gone, and their ids are not handed out again (`Settled`).
- `CalmInv`: in the calm environment a stored artifact is `torn`, or belongs to a complete row, to the create that
  will complete its row or to the sweep that has just deleted it, all on the configured driver.
- `StoreInv` is the store's invariants together. They are proved of `StoreStep`, which every step of
  `StoreNext` and every step of the scheduler is, so they hold of both.
- `NamedInv` and `ServeInv` carry `NoDoubleRun`. The bag of served due times alone does not tell
  why a process that finds the row due may back it up. `ServeInv` says that no time
  later than the schedule's next one was served, and that the next one was served at most
  once per failure, or once more by a run that is `Settling`: about to advance the schedule. A run
  with the lock is alone, so what it read is what is there, and a run stops settling by
  advancing the schedule or by a failure. A create that throws costs a failure only if nobody deletes its row by
  name (`NamedInv`), and a time served stays in the past only if nobody writes an old one
  back: hence the theorem's two assumptions, which `backup_scheduler_safety` satisfies. The
  two runs that expect a violation show what happens without them.
- `Inv` of `PageRevisions` is `PageHeld` (a transaction that inserted a revision
  holds the page, so the row is not deleted under it; `DeletePage` waits) with
  the types of the two variables it needs. Without it `PublishCommit` could write to a deleted row.
- `TxInv` keeps transactions apart: ids that two of them have inserted differ, each inserted row has the
  kind of its request, and nothing of a finished request is left over.
- `PublishCount`, `AutosaveCount`: the rows alone do not tell how many there can be, since a
  transaction selects what it will delete and commits later. A `Ledger` notes, for each
  one that has selected, how many rows it would leave by committing now and who has
  committed since its selection: at most the limit, and one more for each of those. Of two,
  the older selection has seen the other's commits, so both are never in the other's account
  and a commit leaves room for one row per other requester. Three lemmas carry the ledger over
  a rollback or a delete, a selection, and a commit.
- `NewestInv`: with one publisher, what is live is the newest published revision, or that
  of the commit under way, and a prune spares the newest. `DiscardOK`: an autosave that
  deletes the recovery row inserts its own before it commits.
- `Fresh` is `LiveSeen` (a live document has been seen at the current time), `RenderFresh`
  (a document being rendered was live when it was read, at most `MaxRender` ago) and `EntryFresh`
  (an entry expires within `MaxRender + MaxTtl` of the time its document was last live, and before
  its nonce does). Storing what was rendered turns the second into the third.
  `NonceAssumption` (`MaxTtl + MaxRender <= NonceTtl`) is the margin of
  `beaconTtl.ts`: 600 s, 900 s, and the time a render takes.
- `PlaceInv`: an entry lies at the slug of its page, or at `/` for the homepage, and one that was right
  when it was stored and is right no longer has a call that is still to drop what lies there. So
  nothing stale is left when no call is pending. The assumptions are what the code needs for it: another
  process's entries only age out; a rename leaves the entry behind (see Findings); restores, deletes and a
  change of the homepage invalidate nothing. A process that dies between the commit and the
  invalidation takes its cache with it.
- `ListInv` relates the list to its history: of two entries the one that stands first is the one used
  less recently (`InOrder`). The first entry is the one that goes, so all the others, `ListSize` of them
  with the new one, were used since. A hit that leaves its entry in place would break the order.
  `Without`, `Append` and `Tail` keep the order of what they leave: those lemmas are in
  `Counting`; that the recursive function behind `Without` has a value for every list follows from a least
  length without one (`LeastNat`), since an induction over the list cannot be stated here.
- For `ListIsLossyCache` and `SiteCachesAreLossy` each operation is mapped to a step of `LossyCache`: the
  one that stores a new key in a full cache is a `Set` that loses another, an invalidation is a
  loss of several keys, and the steps of other processes leave this one's cache as it is.
- `LimitInv` has the `Ledger` of `PublishCount`: a login counts the sessions, ends the excess and inserts
  its own in three statements, so the ledger notes what each login that has counted would leave
  and which logins inserted since: at most `limit - 1`, and one more for each of those. What it
  will leave only shrinks when a logout, a revocation or a reset ends sessions.
- `TokenInv`: a token that a confirmation has taken is marked used and has not set the password
  yet, no two confirmations hold the same one, and a token in a mail that is not stored yet is new.
  The update that takes a token has `used_at IS NULL` in its condition; that is the step
  that lets one confirmation through. `EndedInv` is the property for expired
  sessions too: an invariant that looked at the clock would be disturbed by it.
- `AdminInv` says of each request that ran without a taking of full access beside it that what
  it read is still there and that what it is about to write spares somebody (`Justified`). Any
  step that takes full access from nobody (`Grows`) keeps this; a step that takes it, with nothing
  overlapping, runs alone.
- `GrantsStand` and `FormsSpent`: a role is written by a request that locked it or is deleted with its
  grants, so a grant inserted by another request is of a role that is there; and the administrators
  installed and the forms still submitted are together no more than the forms.
- `References` is `ReferencesHold` with the types of the tables that `BookingInv` leaves out. A delete takes
  the bindings, openings and blackouts with it and is refused while a reservation refers to the row;
  an insert is refused once the row is gone.
- `BookingInv`: what a request relied on stays so. A reservation it saw stays out of its way
  unless it is reopened, a blackout it saw unless it is removed; the row inherits this.
- `ReplayInv`: a request returns only when a row is there, rows never change, and whoever
  began after such a return finds it at its look-up.
- `OwnerInv`: a row and the undo items at it come from executions under its key; with `ReplayInv`
  there is one such execution unless requests overlapped.
- `LogInv`: the types of the automation alone do not show that the next attempt has a number, which
  is one more than the greatest logged: it adds that no attempt exceeds its row's position (so there is a
  greatest), and that a retry under way is of a row that is there and failed.
- `CountInv`: between an execution and its row a caller is at most one row short, and nowhere else, except
  where a second accident throws; each row beyond the executions is one whose answer was lost.
- `PipeInv`: the action at hand is the least of those to do, whatever ran comes before it and, if strict,
  did not fail for good; until the actions are saved again, what ran and what is to do are the list.
  Retries beside it log rows of their own, which are not the submission's.
- `BusInv`: per channel, what has arrived and is no longer counted was paired or delivered, so an
  event is handled at least as often as either channel brought it, and exactly as often as the one that
  is ahead while the map has not forgotten it; and on the legacy channel, which every tab uses, what arrived and what is under way
  are all the broadcasts.
- `Listing`: the bounded list holds the identities that are counted, each once. A delivery may take one
  out (its copies are paired), put one at the end, and drop the first when the list overflows.
- `BootInv`: the program counters tell who holds each lock, and a replica past the read of the
  last migration has an image that fits the schema.
- `IndexInv` says, for every statement of an ingestion that is alone, what the index holds already:
  the documents it is past are whole, the one it is at has the new text or has lost its chunks, and
  what is not to be pruned any more is gone. The record follows the last statement. The first
  document still to do is a least number, from the library's `WFMin`.
- `HostInv` and `BackedInv` hold when ingestions overlap, too, where `IndexInv` says nothing of the documents:
  one that is about to clear or store chunks has a row with a text, since a prune that deletes the
  row fails it (the foreign key); a request's ingestion runs in a replica that serves, a replica's own while it waits.

Checked by TLC only: liveness (`CalmRunFinishes`, `DueEventuallyRuns`, `StartsOrStops`), which
needs fairness and `ENABLED`, out of this prover's reach. Every other property of the passing runs is the subject
of a theorem. Where a theorem has premises (`EachDueTimeOnce`, `ChangesInvalidate`), they are named above and
the runs satisfy them. The inductive invariants hold on the bounds of the runs, too: TLC checked them there before they were proved.

## Findings

Where the code and what the repository says of it disagree, each with a run that shows it:

| run | what happens |
|---|---|
| `backup_scheduler_throw` | `createBackup` throws when its row was deleted meanwhile, although the scheduler says it never does; the schedule is not advanced |
| `backup_scheduler_edit_race` | an edit of the retention writes back the `nextRunAt` it read; the same due time runs twice |
| `public_site_rename` | a page renamed and then unpublished stays under its old path until the TTL ends |
| `form_retry` | saving a form's actions takes the action of every logged run away; a later retry executes the action and cannot log it |

Limits that explain the shape of some properties and runs:

- `writeFile` may fail half-way and `put` may store the object and lose its answer: the row is then
  failed and names no artifact, so no sweep removes it (a delete removes "row + artifact",
  `backupService.ts:803`, of rows that name theirs). `ArtifactAccounted` exempts just those (`torn`);
- a driver switch between the insert of a backup row and the upload leaves the artifact on a
  backend other than the row's, so no property says it lies there;
- two processes that start on an empty table seed two schedules, so `backup_scheduler_edits` has two;
- two overlapping publishes do not see each other's revision and prune too little, two overlapping
  autosaves leave one row each: hence the two halves of `RetentionBounded` and `AutosavesBounded`;
- so do `PublishedHasRevision` (the later commit's revision can be one that a later prune of the
  other publisher's takes for old) and `RecoveryKept` (versions repeat, SQL leaves the order of
  equal ones open, and two autosaves that each reuse a row can delete each other's);
- a restore sets the status to draft, which takes a published page off the site: `PageLifecycle`
  says so;
- a render that overlaps a publish or unpublish stores what it read after the invalidation:
  `InvalidationComplete` exempts such entries (`raced`), `BoundedStaleness` limits them;
- racing logins exceed the session limit by one each (`SessionLimitSlack`); a login that verified
  the old password and inserts after a reset lives on, and so do all sessions when a confirmation
  fails before its last step (`spared`). The session policy is fixed in a behaviour;
- two overlapping changes of users and roles can leave no administrator, which is what `overlapped`
  exempts; and the checks count administrators of any status, so the last active one can be
  disabled while an inactive one remains. Two overlapping `setUserRoles` of one user may leave the
  union of both sets;
- racing reservations overlap (`known`), and an administrator's status change may reopen one whose
  time was taken (`reopened`); buffers are kept only toward what a visitor's preview saw and only those
  of the request's own service; administrators' reservations skip the preview;
- overlapping retries of one run execute its action once each and may log equal attempt numbers; an action
  that failed after its effect has it again when retried. An insert of a log that commits and loses its answer
  counts as a failure of the action: a second row follows for the same execution, and another attempt;
- overlapping requests under one idempotency key both execute, and the loser's undo items can end at
  the winner's row; a request cut between execution and save executes again when repeated, and one cut
  before its undo items leaves a row without them;
- a start-up that dies while it ingests a newer image leaves the older one recorded, so a
  roll-back skips over an index with documents of both; a reindex takes no lock and can overlap
  an ingestion (`touched` and `torn` exempt both). The lock and unlock of a start-up go through
  a pool, and are on one session only because the pool has one open connection then.

## Not modelled, and the plan

Next, in this order:

1. `BackupSnapshot`: what a snapshot contains that is read table by table outside a transaction
   (`backupService.ts:285`), and whether a restore, which is one transaction, can put it back.
2. `Plugins`: enabling, error counts whose updates are lost (`pluginManager.ts:55`), automatic
   disabling, revocation, hooks.
3. The client's read-through caches and the debounced autosave: a load begun before an invalidation
   stores its answer after it; a merging `set` renews the age of an entry.
4. Posts and content entries as further implementations of `PageLifecycle`.
5. With each of these, the theorems of its properties.

Known and covered by no property: `markScheduleRun` computes `nextRunAt` from an `enabled` it read
earlier; `publishPage` without a body publishes the draft it read over one saved meanwhile.

Left out for good: webhook deliveries (the queue has no caller); the rate limit (a counter per
process, changed in one synchronous step); rendering, widgets and the admin interface, which are
most of the repository's lines (no protocol state); assistant planning, mail and provider calls
(external); format conversions of custom screens and kits; single-statement services (menus,
media, redirects, settings other than the two the site reads); tooling.
