\* Three starts of two replicas, forward and back, with a reindex and an accident.
SPECIFICATION StartupSpec
CONSTANTS
  Replicas = {"replica1", "replica2"}
  Reindexes = {"reindex"}
  Images = {1, 2}
  Docs = {1, 2, 3}
  DocsIn <- MCDocsIn
  Unheld = "nobody"
  MaxStarts = 3
  MaxFaults = 1
INVARIANT MigrationsOnce
INVARIANT SchemaIsReady
INVARIANT RecordedIsIndexed
PROPERTY SeedsOneByOne
PROPERTY StartsOrStops
CHECK_DEADLOCK FALSE
