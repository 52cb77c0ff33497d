------------------------------- MODULE Startup --------------------------------
(***************************************************************************)
(* What a container does before it serves (core/server/dockerStart.ts):    *)
(* the database migrations under an advisory lock (startupMigrations.ts),  *)
(* then the assistant's documents under another (startupAssistantDocs.ts), *)
(* whose ingestion (docsIngestService.ts) an admin may also ask a serving  *)
(* replica for, without a lock.  Replicas of several images share the      *)
(* database: deployments roll, and roll back.  Image v carries the         *)
(* migrations 1..v; a document's text and its chunks are those of an image.*)
(***************************************************************************)
EXTENDS Naturals, Sequences, FiniteSets

CONSTANTS
  Replicas,
  Reindexes,  \* admins' requests for a reindex
  Images,     \* image versions
  Docs,       \* source paths, in the order of the directory
  DocsIn,     \* image -> the documents it carries
  Unheld,     \* nobody holds the lock
  MaxStarts,  \* bound: containers started
  MaxFaults   \* bound: refused statements and dead processes

ASSUME StartupAssumption ==
  /\ Unheld \notin Replicas \cup Reindexes /\ Replicas \cap Reindexes = {}
  /\ Images \subseteq Nat \ {0} /\ Docs \subseteq Nat
  /\ DocsIn \in [Images -> (SUBSET Docs) \ {{}}]
  /\ MaxStarts \in Nat /\ MaxFaults \in Nat

VARIABLES
  schema,      \* the migrations applied, in the order of __drizzle_migrations
  schemaLock,  \* whose session holds the migrations' advisory lock
  docs,        \* assistant_docs and assistant_doc_chunks, by source path
  recorded,    \* assistant.docs.startupReindexState: an image, or 0
  docsLock,    \* whose session holds the documents' advisory lock
  replica,     \* what each replica is doing
  ingest,      \* local variables of the ingestions, of replicas and of requests
  starts, mishaps,
  touched,     \* history: an ingestion began since the state was recorded
  torn         \* history: two ingestions overlapped

database == <<schema, schemaLock, docs, recorded, docsLock>>
startupVars == <<database, replica, ingest, starts, mishaps, touched, torn>>

Down == [at |-> "down"]
Replica == {Down} \cup
  [at : {"lockSchema", "readSchema", "unlockSchema", "lockDocs", "readState", "ingest",
         "unlockDocs", "up"}, image : Images, ok : BOOLEAN]
  \cup [at : {"migrate"}, image : Images, ok : BOOLEAN, last : Nat]
At(r) == replica[r].at
Step(r, at) ==
  replica' = [replica EXCEPT ![r] = [at |-> at, image |-> replica[r].image, ok |-> replica[r].ok]]

NoDoc == [text |-> 0, chunks |-> 0]
Corpus(v) == [d \in Docs |-> IF d \in DocsIn[v] THEN [text |-> v, chunks |-> v] ELSE NoDoc]

NotIngesting == [at |-> "none"]
Ingesting == [at : {"upsert", "clear", "insert", "orphan", "list", "prune", "done", "failed"},
              on : Replicas, image : Images, todo : SUBSET Docs]
Running == {p \in DOMAIN ingest : ingest[p] # NotIngesting}

StartupTypeOK ==
  /\ schema \in Seq(Nat)
  /\ schemaLock \in Replicas \cup {Unheld} /\ docsLock \in Replicas \cup {Unheld}
  /\ docs \in [Docs -> [text : Images \cup {0}, chunks : Images \cup {0}]]
  /\ recorded \in Images \cup {0}
  /\ replica \in [Replicas -> Replica]
  /\ ingest \in [Replicas \cup Reindexes -> Ingesting \cup {NotIngesting}]
  /\ \A d \in Docs : docs[d].text = 0 => docs[d].chunks = 0
  /\ \A r \in Replicas : At(r) = "ingest" <=> ingest[r] # NotIngesting
  /\ \A p \in Running : At(ingest[p].on) # "down"

StartupInit ==
  /\ schema = << >> /\ docs = [d \in Docs |-> NoDoc] /\ recorded = 0
  /\ schemaLock = Unheld /\ docsLock = Unheld
  /\ replica = [r \in Replicas |-> Down]
  /\ ingest = [p \in Replicas \cup Reindexes |-> NotIngesting]
  /\ starts = 0 /\ mishaps = 0 /\ touched = FALSE /\ torn = FALSE

Mishap == mishaps < MaxFaults /\ mishaps' = mishaps + 1

-----------------------------------------------------------------------------
(* runStartupMigrations *)

StartContainer(r) ==
  /\ At(r) = "down" /\ starts < MaxStarts
  /\ \E v \in Images :
       replica' = [replica EXCEPT ![r] = [at |-> "lockSchema", image |-> v, ok |-> TRUE]]
  /\ starts' = starts + 1
  /\ UNCHANGED <<database, ingest, mishaps, touched, torn>>

\* Mutant: the lock is asked for and not waited for.
LockSchemaTried(r) ==
  /\ At(r) = "lockSchema"
  /\ schemaLock' = IF schemaLock = Unheld THEN r ELSE schemaLock
  /\ Step(r, "readSchema")
  /\ UNCHANGED <<schema, docs, recorded, docsLock, ingest, starts, mishaps, touched, torn>>

\* pg_advisory_lock waits.
LockSchema(r) ==
  /\ At(r) = "lockSchema" /\ schemaLock = Unheld
  /\ schemaLock' = r
  /\ Step(r, "readSchema")
  /\ UNCHANGED <<schema, docs, recorded, docsLock, ingest, starts, mishaps, touched, torn>>

\* The migrator reads the last migration applied ...
ReadSchema(r) ==
  /\ At(r) = "readSchema"
  /\ replica' = [replica EXCEPT ![r] =
       [at |-> "migrate", image |-> @.image, ok |-> TRUE, last |-> Len(schema)]]
  /\ UNCHANGED <<database, ingest, starts, mishaps, touched, torn>>

\* ... and applies those after it in one transaction.
Migrate(r) ==
  /\ At(r) = "migrate"
  /\ LET from == replica[r].last IN
       schema' = schema \o [i \in 1..(IF replica[r].image > from THEN replica[r].image - from ELSE 0)
                              |-> from + i]
  /\ Step(r, "unlockSchema")
  /\ UNCHANGED <<schemaLock, docs, recorded, docsLock, ingest, starts, mishaps, touched, torn>>

\* The transaction is rolled back; the error is thrown after the unlock.
MigrateFails(r) ==
  /\ At(r) = "migrate" /\ Mishap
  /\ replica' = [replica EXCEPT ![r] = [at |-> "unlockSchema", image |-> @.image, ok |-> FALSE]]
  /\ UNCHANGED <<database, ingest, starts, touched, torn>>

\* Mutant: the error of the migration is dropped.
UnlockSchemaRegardless(r) ==
  /\ At(r) = "unlockSchema"
  /\ schemaLock' = Unheld
  /\ Step(r, "lockDocs")
  /\ UNCHANGED <<schema, docs, recorded, docsLock, ingest, starts, mishaps, touched, torn>>

\* On the one connection of the migrations' client.  An error ends the process.
UnlockSchema(r) ==
  /\ At(r) = "unlockSchema"
  /\ schemaLock' = Unheld
  /\ IF replica[r].ok THEN Step(r, "lockDocs") ELSE replica' = [replica EXCEPT ![r] = Down]
  /\ UNCHANGED <<schema, docs, recorded, docsLock, ingest, starts, mishaps, touched, torn>>

-----------------------------------------------------------------------------
(* runStartupAssistantDocsReindex *)

\* Mutant: the lock is asked for and not waited for.
LockDocsTried(r) ==
  /\ At(r) = "lockDocs"
  /\ docsLock' = IF docsLock = Unheld THEN r ELSE docsLock
  /\ Step(r, "readState")
  /\ UNCHANGED <<schema, schemaLock, docs, recorded, ingest, starts, mishaps, touched, torn>>

LockDocs(r) ==
  /\ At(r) = "lockDocs" /\ docsLock = Unheld
  /\ docsLock' = r
  /\ Step(r, "readState")
  /\ UNCHANGED <<schema, schemaLock, docs, recorded, ingest, starts, mishaps, touched, torn>>

BeginIngest(p, on, image) ==
  /\ ingest' = [ingest EXCEPT ![p] =
       [at |-> "upsert", on |-> on, image |-> image, todo |-> DocsIn[image]]]
  /\ touched' = TRUE /\ torn' = (torn \/ Running # {})

\* Skipped when this image's documents are recorded as indexed.
ReadState(r) ==
  /\ At(r) = "readState"
  /\ IF recorded = replica[r].image
     THEN Step(r, "unlockDocs") /\ UNCHANGED <<ingest, touched, torn>>
     ELSE Step(r, "ingest") /\ BeginIngest(r, r, replica[r].image)
  /\ UNCHANGED <<database, starts, mishaps>>

\* Mutant: the state is recorded whatever became of the ingestion.
RecordRegardless(r) ==
  /\ At(r) = "ingest" /\ ingest[r].at \in {"done", "failed"}
  /\ recorded' = replica[r].image /\ touched' = FALSE
  /\ replica' = [replica EXCEPT ![r].at = "unlockDocs", ![r].ok = ingest[r].at = "done"]
  /\ ingest' = [ingest EXCEPT ![r] = NotIngesting]
  /\ UNCHANGED <<schema, schemaLock, docs, docsLock, starts, mishaps, torn>>

\* The state is recorded after a complete ingestion only.
Record(r) ==
  /\ At(r) = "ingest" /\ ingest[r].at \in {"done", "failed"}
  /\ IF ingest[r].at = "done"
     THEN recorded' = replica[r].image /\ touched' = FALSE
     ELSE UNCHANGED <<recorded, touched>>
  /\ replica' = [replica EXCEPT ![r].at = "unlockDocs", ![r].ok = ingest[r].at = "done"]
  /\ ingest' = [ingest EXCEPT ![r] = NotIngesting]
  /\ UNCHANGED <<schema, schemaLock, docs, docsLock, starts, mishaps, torn>>

\* Mutant: the lock is left to the session.
UnlockDocsSkipped(r) ==
  /\ At(r) = "unlockDocs"
  /\ Step(r, "up")
  /\ UNCHANGED <<database, ingest, starts, mishaps, touched, torn>>

\* The pool runs the unlock on the connection that holds the lock: nothing else uses
\* it before the server is up, so it has opened one.  An error ends the process.
UnlockDocs(r) ==
  /\ At(r) = "unlockDocs"
  /\ docsLock' = Unheld
  /\ IF replica[r].ok THEN Step(r, "up") ELSE replica' = [replica EXCEPT ![r] = Down]
  /\ UNCHANGED <<schema, schemaLock, docs, recorded, ingest, starts, mishaps, touched, torn>>

\* POST /assistant/reindex on a serving replica: no lock and no record.
Reindex(q) ==
  /\ ingest[q] = NotIngesting
  /\ \E r \in Replicas : At(r) = "up" /\ BeginIngest(q, r, replica[r].image)
  /\ UNCHANGED <<database, replica, starts, mishaps>>

Answered(q) ==
  /\ ingest[q] # NotIngesting /\ ingest[q].at \in {"done", "failed"}
  /\ ingest' = [ingest EXCEPT ![q] = NotIngesting]
  /\ UNCHANGED <<database, replica, starts, mishaps, touched, torn>>

-----------------------------------------------------------------------------
(* ingestInternalDocsToDb, statement by statement *)

FirstDoc(S) == CHOOSE d \in S : \A e \in S : d <= e
Doc(p) == FirstDoc(ingest[p].todo)
IngestAt(p, at) == ingest[p] # NotIngesting /\ ingest[p].at = at
Goes(p, at) == ingest' = [ingest EXCEPT ![p].at = at]
RestOfIngest == <<schema, schemaLock, recorded, docsLock, replica, starts, touched, torn>>

UpsertDoc(p) ==
  /\ IngestAt(p, "upsert")
  /\ docs' = [docs EXCEPT ![Doc(p)].text = ingest[p].image]
  /\ Goes(p, "clear")
  /\ UNCHANGED <<RestOfIngest, mishaps>>

ClearChunks(p) ==
  /\ IngestAt(p, "clear")
  /\ docs' = [docs EXCEPT ![Doc(p)].chunks = 0]
  /\ Goes(p, "insert")
  /\ UNCHANGED <<RestOfIngest, mishaps>>

\* Refused when the row was deleted since its upsert, or has chunks again.
InsertChunks(p) ==
  /\ IngestAt(p, "insert") \/ IngestAt(p, "orphan")
  /\ LET todo == ingest[p].todo \ {Doc(p)} IN
       IF ingest[p].at = "orphan" \/ docs[Doc(p)].chunks # 0
       THEN Goes(p, "failed") /\ UNCHANGED docs
       ELSE /\ docs' = [docs EXCEPT ![Doc(p)].chunks = ingest[p].image]
            /\ ingest' = [ingest EXCEPT ![p].todo = todo,
                                        ![p].at = IF todo = {} THEN "list" ELSE "upsert"]
  /\ UNCHANGED <<RestOfIngest, mishaps>>

\* pruneStaleAssistantDocs lists the rows whose file is gone ...
ListStale(p) ==
  /\ IngestAt(p, "list")
  /\ ingest' = [ingest EXCEPT ![p].at = "prune",
       ![p].todo = {d \in Docs \ DocsIn[ingest[p].image] : docs[d].text # 0}]
  /\ UNCHANGED <<RestOfIngest, docs, mishaps>>

\* Other ingestions that are about to store chunks for the row of d.
Storing(p, d) ==
  {q \in Running \ {p} : ingest[q].at \in {"clear", "insert"} /\ Doc(q) = d}

\* ... and deletes them one by one, with their chunks.
DeleteStale(p) ==
  /\ IngestAt(p, "prune")
  /\ IF ingest[p].todo = {} THEN Goes(p, "done") /\ UNCHANGED docs
     ELSE /\ docs' = [docs EXCEPT ![Doc(p)] = NoDoc]
          /\ ingest' = [q \in DOMAIN ingest |->
               IF q = p THEN [ingest[p] EXCEPT !.todo = @ \ {Doc(p)}]
               ELSE IF q \in Storing(p, Doc(p)) THEN [ingest[q] EXCEPT !.at = "orphan"]
               ELSE ingest[q]]
  /\ UNCHANGED <<RestOfIngest, mishaps>>

\* A statement is refused.  (The documents of an image are valid ones.)
IngestFails(p) ==
  /\ ingest[p] # NotIngesting /\ ingest[p].at \notin {"done", "failed"}
  /\ Mishap
  /\ Goes(p, "failed")
  /\ UNCHANGED <<RestOfIngest, docs>>

\* The process dies: its sessions and its requests end.
Die(r) ==
  /\ At(r) # "down" /\ Mishap
  /\ replica' = [replica EXCEPT ![r] = Down]
  /\ schemaLock' = IF schemaLock = r THEN Unheld ELSE schemaLock
  /\ docsLock' = IF docsLock = r THEN Unheld ELSE docsLock
  /\ ingest' = [p \in DOMAIN ingest |->
       IF p \in Running /\ ingest[p].on = r THEN NotIngesting ELSE ingest[p]]
  /\ UNCHANGED <<schema, docs, recorded, starts, touched, torn>>

Ingest(p) ==
  UpsertDoc(p) \/ ClearChunks(p) \/ InsertChunks(p) \/ ListStale(p) \/ DeleteStale(p)
Boot(r) ==
  \/ LockSchema(r) \/ ReadSchema(r) \/ Migrate(r) \/ UnlockSchema(r)
  \/ LockDocs(r) \/ ReadState(r) \/ Record(r) \/ UnlockDocs(r) \/ Ingest(r)

StartupNext ==
  \/ \E r \in Replicas :
       Boot(r) \/ StartContainer(r) \/ MigrateFails(r) \/ IngestFails(r) \/ Die(r)
  \/ \E q \in Reindexes : Reindex(q) \/ Ingest(q) \/ IngestFails(q) \/ Answered(q)

\* A live process goes on with its start-up, and a lock it waits for falls to it once
\* the starts before it are over.
StartupSpec ==
  StartupInit /\ [][StartupNext]_startupVars /\ \A r \in Replicas : WF_startupVars(Boot(r))

-----------------------------------------------------------------------------
(* Properties *)

\* "Multiple replicas wait on the same migration step instead of racing it"
\* (_docs/RELEASE_PROCESS.md): every migration is applied once and in order, whoever
\* starts, fails and dies beside whom.
MigrationsOnce == \A i \in DOMAIN schema : schema[i] = i

\* No replica runs "against an older schema" (_docs/RELEASE_PROCESS.md) than its image's.
SchemaIsReady ==
  \A r \in Replicas : At(r) \in {"lockDocs", "readState", "ingest", "unlockDocs", "up"} =>
    Len(schema) >= replica[r].image

\* While the recorded image is skipped at start-up, the index holds that image's
\* documents, whole and no others, unless a reindex began since or overlapped another.
RecordedIsIndexed == recorded # 0 /\ ~touched /\ ~torn => docs = Corpus(recorded)

\* Start-up ingestions are serialised as the abstract lock allows, through deaths of
\* the process that holds it.
Seeding == {r \in Replicas : At(r) \in {"readState", "ingest", "unlockDocs"}}
SeedLock == INSTANCE SingleFlightLock WITH Processes <- Replicas, inside <- Seeding
SeedsOneByOne == SeedLock!Spec

\* A container that starts serves or stops: nobody waits for a lock for ever, though
\* its holder may fail or die at any step.
StartsOrStops == \A r \in Replicas : At(r) \notin {"down", "up"} ~> At(r) \in {"down", "up"}
===============================================================================
