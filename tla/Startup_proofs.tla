---------------------------- MODULE Startup_proofs -----------------------------
(***************************************************************************)
(* Proofs about the start of containers, for any number of replicas,       *)
(* images, documents and reindexes: the two advisory locks order the       *)
(* migrations and the ingestions, whoever fails or dies; and no chunks are *)
(* left without their document, whichever ingestions overlap.              *)
(***************************************************************************)
EXTENDS Startup, Counting, SequenceTheorems, TLAPS

SchemaPcs == {"readSchema", "migrate", "unlockSchema"}
DocsPcs == {"readState", "ingest", "unlockDocs"}
ReadyPcs == {"lockDocs", "readState", "ingest", "unlockDocs", "up"}

\* What a replica that got to x has seen of the schema s.
Fits(x, s) ==
  /\ x.at = "migrate" => x.last = Len(s)
  /\ x.at \in ReadyPcs => Len(s) >= x.image
  /\ x.at = "unlockSchema" /\ x.ok => Len(s) >= x.image

InOrder(s) == s \in Seq(Nat) /\ \A i \in 1..Len(s) : s[i] = i

BootInv ==
  /\ InOrder(schema)
  /\ replica \in [Replicas -> Replica]
  /\ schemaLock \in Replicas \cup {Unheld} /\ docsLock \in Replicas \cup {Unheld}
  /\ \A r \in Replicas : At(r) \in SchemaPcs <=> schemaLock = r
  /\ \A r \in Replicas : At(r) \in DocsPcs <=> docsLock = r
  /\ \A r \in Replicas : Fits(replica[r], schema)

LEMMA BootInvInit == StartupInit => BootInv
<1> SUFFICES ASSUME StartupInit PROVE BootInv
  OBVIOUS
<1>1. InOrder(schema)
  BY DEF StartupInit, InOrder
<1> QED BY <1>1, StartupAssumption
        DEF StartupInit, BootInv, At, Down, Replica, SchemaPcs, DocsPcs, ReadyPcs, Fits

\* A lock once the replica r has got to x.
Held(lock, pcs, r, x) == IF x.at \in pcs THEN r ELSE IF lock = r THEN Unheld ELSE lock

\* What the steps of a replica that gets to x have in common.
GetsTo(r, x) ==
  /\ replica' = [replica EXCEPT ![r] = x] /\ x \in Replica
  /\ schema' = schema \/ schemaLock = r
  /\ InOrder(schema') /\ Len(schema') >= Len(schema)
  /\ x.at \in SchemaPcs => schemaLock \in {r, Unheld}
  /\ x.at \in DocsPcs => docsLock \in {r, Unheld}
  /\ schemaLock' = Held(schemaLock, SchemaPcs, r, x)
  /\ docsLock' = Held(docsLock, DocsPcs, r, x)
  /\ Fits(x, schema')

LEMMA OneGetsOn ==
  ASSUME BootInv, NEW r \in Replicas, NEW x, GetsTo(r, x)
  PROVE  BootInv'
<1>1. /\ replica' \in [Replicas -> Replica] /\ replica'[r] = x
      /\ \A q \in Replicas \ {r} : replica'[q] = replica[q]
  BY DEF GetsTo, BootInv
<1>2. InOrder(schema') /\ Len(schema) \in Nat /\ Len(schema') \in Nat
      /\ Len(schema') >= Len(schema)
  BY LenProperties DEF GetsTo, BootInv, InOrder
<1>3. /\ schemaLock' \in Replicas \cup {Unheld} /\ docsLock' \in Replicas \cup {Unheld}
      /\ \A q \in Replicas : (replica'[q].at \in SchemaPcs <=> schemaLock' = q)
      /\ \A q \in Replicas : (replica'[q].at \in DocsPcs <=> docsLock' = q)
  BY <1>1, StartupAssumption DEF GetsTo, BootInv, Held, At
<1>4. ASSUME NEW q \in Replicas PROVE Fits(replica'[q], schema')
  <2>1. CASE q = r
    BY <1>1, <2>1 DEF GetsTo
  <2>2. CASE q # r
    <3>1. schema' = schema \/ replica[q].at \notin SchemaPcs
      BY <2>2 DEF GetsTo, BootInv, At
    <3>2. replica[q] \in Replica
      BY DEF BootInv
    <3>3. replica[q].at # "down" => replica[q].image \in Images
      BY <3>2 DEF Replica, Down
    <3>4. replica[q].at \in ReadyPcs => replica[q].image \in Nat
      BY <3>3, StartupAssumption DEF ReadyPcs
    <3> QED BY <1>1, <1>2, <2>2, <3>1, <3>4 DEF BootInv, Fits, SchemaPcs
  <2> QED BY <2>1, <2>2
<1> QED BY <1>1, <1>2, <1>3, <1>4 DEF BootInv, At

\* Steps that leave replicas, schema and locks alone.
LEMMA NoneGetsOn ==
  BootInv /\ UNCHANGED <<schema, schemaLock, docsLock, replica>> => BootInv'
  BY DEF BootInv, At

\* The migrations after the last one, appended to those in order.
LEMMA MigrationsFollow ==
  ASSUME NEW s, InOrder(s), NEW v \in Nat,
         NEW t, t = s \o [i \in 1..(IF v > Len(s) THEN v - Len(s) ELSE 0) |-> Len(s) + i]
  PROVE  InOrder(t) /\ Len(t) >= Len(s) /\ Len(t) >= v
<1> DEFINE n == IF v > Len(s) THEN v - Len(s) ELSE 0
           u == [i \in 1..n |-> Len(s) + i]
<1>1. s \in Seq(Nat) /\ Len(s) \in Nat
  BY LenProperties DEF InOrder
<1>2. n \in Nat /\ Len(s) + n >= v
  BY <1>1
<1>3. u \in Seq(Nat) /\ Len(u) = n /\ \A i \in 1..n : u[i] = Len(s) + i
  BY <1>1, <1>2
<1> HIDE DEF n, u
<1>4. t = s \o u
  BY DEF n, u
<1>5. /\ t \in Seq(Nat) /\ Len(t) = Len(s) + n
      /\ \A i \in 1..(Len(s) + n) : t[i] = IF i <= Len(s) THEN s[i] ELSE u[i - Len(s)]
  <2>1. Len(s \o u) = Len(s) + Len(u)
    BY <1>1, <1>3, ConcatProperties
  <2>2. \A i \in 1..(Len(s) + Len(u)) : (s \o u)[i] = IF i <= Len(s) THEN s[i] ELSE u[i - Len(s)]
    BY <1>1, <1>3, ConcatProperties
  <2>3. s \o u \in Seq(Nat)
    BY <1>1, <1>3, ConcatProperties
  <2> QED BY <1>3, <1>4, <2>1, <2>2, <2>3
<1>6. ASSUME NEW i \in 1..Len(t) PROVE t[i] = i
  <2>1. CASE i <= Len(s)
    BY <1>1, <1>2, <1>5, <2>1 DEF InOrder
  <2>2. CASE ~(i <= Len(s))
    <3>1. i - Len(s) \in 1..n
      BY <1>1, <1>2, <1>5, <2>2
    <3> QED BY <1>1, <1>2, <1>3, <1>5, <2>2, <3>1
  <2> QED BY <2>1, <2>2
<1> QED BY <1>1, <1>2, <1>5, <1>6 DEF InOrder

\* The record of a replica that is up or on its way.
LEMMA ReplicaShape ==
  ASSUME BootInv, NEW r \in Replicas, At(r) # "down"
  PROVE  /\ replica[r].image \in Images /\ replica[r].image \in Nat
         /\ replica[r].ok \in BOOLEAN
         /\ At(r) = "migrate" => replica[r].last \in Nat
<1>1. replica[r] \in Replica
  BY DEF BootInv
<1>2. /\ replica[r].image \in Images /\ replica[r].ok \in BOOLEAN
      /\ At(r) = "migrate" => replica[r].last \in Nat
  BY <1>1 DEF Replica, Down, At
<1> QED BY <1>2, StartupAssumption

\* A replica that goes on under its image, the schema staying as it is.
LEMMA GoesOn ==
  ASSUME BootInv, NEW r \in Replicas, NEW at, At(r) # "down",
         at \in {"lockSchema", "readSchema", "lockDocs", "unlockDocs", "readState", "ingest", "up"},
         Step(r, at), schema' = schema,
         at \in ReadyPcs =>
           \/ At(r) \in ReadyPcs
           \/ At(r) = "unlockSchema" /\ replica[r].ok,
         at \in SchemaPcs => schemaLock \in {r, Unheld},
         at \in DocsPcs => docsLock \in {r, Unheld},
         schemaLock' = Held(schemaLock, SchemaPcs, r, [at |-> at]),
         docsLock' = Held(docsLock, DocsPcs, r, [at |-> at])
  PROVE  BootInv'
<1> DEFINE x == [at |-> at, image |-> replica[r].image, ok |-> replica[r].ok]
<1>1. x \in Replica
  BY ReplicaShape DEF Replica
<1>2. Fits(x, schema)
  BY DEF BootInv, Fits, At, ReadyPcs
<1>3. Len(schema') >= Len(schema) /\ InOrder(schema')
  BY LenProperties DEF BootInv, InOrder
<1>4. GetsTo(r, x)
  BY <1>1, <1>2, <1>3 DEF GetsTo, Step, Held
<1> QED BY <1>4, OneGetsOn

LEMMA StopsHere ==
  ASSUME BootInv, NEW r \in Replicas, replica' = [replica EXCEPT ![r] = Down],
         schema' = schema,
         schemaLock' = (IF schemaLock = r THEN Unheld ELSE schemaLock),
         docsLock' = (IF docsLock = r THEN Unheld ELSE docsLock)
  PROVE  BootInv'
<1>1. Down \in Replica /\ Fits(Down, schema)
  BY DEF Replica, Down, Fits, ReadyPcs
<1>2. Len(schema') >= Len(schema) /\ InOrder(schema')
  BY LenProperties DEF BootInv, InOrder
<1>3. Down.at \notin SchemaPcs /\ Down.at \notin DocsPcs
  BY DEF Down, SchemaPcs, DocsPcs
<1>4. GetsTo(r, Down)
  BY <1>1, <1>2, <1>3 DEF GetsTo, Held
<1> QED BY <1>4, OneGetsOn

LEMMA MigrateStep ==
  ASSUME BootInv, NEW r \in Replicas, Migrate(r)
  PROVE  BootInv'
<1> DEFINE x == [at |-> "unlockSchema", image |-> replica[r].image, ok |-> replica[r].ok]
<1>1. /\ At(r) = "migrate" /\ replica[r].last = Len(schema) /\ schemaLock = r
      /\ docsLock # r /\ replica' = [replica EXCEPT ![r] = x]
      /\ UNCHANGED <<schemaLock, docsLock>>
  BY DEF Migrate, Step, BootInv, Fits, At, SchemaPcs, DocsPcs
<1>2. replica[r].image \in Nat /\ x \in Replica
  BY <1>1, ReplicaShape DEF Replica
<1>3. schema' = schema \o [i \in 1..(IF replica[r].image > Len(schema)
                                   THEN replica[r].image - Len(schema) ELSE 0)
                             |-> Len(schema) + i]
  BY <1>1 DEF Migrate
<1>4. InOrder(schema') /\ Len(schema') >= Len(schema) /\ Len(schema') >= replica[r].image
  BY <1>2, <1>3, MigrationsFollow DEF BootInv
<1>5. GetsTo(r, x)
  BY <1>1, <1>2, <1>4 DEF GetsTo, Held, Fits, SchemaPcs, DocsPcs, ReadyPcs
<1> QED BY <1>5, OneGetsOn

LEMMA BootInvStep == BootInv /\ [StartupNext]_startupVars => BootInv'
<1> SUFFICES ASSUME BootInv, [StartupNext]_startupVars PROVE BootInv'
  OBVIOUS
<1> USE DEF At
<1>1. CASE UNCHANGED startupVars
  BY <1>1, NoneGetsOn DEF startupVars, database
<1>2. ASSUME NEW r \in Replicas, StartContainer(r) PROVE BootInv'
  <2>1. PICK v \in Images :
          replica' = [replica EXCEPT ![r] = [at |-> "lockSchema", image |-> v, ok |-> TRUE]]
    BY <1>2 DEF StartContainer
  <2> DEFINE x == [at |-> "lockSchema", image |-> v, ok |-> TRUE]
  <2>2. x \in Replica /\ Fits(x, schema) /\ x.at \notin SchemaPcs /\ x.at \notin DocsPcs
    BY DEF Replica, Fits, ReadyPcs, SchemaPcs, DocsPcs
  <2>3. schemaLock # r /\ docsLock # r /\ UNCHANGED <<schema, schemaLock, docsLock>>
    BY <1>2 DEF StartContainer, database, BootInv, SchemaPcs, DocsPcs
  <2>4. Len(schema') >= Len(schema) /\ InOrder(schema')
    BY <2>3, LenProperties DEF BootInv, InOrder
  <2>5. GetsTo(r, x)
    BY <2>1, <2>2, <2>3, <2>4 DEF GetsTo, Held
  <2> QED BY <2>5, OneGetsOn
<1>3. ASSUME NEW r \in Replicas, LockSchema(r) PROVE BootInv'
  <2>1. At(r) # "down" /\ docsLock # r /\ schemaLock = Unheld
    BY <1>3 DEF LockSchema, BootInv, DocsPcs
  <2> QED BY <1>3, <2>1, GoesOn DEF LockSchema, Held, SchemaPcs, DocsPcs, ReadyPcs
<1>4. ASSUME NEW r \in Replicas, ReadSchema(r) PROVE BootInv'
  <2> DEFINE x == [at |-> "migrate", image |-> replica[r].image, ok |-> TRUE, last |-> Len(schema)]
  <2>1. replica' = [replica EXCEPT ![r] = x] /\ UNCHANGED <<schema, schemaLock, docsLock>>
    BY <1>4 DEF ReadSchema, database
  <2>2. schemaLock = r /\ docsLock # r
    BY <1>4 DEF ReadSchema, BootInv, SchemaPcs, DocsPcs
  <2>3. Len(schema) \in Nat /\ Len(schema') >= Len(schema) /\ InOrder(schema')
    BY <2>1, LenProperties DEF BootInv, InOrder
  <2>4. x \in Replica
    BY <1>4, <2>3, ReplicaShape DEF ReadSchema, Replica
  <2>5. GetsTo(r, x)
    BY <2>1, <2>2, <2>3, <2>4 DEF GetsTo, Held, Fits, SchemaPcs, DocsPcs, ReadyPcs
  <2> QED BY <2>5, OneGetsOn
<1>5. ASSUME NEW r \in Replicas, MigrateFails(r) PROVE BootInv'
  <2> DEFINE x == [at |-> "unlockSchema", image |-> replica[r].image, ok |-> FALSE]
  <2>1. replica' = [replica EXCEPT ![r] = x] /\ UNCHANGED <<schema, schemaLock, docsLock>>
    BY <1>5 DEF MigrateFails, database
  <2>2. schemaLock = r /\ docsLock # r
    BY <1>5 DEF MigrateFails, BootInv, SchemaPcs, DocsPcs
  <2>3. Len(schema') >= Len(schema) /\ InOrder(schema')
    BY <2>1, LenProperties DEF BootInv, InOrder
  <2>4. x \in Replica
    BY <1>5, ReplicaShape DEF MigrateFails, Replica
  <2>5. GetsTo(r, x)
    BY <2>1, <2>2, <2>3, <2>4 DEF GetsTo, Held, Fits, SchemaPcs, DocsPcs, ReadyPcs
  <2> QED BY <2>5, OneGetsOn
<1>6. ASSUME NEW r \in Replicas, UnlockSchema(r) PROVE BootInv'
  <2>1. schemaLock = r /\ docsLock # r /\ At(r) = "unlockSchema"
        /\ UNCHANGED <<schema, docsLock>> /\ schemaLock' = Unheld
    BY <1>6 DEF UnlockSchema, BootInv, SchemaPcs, DocsPcs
  <2>2. CASE replica[r].ok
    BY <1>6, <2>1, <2>2, GoesOn DEF UnlockSchema, Held, SchemaPcs, DocsPcs, ReadyPcs
  <2>3. CASE ~replica[r].ok
    BY <1>6, <2>1, <2>3, StopsHere DEF UnlockSchema
  <2> QED BY <2>2, <2>3
<1>7. ASSUME NEW r \in Replicas, LockDocs(r) PROVE BootInv'
  <2>1. At(r) = "lockDocs" /\ schemaLock # r /\ docsLock = Unheld
    BY <1>7 DEF LockDocs, BootInv, SchemaPcs
  <2> QED BY <1>7, <2>1, GoesOn DEF LockDocs, Held, SchemaPcs, DocsPcs, ReadyPcs
<1>8. ASSUME NEW r \in Replicas, ReadState(r) PROVE BootInv'
  <2>1. At(r) = "readState" /\ schemaLock # r /\ docsLock = r
        /\ UNCHANGED <<schema, schemaLock, docsLock>>
    BY <1>8 DEF ReadState, database, BootInv, SchemaPcs, DocsPcs
  <2>2. PICK at \in {"unlockDocs", "ingest"} : Step(r, at)
    BY <1>8 DEF ReadState
  <2> QED BY <2>1, <2>2, GoesOn DEF Held, SchemaPcs, DocsPcs, ReadyPcs
<1>9. ASSUME NEW r \in Replicas, Record(r) PROVE BootInv'
  <2> DEFINE done == ingest[r].at = "done"
             x == [replica[r] EXCEPT !.at = "unlockDocs", !.ok = done]
  <2>1. At(r) = "ingest" /\ schemaLock # r /\ docsLock = r
        /\ UNCHANGED <<schema, schemaLock, docsLock>>
    BY <1>9 DEF Record, BootInv, SchemaPcs, DocsPcs
  <2>2. replica' = [replica EXCEPT ![r] = x]
    BY <1>9 DEF Record, BootInv
  <2>3. replica[r] \in [at : {"lockSchema", "readSchema", "unlockSchema", "lockDocs",
          "readState", "ingest", "unlockDocs", "up"}, image : Images, ok : BOOLEAN]
    BY <2>1 DEF BootInv, Replica, Down
  <2>4. done \in BOOLEAN
    OBVIOUS
  <2> HIDE DEF done
  <2>5. x \in Replica /\ x.at = "unlockDocs" /\ x.image = replica[r].image
    BY <2>3, <2>4 DEF Replica
  <2> HIDE DEF x
  <2>6. Len(schema') >= Len(schema) /\ InOrder(schema')
    BY <2>1, LenProperties DEF BootInv, InOrder
  <2>7. Fits(x, schema')
    BY <2>1, <2>5 DEF BootInv, Fits, ReadyPcs
  <2>8. GetsTo(r, x)
    BY <2>1, <2>2, <2>5, <2>6, <2>7 DEF GetsTo, Held, SchemaPcs, DocsPcs
  <2> QED BY <2>8, OneGetsOn
<1>10. ASSUME NEW r \in Replicas, UnlockDocs(r) PROVE BootInv'
  <2>1. At(r) = "unlockDocs" /\ schemaLock # r /\ docsLock = r
        /\ UNCHANGED <<schema, schemaLock>> /\ docsLock' = Unheld
    BY <1>10 DEF UnlockDocs, BootInv, SchemaPcs, DocsPcs
  <2>2. CASE replica[r].ok
    BY <1>10, <2>1, <2>2, GoesOn DEF UnlockDocs, Held, SchemaPcs, DocsPcs, ReadyPcs
  <2>3. CASE ~replica[r].ok
    BY <1>10, <2>1, <2>3, StopsHere DEF UnlockDocs
  <2> QED BY <2>2, <2>3
<1>11. ASSUME NEW r \in Replicas, Die(r) PROVE BootInv'
  BY <1>11, StopsHere DEF Die
<1>12. ASSUME NEW p, Ingest(p) \/ IngestFails(p) \/ Reindex(p) \/ Answered(p) PROVE BootInv'
  BY <1>12, NoneGetsOn DEF Ingest, UpsertDoc, ClearChunks, InsertChunks, ListStale, DeleteStale,
     IngestFails, Reindex, Answered, RestOfIngest, database
<1> QED BY <1>1, <1>2, <1>3, <1>4, <1>5, <1>6, <1>7, <1>8, <1>9, <1>10, <1>11, <1>12,
           MigrateStep DEF StartupNext, Boot

\* Every migration is applied once and in order: pg_advisory_lock is held from the
\* reading of the last migration to the end of the transaction (startupMigrations.ts).
THEOREM MigrationsAppliedOnce == StartupSpec => []MigrationsOnce
<1>1. BootInv => MigrationsOnce
  BY LenProperties DEF BootInv, InOrder, MigrationsOnce
<1> QED BY <1>1, BootInvInit, BootInvStep, PTL DEF StartupSpec

\* A replica that got past runStartupMigrations has its image's schema, or a later one.
THEOREM SchemaStaysReady == StartupSpec => []SchemaIsReady
<1>1. BootInv => SchemaIsReady
  BY DEF BootInv, Fits, SchemaIsReady, ReadyPcs, At
<1> QED BY <1>1, BootInvInit, BootInvStep, PTL DEF StartupSpec

\* The lock of the documents passes from nobody to a replica and back.
LEMMA DocsLockPasses ==
  ASSUME BootInv, [StartupNext]_startupVars
  PROVE  \/ docsLock' = docsLock
         \/ \E r \in Replicas : \/ docsLock = Unheld /\ docsLock' = r
                                \/ docsLock = r /\ docsLock' = Unheld
<1>1. UNCHANGED startupVars => docsLock' = docsLock
  BY DEF startupVars, database
<1>2. ASSUME NEW r \in Replicas, LockDocs(r) \/ UnlockDocs(r) \/ Die(r)
      PROVE  \/ docsLock' = docsLock
             \/ docsLock = Unheld /\ docsLock' = r
             \/ docsLock = r /\ docsLock' = Unheld
  BY <1>2 DEF LockDocs, UnlockDocs, Die, BootInv, DocsPcs
<1>3. ASSUME NEW r \in Replicas,
             \/ LockSchema(r) \/ ReadSchema(r) \/ Migrate(r) \/ UnlockSchema(r)
             \/ ReadState(r) \/ Record(r) \/ StartContainer(r) \/ MigrateFails(r)
      PROVE  docsLock' = docsLock
  BY <1>3 DEF LockSchema, ReadSchema, Migrate, UnlockSchema, ReadState, Record, StartContainer,
     MigrateFails, database
<1>4. ASSUME NEW p, Ingest(p) \/ IngestFails(p) \/ Reindex(p) \/ Answered(p)
      PROVE  docsLock' = docsLock
  BY <1>4 DEF Ingest, UpsertDoc, ClearChunks, InsertChunks, ListStale, DeleteStale,
     IngestFails, Reindex, Answered, RestOfIngest, database
<1> QED BY <1>1, <1>2, <1>3, <1>4 DEF StartupNext, Boot

LEMMA SeedingIsHolding == BootInv => Seeding = {r \in Replicas : docsLock = r}
  BY DEF BootInv, Seeding, DocsPcs

LEMMA SeedsOneByOneStep ==
  BootInv /\ BootInv' /\ [StartupNext]_startupVars => [SeedLock!Next]_Seeding
<1> SUFFICES ASSUME BootInv, BootInv', [StartupNext]_startupVars
             PROVE  SeedLock!Next \/ Seeding' = Seeding
  OBVIOUS
<1>1. /\ Seeding = {r \in Replicas : docsLock = r}
      /\ Seeding' = {r \in Replicas : docsLock' = r}
  BY SeedingIsHolding DEF BootInv, Seeding, DocsPcs, At
<1>2. CASE docsLock' = docsLock
  BY <1>1, <1>2
<1>3. ASSUME NEW r \in Replicas, docsLock = Unheld, docsLock' = r PROVE SeedLock!Next
  <2>1. Seeding = {} /\ Seeding' = {r}
    BY <1>1, <1>3, StartupAssumption
  <2> QED BY <2>1 DEF SeedLock!Next, SeedLock!Enter
<1>4. ASSUME NEW r \in Replicas, docsLock = r, docsLock' = Unheld PROVE SeedLock!Next
  <2>1. Seeding = {r} /\ Seeding' = {}
    BY <1>1, <1>4, StartupAssumption
  <2> QED BY <2>1 DEF SeedLock!Next, SeedLock!Leave
<1> QED BY <1>2, <1>3, <1>4, DocsLockPasses

\* The ingestions of start-ups implement the abstract lock, however many replicas start,
\* die and are asked for reindexes.
THEOREM RefinesSeedLock == StartupSpec => SeedsOneByOne
<1>1. StartupInit => SeedLock!Init
  BY DEF StartupInit, SeedLock!Init, Seeding, At, Down
<1> QED BY <1>1, BootInvInit, BootInvStep, SeedsOneByOneStep, PTL
        DEF StartupSpec, SeedsOneByOne, SeedLock!Spec
-----------------------------------------------------------------------------
(* The recorded image is the indexed one *)

LEMMA FirstDocIsOne ==
  ASSUME NEW S, S \subseteq Docs, S # {}
  PROVE  FirstDoc(S) \in S
  BY LeastNat, StartupAssumption DEF FirstDoc

Ingesters == Replicas \cup Reindexes
Pages == [Docs -> [text : Images \cup {0}, chunks : Images \cup {0}]]
Indexed(v) == [text |-> v, chunks |-> v]

IndexTyped ==
  /\ ingest \in [Ingesters -> Ingesting \cup {NotIngesting}]
  /\ docs \in Pages
  /\ recorded \in Images \cup {0} /\ touched \in BOOLEAN /\ torn \in BOOLEAN

\* The ingestion of a replica that starts is that of its image.
Attached(r) ==
  At(r) = "ingest" =>
    /\ ingest[r] # NotIngesting
    /\ ingest[r].on = r /\ ingest[r].image = replica[r].image

\* What the ingestion x, alone, has made of the documents ds.
Does(x, ds) ==
  /\ x.at # "orphan"
  /\ x.at \in {"upsert", "clear", "insert"} =>
       /\ x.todo # {} /\ x.todo \subseteq DocsIn[x.image]
       /\ \A d \in DocsIn[x.image] \ x.todo : ds[d] = Indexed(x.image)
  /\ x.at \in {"clear", "insert"} => ds[FirstDoc(x.todo)].text = x.image
  /\ x.at = "insert" => ds[FirstDoc(x.todo)].chunks = 0
  /\ x.at \in {"list", "prune", "done"} => \A d \in DocsIn[x.image] : ds[d] = Indexed(x.image)
  /\ x.at = "prune" =>
       /\ x.todo \subseteq Docs \ DocsIn[x.image]
       /\ \A d \in (Docs \ DocsIn[x.image]) \ x.todo : ds[d] = NoDoc
  /\ x.at = "done" => ds = Corpus(x.image)

\* A document without a text has no chunks.
Paired(ds) == \A d \in Docs : ds[d].text = 0 => ds[d].chunks = 0

Alone ==
  /\ \A p, q \in Ingesters : ingest[p] # NotIngesting /\ ingest[q] # NotIngesting => p = q
  /\ \A p \in Ingesters : ingest[p] # NotIngesting => touched /\ Does(ingest[p], docs)
  /\ Paired(docs)
  /\ recorded # 0 /\ ~touched => docs = Corpus(recorded)

IndexInv ==
  /\ IndexTyped
  /\ \A r \in Replicas : Attached(r)
  /\ ~torn => Alone

LEMMA IngestShape ==
  ASSUME IndexTyped, NEW p \in Ingesters, ingest[p] # NotIngesting
  PROVE  /\ ingest[p] \in Ingesting
         /\ ingest[p].image \in Images /\ ingest[p].image # 0
         /\ DocsIn[ingest[p].image] \subseteq Docs /\ DocsIn[ingest[p].image] # {}
         /\ ingest[p].todo \subseteq Docs
<1>1. ingest[p] \in Ingesting
  BY DEF IndexTyped
<1>2. ingest[p].image \in Images /\ ingest[p].todo \subseteq Docs
  BY <1>1 DEF Ingesting
<1> QED BY <1>1, <1>2, StartupAssumption

LEMMA IndexInvInit == StartupInit => IndexInv
<1> SUFFICES ASSUME StartupInit PROVE IndexInv
  OBVIOUS
<1>1. ingest = [p \in Ingesters |-> NotIngesting] /\ docs = [d \in Docs |-> NoDoc]
  BY DEF StartupInit, Ingesters
<1>2. ingest \in [Ingesters -> Ingesting \cup {NotIngesting}]
  BY <1>1
<1>3. docs \in Pages /\ Paired(docs)
  BY <1>1 DEF Pages, NoDoc, Paired
<1>4. \A r \in Replicas : Attached(r)
  BY DEF StartupInit, Attached, At, Down
<1> QED BY <1>1, <1>2, <1>3, <1>4 DEF StartupInit, IndexInv, IndexTyped, Alone

\* Ingestions end or go on as they were.
LEMMA IngestionsEnd ==
  ASSUME IndexInv, ingest' \in [Ingesters -> Ingesting \cup {NotIngesting}],
         \A p \in Ingesters : ingest'[p] \in {ingest[p], NotIngesting},
         UNCHANGED <<docs, torn>>,
         \A r \in Replicas : Attached(r)',
         \/ UNCHANGED <<recorded, touched>>
         \/ /\ recorded' \in Images /\ touched' = FALSE
            /\ ~torn => docs = Corpus(recorded') /\ \A p \in Ingesters : ingest'[p] = NotIngesting
  PROVE  IndexInv'
<1>1. IndexTyped'
  BY DEF IndexInv, IndexTyped
<1>2. ASSUME ~torn PROVE Alone'
  BY <1>2 DEF IndexInv, Alone
<1> QED BY <1>1, <1>2 DEF IndexInv

\* A replica gets to x, which is not an ingestion.
LEMMA Elsewhere ==
  ASSUME IndexInv, BootInv, NEW r \in Replicas, NEW x, x.at # "ingest",
         replica' = [replica EXCEPT ![r] = x],
         UNCHANGED <<docs, recorded, ingest, touched, torn>>
  PROVE  IndexInv'
<1>1. \A q \in Replicas : Attached(q)'
  <2>1. /\ replica'[r] = x
        /\ \A q \in Replicas \ {r} : replica'[q] = replica[q]
    BY DEF BootInv
  <2> QED BY <2>1 DEF IndexInv, Attached, At
<1>2. ingest' \in [Ingesters -> Ingesting \cup {NotIngesting}]
  BY DEF IndexInv, IndexTyped
<1> QED BY <1>1, <1>2, IngestionsEnd

\* An ingestion begins.
LEMMA IngestionBegins ==
  ASSUME IndexInv, NEW p \in Ingesters, NEW on \in Replicas, NEW v \in Images,
         BeginIngest(p, on, v), UNCHANGED <<docs, recorded>>,
         \A r \in Replicas : Attached(r)'
  PROVE  IndexInv'
<1> DEFINE x == [at |-> "upsert", on |-> on, image |-> v, todo |-> DocsIn[v]]
<1>1. x \in Ingesting
  BY StartupAssumption DEF Ingesting
<1>2. Does(x, docs)
  BY StartupAssumption DEF Does
<1>3. ingest' = [ingest EXCEPT ![p] = x] /\ touched' = TRUE /\ torn' = (torn \/ Running # {})
  BY DEF BeginIngest
<1> HIDE DEF x
<1>4. IndexTyped'
  BY <1>1, <1>3 DEF IndexInv, IndexTyped
<1>5. ASSUME ~torn' PROVE Alone'
  <2>1. ~torn /\ \A q \in Ingesters : ingest[q] = NotIngesting
    BY <1>3, <1>5 DEF Running, IndexInv, IndexTyped
  <2>2. \A q \in Ingesters : ingest'[q] # NotIngesting => q = p /\ ingest'[q] = x
    BY <1>3, <2>1 DEF IndexInv, IndexTyped
  <2> QED BY <1>2, <1>3, <2>1, <2>2 DEF IndexInv, Alone
<1> QED BY <1>4, <1>5 DEF IndexInv

\* The ingestion p goes on.
LEMMA IngestionGoesOn ==
  ASSUME IndexInv, NEW p \in Ingesters, ingest[p] # NotIngesting,
         ingest' \in [Ingesters -> Ingesting \cup {NotIngesting}], docs' \in Pages,
         \A q \in Ingesters : ingest'[q] = NotIngesting <=> ingest[q] = NotIngesting,
         \A q \in Ingesters : ingest[q] # NotIngesting =>
           ingest'[q].on = ingest[q].on /\ ingest'[q].image = ingest[q].image,
         UNCHANGED <<replica, recorded, touched, torn>>,
         ~torn => Does(ingest'[p], docs') /\ Paired(docs')
  PROVE  IndexInv'
<1>1. IndexTyped'
  BY DEF IndexInv, IndexTyped
<1>2. \A r \in Replicas : Attached(r)'
  BY DEF IndexInv, Attached, At, Ingesters
<1>3. ASSUME ~torn PROVE Alone'
  <2>1. touched /\ \A q \in Ingesters : ingest'[q] # NotIngesting => q = p
    BY <1>3 DEF IndexInv, Alone
  <2> QED BY <1>3, <2>1 DEF Alone
<1> QED BY <1>1, <1>2, <1>3 DEF IndexInv

\* The same when it alone changes its variables.
LEMMA IngestionGoesTo ==
  ASSUME IndexInv, NEW p \in Ingesters, ingest[p] # NotIngesting, NEW x \in Ingesting,
         ingest' = [ingest EXCEPT ![p] = x], docs' \in Pages,
         x.on = ingest[p].on, x.image = ingest[p].image,
         UNCHANGED <<replica, recorded, touched, torn>>,
         ~torn => Does(x, docs') /\ Paired(docs')
  PROVE  IndexInv'
<1>1. x # NotIngesting
  BY DEF Ingesting, NotIngesting
<1>2. ingest'[p] = x /\ \A q \in Ingesters \ {p} : ingest'[q] = ingest[q]
  BY DEF IndexInv, IndexTyped
<1>3. ingest' \in [Ingesters -> Ingesting \cup {NotIngesting}]
  BY DEF IndexInv, IndexTyped
<1> QED BY <1>1, <1>2, <1>3, IngestionGoesOn

\* The local variables at another statement, with other documents to go.
GoneTo(x, at, todo) == [x EXCEPT !.at = at, !.todo = todo]

\* What every statement of an ingestion p starts from.
LEMMA IngestionAt ==
  ASSUME IndexInv, NEW p \in Ingesters, ingest[p] # NotIngesting
  PROVE  /\ ingest[p] \in Ingesting /\ docs \in Pages
         /\ ingest[p].image \in Images /\ ingest[p].image # 0
         /\ DocsIn[ingest[p].image] \subseteq Docs /\ DocsIn[ingest[p].image] # {}
         /\ ingest[p].todo \subseteq Docs
         /\ ingest[p].todo # {} => Doc(p) \in ingest[p].todo
         /\ ~torn => Does(ingest[p], docs) /\ Paired(docs)
  BY IngestShape, FirstDocIsOne DEF IndexInv, IndexTyped, Alone, Doc

LEMMA UpsertDocKeeps ==
  ASSUME IndexInv, NEW p \in Ingesters, UpsertDoc(p) PROVE IndexInv'
<1> DEFINE x == GoneTo(ingest[p], "clear", ingest[p].todo)
           v == ingest[p].image
           d == Doc(p)
<1>1. ingest[p] # NotIngesting /\ ingest[p].at = "upsert"
  BY DEF UpsertDoc, IngestAt
<1>2. /\ x \in Ingesting /\ x.at = "clear" /\ x.todo = ingest[p].todo
      /\ x.on = ingest[p].on /\ x.image = v
  BY <1>1, IngestionAt DEF GoneTo, Ingesting
<1>3. ingest' = [ingest EXCEPT ![p] = x]
  BY <1>1, IngestionAt DEF UpsertDoc, Goes, GoneTo, Ingesting
<1>4. docs' = [docs EXCEPT ![d].text = v]
  BY DEF UpsertDoc
<1>5. docs' \in Pages
  BY <1>1, <1>4, IngestionAt DEF Pages
<1>6. ASSUME ~torn PROVE Does(x, docs') /\ Paired(docs')
  <2>1. /\ ingest[p].todo # {} /\ d \in ingest[p].todo /\ d \in Docs
        /\ ingest[p].todo \subseteq DocsIn[v] /\ v # 0
        /\ \A e \in DocsIn[v] \ ingest[p].todo : e \in Docs /\ docs[e] = Indexed(v)
    BY <1>1, <1>6, IngestionAt DEF Does
  <2>2. docs'[d].text = v /\ \A e \in Docs \ {d} : docs'[e] = docs[e]
    BY <1>1, <1>4, <2>1, IngestionAt DEF Pages
  <2>3. Paired(docs')
    BY <1>1, <1>6, <2>1, <2>2, IngestionAt DEF Paired
  <2>4. FirstDoc(x.todo) = d
    BY <1>2 DEF Doc
  <2> HIDE DEF x, d
  <2> QED BY <1>2, <2>1, <2>2, <2>3, <2>4 DEF Does
<1> HIDE DEF x
<1> QED BY <1>1, <1>2, <1>3, <1>5, <1>6, IngestionGoesTo DEF UpsertDoc, RestOfIngest

LEMMA ClearChunksKeeps ==
  ASSUME IndexInv, NEW p \in Ingesters, ClearChunks(p) PROVE IndexInv'
<1> DEFINE x == GoneTo(ingest[p], "insert", ingest[p].todo)
           v == ingest[p].image
           d == Doc(p)
<1>1. ingest[p] # NotIngesting /\ ingest[p].at = "clear"
  BY DEF ClearChunks, IngestAt
<1>2. /\ x \in Ingesting /\ x.at = "insert" /\ x.todo = ingest[p].todo
      /\ x.on = ingest[p].on /\ x.image = v
  BY <1>1, IngestionAt DEF GoneTo, Ingesting
<1>3. ingest' = [ingest EXCEPT ![p] = x]
  BY <1>1, IngestionAt DEF ClearChunks, Goes, GoneTo, Ingesting
<1>4. docs' = [docs EXCEPT ![d].chunks = 0]
  BY DEF ClearChunks
<1>5. docs' \in Pages
  BY <1>1, <1>4, IngestionAt DEF Pages
<1>6. ASSUME ~torn PROVE Does(x, docs') /\ Paired(docs')
  <2>1. /\ ingest[p].todo # {} /\ d \in ingest[p].todo /\ d \in Docs
        /\ ingest[p].todo \subseteq DocsIn[v] /\ v # 0
        /\ docs[d].text = v
        /\ \A e \in DocsIn[v] \ ingest[p].todo : e \in Docs /\ docs[e] = Indexed(v)
    BY <1>1, <1>6, IngestionAt DEF Does, Doc
  <2>2. docs'[d].text = v /\ docs'[d].chunks = 0 /\ \A e \in Docs \ {d} : docs'[e] = docs[e]
    BY <1>1, <1>4, <2>1, IngestionAt DEF Pages
  <2>3. Paired(docs')
    BY <1>1, <1>6, <2>1, <2>2, IngestionAt DEF Paired
  <2>4. FirstDoc(x.todo) = d
    BY <1>2 DEF Doc
  <2> HIDE DEF x, d
  <2> QED BY <1>2, <2>1, <2>2, <2>3, <2>4 DEF Does
<1> HIDE DEF x
<1> QED BY <1>1, <1>2, <1>3, <1>5, <1>6, IngestionGoesTo DEF ClearChunks, RestOfIngest

\* A statement that ends the ingestion with an error.
LEMMA FailingKeeps ==
  ASSUME IndexInv, NEW p \in Ingesters, ingest[p] # NotIngesting, Goes(p, "failed"),
         UNCHANGED <<docs, replica, recorded, touched, torn>>
  PROVE  IndexInv'
<1> DEFINE x == GoneTo(ingest[p], "failed", ingest[p].todo)
<1>1. /\ x \in Ingesting /\ x.at = "failed"
      /\ x.on = ingest[p].on /\ x.image = ingest[p].image
  BY IngestionAt DEF GoneTo, Ingesting
<1>2. ingest' = [ingest EXCEPT ![p] = x]
  BY IngestionAt DEF Goes, GoneTo, Ingesting
<1> HIDE DEF x
<1>3. ~torn => Does(x, docs') /\ Paired(docs')
  BY <1>1, IngestionAt DEF Does
<1> QED BY <1>1, <1>2, <1>3, IngestionAt, IngestionGoesTo

LEMMA InsertChunksKeeps ==
  ASSUME IndexInv, NEW p \in Ingesters, InsertChunks(p) PROVE IndexInv'
<1> DEFINE todo == ingest[p].todo \ {Doc(p)}
           at == IF todo = {} THEN "list" ELSE "upsert"
           x == GoneTo(ingest[p], at, todo)
           v == ingest[p].image
           d == Doc(p)
<1>1. ingest[p] # NotIngesting /\ ingest[p].at \in {"insert", "orphan"}
  BY DEF InsertChunks, IngestAt
<1>2. CASE Goes(p, "failed") /\ UNCHANGED docs
  BY <1>1, <1>2, FailingKeeps DEF InsertChunks, RestOfIngest
<1>3. ASSUME ingest[p].at # "orphan", docs[d].chunks = 0,
             docs' = [docs EXCEPT ![d].chunks = v],
             ingest' = [ingest EXCEPT ![p].todo = todo, ![p].at = at]
      PROVE  IndexInv'
  <2>1. todo \subseteq Docs /\ at \in {"list", "upsert"}
    BY <1>1, IngestionAt
  <2>2. /\ x \in Ingesting /\ x.at = at /\ x.todo = todo
        /\ x.on = ingest[p].on /\ x.image = v
    BY <1>1, <2>1, IngestionAt DEF GoneTo, Ingesting
  <2>3. ingest' = [ingest EXCEPT ![p] = x]
    <3>1. ingest' = [ingest EXCEPT ![p] = [[ingest[p] EXCEPT !.todo = todo] EXCEPT !.at = at]]
      BY <1>3 DEF IndexInv, IndexTyped
    <3>2. [[ingest[p] EXCEPT !.todo = todo] EXCEPT !.at = at] = x
      BY <1>1, IngestionAt DEF Ingesting, GoneTo
    <3> QED BY <3>1, <3>2
  <2>4. docs' \in Pages
    BY <1>1, <1>3, IngestionAt DEF Pages
  <2>5. ASSUME ~torn PROVE Does(x, docs') /\ Paired(docs')
    <3>1. /\ d \in ingest[p].todo /\ d \in Docs
          /\ ingest[p].todo \subseteq DocsIn[v] /\ v # 0 /\ DocsIn[v] \subseteq Docs
          /\ docs[d].text = v
          /\ \A e \in DocsIn[v] \ ingest[p].todo : docs[e] = Indexed(v)
      BY <1>1, <1>3, <2>5, IngestionAt DEF Does, Doc
    <3>2. docs'[d] = Indexed(v) /\ \A e \in Docs \ {d} : docs'[e] = docs[e]
      BY <1>1, <1>3, <3>1, IngestionAt DEF Pages, Indexed
    <3>3. Paired(docs')
      BY <1>1, <2>5, <3>1, <3>2, IngestionAt DEF Paired, Indexed
    <3>4. \A e \in DocsIn[v] \ todo : docs'[e] = Indexed(v)
      BY <3>1, <3>2
    <3>5. todo \subseteq DocsIn[v] /\ (todo = {} => at = "list") /\ (todo # {} => at = "upsert")
      BY <3>1
    <3> HIDE DEF x, d, todo, at
    <3> QED BY <2>1, <2>2, <3>3, <3>4, <3>5 DEF Does
  <2> HIDE DEF x
  <2> QED BY <1>1, <2>2, <2>3, <2>4, <2>5, IngestionGoesTo DEF InsertChunks, RestOfIngest
<1>4. /\ docs[d].chunks # 0 => Goes(p, "failed") /\ UNCHANGED docs
      /\ ingest[p].at = "orphan" => Goes(p, "failed") /\ UNCHANGED docs
  BY DEF InsertChunks
<1> QED BY <1>2, <1>3, <1>4 DEF InsertChunks

LEMMA ListStaleKeeps ==
  ASSUME IndexInv, NEW p \in Ingesters, ListStale(p) PROVE IndexInv'
<1> DEFINE v == ingest[p].image
           todo == {e \in Docs \ DocsIn[v] : docs[e].text # 0}
           x == GoneTo(ingest[p], "prune", todo)
<1>1. ingest[p] # NotIngesting /\ ingest[p].at = "list"
  BY DEF ListStale, IngestAt
<1>2. /\ x \in Ingesting /\ x.at = "prune" /\ x.todo = todo
      /\ x.on = ingest[p].on /\ x.image = v
  BY <1>1, IngestionAt DEF GoneTo, Ingesting
<1>3. ingest' = [ingest EXCEPT ![p] = x]
  <2>1. ingest' = [ingest EXCEPT ![p] = [[ingest[p] EXCEPT !.at = "prune"] EXCEPT !.todo = todo]]
    BY DEF ListStale, IndexInv, IndexTyped
  <2>2. [[ingest[p] EXCEPT !.at = "prune"] EXCEPT !.todo = todo] = x
    BY <1>1, IngestionAt DEF Ingesting, GoneTo
  <2> QED BY <2>1, <2>2
<1>4. UNCHANGED docs
  BY DEF ListStale
<1>5. ASSUME ~torn PROVE Does(x, docs) /\ Paired(docs)
  <2>1. \A e \in DocsIn[v] : docs[e] = Indexed(v)
    BY <1>1, <1>5, IngestionAt DEF Does
  <2>2. \A e \in (Docs \ DocsIn[v]) \ todo : docs[e] = NoDoc
    <3> SUFFICES ASSUME NEW e \in Docs, docs[e].text = 0 PROVE docs[e] = NoDoc
      OBVIOUS
    <3> QED BY <1>1, <1>5, IngestionAt DEF Paired, Pages, NoDoc
  <2>3. Paired(docs)
    BY <1>1, <1>5, IngestionAt
  <2>4. todo \subseteq Docs \ DocsIn[v]
    OBVIOUS
  <2> HIDE DEF x, todo
  <2> QED BY <1>2, <2>1, <2>2, <2>3, <2>4 DEF Does
<1> HIDE DEF x
<1> QED BY <1>1, <1>2, <1>3, <1>4, <1>5, IngestionAt, IngestionGoesTo DEF ListStale, RestOfIngest

LEMMA DeleteStaleKeeps ==
  ASSUME IndexInv, NEW p \in Ingesters, DeleteStale(p) PROVE IndexInv'
<1> DEFINE v == ingest[p].image
           d == Doc(p)
<1>1. ingest[p] # NotIngesting /\ ingest[p].at = "prune"
  BY DEF DeleteStale, IngestAt
<1>2. ~torn => /\ Paired(docs)
               /\ \A e \in DocsIn[v] : docs[e] = Indexed(v)
               /\ ingest[p].todo \subseteq Docs \ DocsIn[v]
               /\ \A e \in (Docs \ DocsIn[v]) \ ingest[p].todo : docs[e] = NoDoc
  BY <1>1, IngestionAt DEF Does
<1>3. ASSUME ingest[p].todo = {}, Goes(p, "done"), UNCHANGED docs PROVE IndexInv'
  <2> DEFINE x == GoneTo(ingest[p], "done", ingest[p].todo)
  <2>1. /\ x \in Ingesting /\ x.at = "done" /\ x.on = ingest[p].on /\ x.image = v
    BY <1>1, IngestionAt DEF GoneTo, Ingesting
  <2>2. ingest' = [ingest EXCEPT ![p] = x]
    BY <1>1, <1>3, IngestionAt DEF Goes, GoneTo, Ingesting
  <2>3. ASSUME ~torn PROVE docs = Corpus(v)
    <3>1. \A e \in Docs : docs[e] = IF e \in DocsIn[v] THEN [text |-> v, chunks |-> v] ELSE NoDoc
      BY <1>2, <1>3, <2>3 DEF Indexed
    <3> QED BY <1>1, <3>1, IngestionAt DEF Corpus, Pages
  <2> HIDE DEF x
  <2>4. ~torn => Does(x, docs') /\ Paired(docs')
    BY <1>2, <1>3, <2>1, <2>3 DEF Does
  <2> QED BY <1>1, <1>3, <2>1, <2>2, <2>4, IngestionAt, IngestionGoesTo
          DEF DeleteStale, RestOfIngest
<1>4. ASSUME ingest[p].todo # {}, docs' = [docs EXCEPT ![d] = NoDoc],
             ingest' = [q \in DOMAIN ingest |->
               IF q = p THEN [ingest[p] EXCEPT !.todo = @ \ {d}]
               ELSE IF q \in Storing(p, d) THEN [ingest[q] EXCEPT !.at = "orphan"]
               ELSE ingest[q]]
      PROVE  IndexInv'
  <2> DEFINE x == GoneTo(ingest[p], "prune", ingest[p].todo \ {d})
             o(q) == GoneTo(ingest[q], "orphan", ingest[q].todo)
  <2>1. /\ x \in Ingesting /\ x.at = "prune" /\ x.todo = ingest[p].todo \ {d}
        /\ x.on = ingest[p].on /\ x.image = v
    BY <1>1, IngestionAt DEF GoneTo, Ingesting
  <2>2. \A q \in Ingesters : ingest[q] # NotIngesting =>
          /\ o(q) \in Ingesting /\ o(q).on = ingest[q].on /\ o(q).image = ingest[q].image
          /\ [ingest[q] EXCEPT !.at = "orphan"] = o(q)
    BY IngestionAt DEF GoneTo, Ingesting
  <2>3. [ingest[p] EXCEPT !.todo = @ \ {d}] = x
    BY <1>1, IngestionAt DEF Ingesting, GoneTo
  <2>4. \A z \in Ingesting : z # NotIngesting
    BY DEF Ingesting, NotIngesting
  <2> HIDE DEF x, o, d
  <2>5. \A q \in Ingesters : q # p =>
          \/ ingest'[q] = ingest[q]
          \/ ingest[q] # NotIngesting /\ ingest'[q] = o(q)
    BY <1>4, <2>2 DEF Storing, Running, IndexInv, IndexTyped
  <2>6. ingest'[p] = x
    BY <1>4, <2>3 DEF IndexInv, IndexTyped
  <2>7. \A q \in Ingesters :
          /\ ingest'[q] \in Ingesting \cup {NotIngesting}
          /\ ingest'[q] = NotIngesting <=> ingest[q] = NotIngesting
          /\ ingest[q] # NotIngesting =>
               ingest'[q].on = ingest[q].on /\ ingest'[q].image = ingest[q].image
    BY <1>1, <2>1, <2>2, <2>4, <2>5, <2>6 DEF IndexInv, IndexTyped
  <2>8. ingest' \in [Ingesters -> Ingesting \cup {NotIngesting}]
    BY <1>4, <2>7 DEF IndexInv, IndexTyped
  <2>9. docs' \in Pages
    BY <1>1, <1>4, IngestionAt DEF Pages, NoDoc
  <2>10. ASSUME ~torn PROVE Does(x, docs') /\ Paired(docs')
    <3>1. d \in ingest[p].todo /\ d \in Docs \ DocsIn[v]
      BY <1>1, <1>2, <1>4, <2>10, IngestionAt DEF d
    <3>2. docs'[d] = NoDoc /\ \A e \in Docs \ {d} : docs'[e] = docs[e]
      BY <1>1, <1>4, <3>1, IngestionAt DEF Pages
    <3>3. Paired(docs')
      BY <1>2, <2>10, <3>2 DEF Paired, NoDoc
    <3>4. /\ \A e \in DocsIn[v] : docs'[e] = Indexed(v)
          /\ \A e \in (Docs \ DocsIn[v]) \ x.todo : docs'[e] = NoDoc
          /\ x.todo \subseteq Docs \ DocsIn[v]
      BY <1>1, <1>2, <2>1, <2>10, <3>1, <3>2, IngestionAt
    <3> QED BY <2>1, <3>3, <3>4 DEF Does
  <2> QED BY <1>1, <2>6, <2>7, <2>8, <2>9, <2>10, IngestionGoesOn DEF DeleteStale, RestOfIngest
<1> QED BY <1>3, <1>4 DEF DeleteStale

LEMMA ReadStateKeeps ==
  ASSUME IndexInv, BootInv, NEW r \in Replicas, ReadState(r) PROVE IndexInv'
<1> DEFINE v == replica[r].image
           y(at) == [at |-> at, image |-> v, ok |-> replica[r].ok]
<1>1. At(r) = "readState" /\ UNCHANGED <<docs, recorded>>
  BY DEF ReadState, database
<1>2. v \in Images
  BY <1>1 DEF BootInv, Replica, At, Down
<1>3. ASSUME Step(r, "unlockDocs"), UNCHANGED <<ingest, touched, torn>> PROVE IndexInv'
  <2>1. replica' = [replica EXCEPT ![r] = y("unlockDocs")] /\ y("unlockDocs").at # "ingest"
    BY <1>3 DEF Step
  <2> HIDE DEF y
  <2> QED BY <1>1, <1>3, <2>1, Elsewhere
<1>4. ASSUME Step(r, "ingest"), BeginIngest(r, r, v) PROVE IndexInv'
  <2>1. \A q \in Replicas : Attached(q)'
    <3>1. /\ replica'[r] = y("ingest") /\ y("ingest").image = v
          /\ \A q \in Replicas \ {r} : replica'[q] = replica[q]
      BY <1>4 DEF Step, BootInv
    <3>2. /\ ingest'[r] = [at |-> "upsert", on |-> r, image |-> v, todo |-> DocsIn[v]]
          /\ \A q \in Replicas \ {r} : ingest'[q] = ingest[q]
      BY <1>4 DEF BeginIngest, IndexInv, IndexTyped, Ingesters
    <3>3. ingest'[r] # NotIngesting /\ ingest'[r].on = r /\ ingest'[r].image = v
      BY <3>2 DEF NotIngesting
    <3> HIDE DEF y
    <3> QED BY <3>1, <3>2, <3>3 DEF IndexInv, Attached, At
  <2> QED BY <1>1, <1>2, <1>4, <2>1, IngestionBegins DEF Ingesters
<1> QED BY <1>3, <1>4 DEF ReadState

LEMMA ReindexKeeps ==
  ASSUME IndexInv, BootInv, NEW q \in Reindexes, Reindex(q) PROVE IndexInv'
<1>1. PICK r \in Replicas : At(r) = "up" /\ BeginIngest(q, r, replica[r].image)
  BY DEF Reindex
<1>2. replica[r].image \in Images
  BY <1>1 DEF BootInv, Replica, At, Down
<1>3. UNCHANGED <<docs, recorded, replica>>
  BY DEF Reindex, database
<1>4. \A s \in Replicas : ingest'[s] = ingest[s]
  BY <1>1, StartupAssumption DEF BeginIngest, IndexInv, IndexTyped, Ingesters
<1>5. \A s \in Replicas : Attached(s)'
  BY <1>3, <1>4 DEF IndexInv, Attached, At
<1> QED BY <1>1, <1>2, <1>3, <1>5, IngestionBegins DEF Ingesters

LEMMA RecordKeeps ==
  ASSUME IndexInv, BootInv, NEW r \in Replicas, Record(r) PROVE IndexInv'
<1>1. /\ At(r) = "ingest" /\ UNCHANGED <<docs, torn>>
      /\ ingest' = [ingest EXCEPT ![r] = NotIngesting]
      /\ replica' = [replica EXCEPT ![r].at = "unlockDocs", ![r].ok = ingest[r].at = "done"]
  BY DEF Record
<1>2. ingest[r] # NotIngesting /\ ingest[r].image = replica[r].image /\ r \in Ingesters
  BY <1>1 DEF IndexInv, Attached, Ingesters
<1>3. /\ ingest'[r] = NotIngesting /\ \A q \in Ingesters \ {r} : ingest'[q] = ingest[q]
      /\ ingest' \in [Ingesters -> Ingesting \cup {NotIngesting}]
  BY <1>1, <1>2 DEF IndexInv, IndexTyped
<1>4. \A q \in Replicas : Attached(q)'
  <2>1. replica[r] \in Replica /\ replica[r].at = "ingest"
    BY <1>1 DEF BootInv, At
  <2>2. replica'[r].at = "unlockDocs" /\ \A q \in Replicas \ {r} : replica'[q] = replica[q]
    BY <1>1, <2>1 DEF BootInv, Replica, Down
  <2> QED BY <1>3, <2>2 DEF IndexInv, Attached, At, Ingesters
<1>5. \/ UNCHANGED <<recorded, touched>>
      \/ /\ recorded' \in Images /\ touched' = FALSE
         /\ ~torn => docs = Corpus(recorded') /\ \A p \in Ingesters : ingest'[p] = NotIngesting
  <2>1. CASE ingest[r].at = "done"
    <3>1. recorded' = ingest[r].image /\ touched' = FALSE /\ ingest[r].image \in Images
      BY <1>2, <2>1, IngestionAt DEF Record
    <3>2. ~torn => docs = Corpus(recorded')
      BY <1>2, <2>1, <3>1, IngestionAt DEF Does
    <3>3. ~torn => \A p \in Ingesters : ingest'[p] = NotIngesting
      BY <1>2, <1>3 DEF IndexInv, Alone
    <3> QED BY <3>1, <3>2, <3>3
  <2>2. CASE ingest[r].at # "done"
    BY <2>2 DEF Record
  <2> QED BY <2>1, <2>2
<1> QED BY <1>1, <1>3, <1>4, <1>5, IngestionsEnd

LEMMA AnsweredKeeps ==
  ASSUME IndexInv, NEW q \in Reindexes, Answered(q) PROVE IndexInv'
<1>1. /\ ingest' = [ingest EXCEPT ![q] = NotIngesting]
      /\ UNCHANGED <<docs, recorded, replica, touched, torn>>
  BY DEF Answered, database
<1>2. /\ ingest' \in [Ingesters -> Ingesting \cup {NotIngesting}]
      /\ \A p \in Ingesters : ingest'[p] \in {ingest[p], NotIngesting}
      /\ \A r \in Replicas : ingest'[r] = ingest[r]
  BY <1>1, StartupAssumption DEF IndexInv, IndexTyped, Ingesters
<1>3. \A r \in Replicas : Attached(r)'
  BY <1>1, <1>2 DEF IndexInv, Attached, At
<1> QED BY <1>1, <1>2, <1>3, IngestionsEnd

LEMMA DieKeeps ==
  ASSUME IndexInv, BootInv, NEW r \in Replicas, Die(r) PROVE IndexInv'
<1>1. /\ replica' = [replica EXCEPT ![r] = Down]
      /\ ingest' = [p \in DOMAIN ingest |->
           IF p \in Running /\ ingest[p].on = r THEN NotIngesting ELSE ingest[p]]
      /\ UNCHANGED <<docs, recorded, touched, torn>>
  BY DEF Die
<1>2. /\ \A p \in Ingesters : ingest'[p] \in {ingest[p], NotIngesting}
      /\ \A p \in Ingesters : ingest[p].on # r => ingest'[p] = ingest[p]
      /\ ingest' \in [Ingesters -> Ingesting \cup {NotIngesting}]
  BY <1>1 DEF IndexInv, IndexTyped
<1>3. /\ replica'[r].at = "down" /\ \A q \in Replicas \ {r} : replica'[q] = replica[q]
  BY <1>1 DEF BootInv, Down
<1>4. \A q \in Replicas : Attached(q)'
  BY <1>2, <1>3 DEF IndexInv, Attached, At, Ingesters
<1> QED BY <1>1, <1>2, <1>4, IngestionsEnd

\* Steps of a start-up that leave the index and the ingestions alone.
LEMMA OtherStepsKeep ==
  ASSUME IndexInv, BootInv, NEW r \in Replicas,
         \/ StartContainer(r) \/ LockSchema(r) \/ ReadSchema(r) \/ Migrate(r)
         \/ MigrateFails(r) \/ UnlockSchema(r) \/ LockDocs(r) \/ UnlockDocs(r)
  PROVE  IndexInv'
<1>1. UNCHANGED <<docs, recorded, ingest, touched, torn>>
  BY DEF StartContainer, LockSchema, ReadSchema, Migrate, MigrateFails, UnlockSchema, LockDocs,
     UnlockDocs, database
<1>2. /\ replica'[r].at # "ingest"
      /\ replica' = [replica EXCEPT ![r] = replica'[r]]
  BY DEF StartContainer, LockSchema, ReadSchema, Migrate, MigrateFails, UnlockSchema, LockDocs,
     UnlockDocs, Step, Down, BootInv
<1> QED BY <1>1, <1>2, Elsewhere

LEMMA IndexInvStep ==
  IndexInv /\ BootInv /\ [StartupNext]_startupVars => IndexInv'
<1> SUFFICES ASSUME IndexInv, BootInv, [StartupNext]_startupVars PROVE IndexInv'
  OBVIOUS
<1>1. ASSUME UNCHANGED startupVars PROVE IndexInv'
  BY <1>1 DEF startupVars, database, IndexInv, IndexTyped, Attached, At, Alone
<1>2. ASSUME NEW p \in Ingesters, Ingest(p) PROVE IndexInv'
  BY <1>2, UpsertDocKeeps, ClearChunksKeeps, InsertChunksKeeps, ListStaleKeeps, DeleteStaleKeeps
     DEF Ingest
<1>3. ASSUME NEW p \in Ingesters, IngestFails(p) PROVE IndexInv'
  BY <1>3, FailingKeeps DEF IngestFails, RestOfIngest
<1>4. ASSUME NEW r \in Replicas,
             Boot(r) \/ StartContainer(r) \/ MigrateFails(r) \/ IngestFails(r) \/ Die(r)
      PROVE  IndexInv'
  BY <1>2, <1>3, <1>4, OtherStepsKeep, ReadStateKeeps, RecordKeeps, DieKeeps DEF Boot, Ingesters
<1>5. ASSUME NEW q \in Reindexes, Reindex(q) \/ Ingest(q) \/ IngestFails(q) \/ Answered(q)
      PROVE  IndexInv'
  BY <1>2, <1>3, <1>5, ReindexKeeps, AnsweredKeeps DEF Ingesters
<1> QED BY <1>1, <1>4, <1>5 DEF StartupNext

\* The image recorded is the one indexed, whichever statement of an ingestion is refused
\* or is its process's last, as long as nobody asks for a reindex beside it.
THEOREM RecordedStaysIndexed == StartupSpec => []RecordedIsIndexed
<1>1. IndexInv => RecordedIsIndexed
  BY DEF IndexInv, Alone, RecordedIsIndexed
<1> QED BY <1>1, BootInvInit, BootInvStep, IndexInvInit, IndexInvStep, PTL DEF StartupSpec

-----------------------------------------------------------------------------
(* Ingestions that overlap *)

\* What an ingestion at x may count on beside any others.
Backed(x, ds) ==
  /\ x.at \in {"upsert", "clear", "insert"} => x.todo # {}
  /\ x.at \in {"clear", "insert"} => ds[FirstDoc(x.todo)].text # 0

\* Where an ingestion runs.
HostInv ==
  /\ \A r \in Replicas : ingest[r] # NotIngesting => ingest[r].on = r /\ At(r) = "ingest"
  /\ \A q \in Reindexes : ingest[q] # NotIngesting => At(ingest[q].on) = "up"

BackedInv ==
  /\ \A p \in Ingesters : ingest[p] # NotIngesting => Backed(ingest[p], docs)
  /\ Paired(docs)

LEMMA OverlapInit == StartupInit => HostInv /\ BackedInv
BY DEF StartupInit, HostInv, BackedInv, Ingesters, Paired, NoDoc

\* Ingestions go on or end where they are.
LEMMA HostsStay ==
  ASSUME HostInv, UNCHANGED replica,
         \A p \in Ingesters : ingest'[p] # NotIngesting =>
           ingest[p] # NotIngesting /\ ingest'[p].on = ingest[p].on
  PROVE  HostInv'
BY DEF HostInv, Ingesters, At

\* The documents stay, and so does what the ingestions count on.
LEMMA BackedStays ==
  ASSUME BackedInv, UNCHANGED docs,
         \A p \in Ingesters : \/ ingest'[p] \in {NotIngesting, ingest[p]}
                              \/ Backed(ingest'[p], docs)
  PROVE  BackedInv'
BY DEF BackedInv

\* A replica gets from one step of its start-up to another, where no request runs.
LEMMA HostsMove ==
  ASSUME IndexInv, HostInv, BackedInv, NEW r \in Replicas, At(r) \notin {"up", "ingest"},
         \A s \in Replicas \ {r} : replica'[s] = replica[s], UNCHANGED <<ingest, docs>>
  PROVE  HostInv' /\ BackedInv'
<1>1. \A q \in Reindexes : ingest[q] # NotIngesting => ingest[q].on \in Replicas \ {r}
  BY IngestShape DEF HostInv, IndexInv, Ingesters, Ingesting
<1>2. HostInv'
  BY <1>1 DEF HostInv, At
<1> QED BY <1>2, BackedStays

\* An ingestion begins, of a replica that waits for it or of a request to one that serves.
LEMMA BeginsBacked ==
  ASSUME IndexInv, BackedInv, NEW p \in Ingesters, NEW on, NEW v \in Images,
         BeginIngest(p, on, v), UNCHANGED docs
  PROVE  BackedInv' /\ ingest'[p].on = on /\ \A q \in Ingesters \ {p} : ingest'[q] = ingest[q]
<1> DEFINE x == [at |-> "upsert", on |-> on, image |-> v, todo |-> DocsIn[v]]
<1>1. ingest'[p] = x /\ \A q \in Ingesters \ {p} : ingest'[q] = ingest[q]
  BY DEF BeginIngest, IndexInv, IndexTyped
<1>2. Backed(x, docs)
  BY StartupAssumption DEF Backed
<1> QED BY <1>1, <1>2, BackedStays

\* The statements of an ingestion leave every ingestion where it runs.
LEMMA IngestStays ==
  ASSUME IndexInv, HostInv, NEW p \in Ingesters, Ingest(p) \/ IngestFails(p)
  PROVE  HostInv'
<1>1. ingest[p] # NotIngesting /\ UNCHANGED replica
  BY DEF Ingest, UpsertDoc, ClearChunks, InsertChunks, ListStale, DeleteStale, IngestFails,
         IngestAt, RestOfIngest
<1>2. ingest[p] \in Ingesting /\ DOMAIN ingest = Ingesters
  BY <1>1, IngestShape DEF IndexInv, IndexTyped
<1>3. CASE UpsertDoc(p) \/ ClearChunks(p) \/ InsertChunks(p) \/ ListStale(p) \/ IngestFails(p)
  <2>1. /\ ingest'[p].on = ingest[p].on
        /\ \A q \in Ingesters \ {p} : ingest'[q] = ingest[q]
    BY <1>2, <1>3 DEF UpsertDoc, ClearChunks, InsertChunks, ListStale, IngestFails, Goes,
                      Ingesting
  <2> QED BY <1>1, <2>1, HostsStay
<1>4. CASE DeleteStale(p)
  <2>1. \A q \in Ingesters : ingest'[q] # NotIngesting =>
          ingest[q] # NotIngesting /\ ingest'[q].on = ingest[q].on
    <3>1. CASE Goes(p, "done")
      BY <1>1, <1>2, <3>1 DEF Goes, Ingesting
    <3>2. CASE ~Goes(p, "done")
      <4> SUFFICES ASSUME NEW q \in Ingesters, ingest'[q] # ingest[q], ingest'[q] # NotIngesting
                   PROVE  ingest[q] # NotIngesting /\ ingest'[q].on = ingest[q].on
        OBVIOUS
      <4>1. \/ q = p /\ ingest'[q] = [ingest[p] EXCEPT !.todo = @ \ {Doc(p)}]
            \/ q \in Storing(p, Doc(p)) /\ ingest'[q] = [ingest[q] EXCEPT !.at = "orphan"]
        BY <1>2, <1>4, <3>2 DEF DeleteStale
      <4>2. ingest[q] # NotIngesting
        BY <1>1, <4>1 DEF Storing, Running
      <4>3. ingest[q] \in Ingesting
        BY <4>2, IngestShape DEF IndexInv
      <4> QED BY <4>1, <4>2, <4>3 DEF Ingesting
    <3> QED BY <3>1, <3>2
  <2> QED BY <1>1, <2>1, HostsStay
<1> QED BY <1>3, <1>4 DEF Ingest

\* An ingestion stores the text or the chunks of one document.
LEMMA StoresBacked ==
  ASSUME IndexInv, BackedInv, NEW p \in Ingesters, ingest[p] # NotIngesting,
         NEW x, ingest' = [ingest EXCEPT ![p] = x], Backed(x, docs'), docs' \in Pages,
         NEW d \in Docs, docs'[d].text # 0 \/ docs'[d] = docs[d],
         \A e \in Docs \ {d} : docs'[e] = docs[e]
  PROVE  BackedInv'
<1>1. ingest'[p] = x /\ \A q \in Ingesters \ {p} : ingest'[q] = ingest[q]
  BY DEF IndexInv, IndexTyped
<1>2. Paired(docs')
  BY DEF BackedInv, Paired
<1>3. ASSUME NEW q \in Ingesters \ {p}, ingest[q] # NotIngesting PROVE Backed(ingest[q], docs')
  <2>1. Backed(ingest[q], docs)
    BY <1>3 DEF BackedInv
  <2>2. ingest[q].todo # {} => FirstDoc(ingest[q].todo) \in Docs
    BY <1>3, IngestShape, FirstDocIsOne DEF IndexInv
  <2> QED BY <2>1, <2>2 DEF Backed
<1> QED BY <1>1, <1>2, <1>3 DEF BackedInv

LEMMA StatementsBacked ==
  ASSUME IndexInv, BackedInv, NEW p \in Ingesters,
         UpsertDoc(p) \/ ClearChunks(p) \/ InsertChunks(p)
  PROVE  BackedInv'
<1> DEFINE v == ingest[p].image
           d == Doc(p)
           todo == ingest[p].todo
           rest == todo \ {d}
<1>1. ingest[p] # NotIngesting /\ ingest[p].at \in {"upsert", "clear", "insert", "orphan"}
  BY DEF UpsertDoc, ClearChunks, InsertChunks, IngestAt
<1>2. Backed(ingest[p], docs)
  BY <1>1 DEF BackedInv
<1>3. /\ ingest[p] \in Ingesting /\ docs \in Pages /\ v \in Images /\ v # 0
      /\ todo \subseteq Docs /\ (todo # {} => d \in todo)
  BY <1>1, IngestionAt
<1>4. CASE UpsertDoc(p)
  <2> DEFINE x == GoneTo(ingest[p], "clear", todo)
  <2>1. d \in Docs
    BY <1>2, <1>3, <1>4 DEF Backed, UpsertDoc, IngestAt
  <2>2. ingest' = [ingest EXCEPT ![p] = x] /\ x.todo = todo /\ x.at = "clear"
    BY <1>3, <1>4 DEF UpsertDoc, Goes, GoneTo, Ingesting
  <2>3. docs' \in Pages /\ docs'[d].text = v /\ \A e \in Docs \ {d} : docs'[e] = docs[e]
    BY <1>3, <1>4, <2>1 DEF UpsertDoc, Pages
  <2>4. Backed(x, docs')
    BY <1>2, <1>3, <1>4, <2>2, <2>3 DEF Backed, Doc, UpsertDoc, IngestAt
  <2> HIDE DEF x, d
  <2> QED BY <1>1, <1>3, <2>1, <2>2, <2>3, <2>4, StoresBacked
<1>5. CASE ClearChunks(p)
  <2> DEFINE x == GoneTo(ingest[p], "insert", todo)
  <2>1. d \in Docs /\ todo # {} /\ docs[d].text # 0
    BY <1>2, <1>3, <1>5 DEF Backed, ClearChunks, IngestAt, Doc
  <2>2. ingest' = [ingest EXCEPT ![p] = x] /\ x.todo = todo /\ x.at = "insert"
    BY <1>3, <1>5 DEF ClearChunks, Goes, GoneTo, Ingesting
  <2>3. /\ docs' \in Pages /\ docs'[d].text # 0
        /\ \A e \in Docs \ {d} : docs'[e] = docs[e]
    BY <1>3, <1>5, <2>1 DEF ClearChunks, Pages
  <2>4. Backed(x, docs')
    BY <2>1, <2>2, <2>3 DEF Backed, Doc
  <2> HIDE DEF x, d
  <2> QED BY <1>1, <1>3, <2>1, <2>2, <2>3, <2>4, StoresBacked
<1>6. CASE InsertChunks(p)
  <2>1. CASE Goes(p, "failed") /\ UNCHANGED docs
    <3>1. ingest'[p].at = "failed" /\ \A q \in Ingesters \ {p} : ingest'[q] = ingest[q]
      BY <1>3, <2>1 DEF Goes, Ingesting, IndexInv, IndexTyped
    <3> QED BY <2>1, <3>1, BackedStays DEF Backed
  <2>2. CASE ~(Goes(p, "failed") /\ UNCHANGED docs)
    <3> DEFINE at == IF rest = {} THEN "list" ELSE "upsert"
               x == GoneTo(ingest[p], at, rest)
    <3>1. /\ ingest[p].at = "insert" /\ docs' = [docs EXCEPT ![d].chunks = v]
          /\ ingest' = [ingest EXCEPT ![p].todo = rest, ![p].at = at]
      BY <1>6, <2>2 DEF InsertChunks, IngestAt
    <3>2. ingest' = [ingest EXCEPT ![p] = x] /\ x.at = at /\ x.todo = rest
      <4>1. ingest' = [ingest EXCEPT ![p] = [[ingest[p] EXCEPT !.todo = rest] EXCEPT !.at = at]]
        BY <3>1 DEF IndexInv, IndexTyped
      <4>2. [[ingest[p] EXCEPT !.todo = rest] EXCEPT !.at = at] = x /\ x.at = at /\ x.todo = rest
        BY <1>3 DEF Ingesting, GoneTo
      <4> QED BY <4>1, <4>2
    <3>3. d \in Docs /\ docs[d].text # 0
      BY <1>2, <1>3, <3>1 DEF Backed, Doc
    <3>4. /\ docs' \in Pages /\ docs'[d].text # 0
          /\ \A e \in Docs \ {d} : docs'[e] = docs[e]
      BY <1>3, <3>1, <3>3 DEF Pages
    <3>5. Backed(x, docs')
      BY <3>2 DEF Backed
    <3> HIDE DEF x, d
    <3> QED BY <1>1, <1>3, <3>2, <3>3, <3>4, <3>5, StoresBacked
  <2> QED BY <2>1, <2>2
<1> QED BY <1>4, <1>5, <1>6

\* A document that is deleted takes its chunks with it, and fails the ingestions that were
\* about to store chunks for it.
LEMMA DeleteBacked ==
  ASSUME IndexInv, BackedInv, NEW p \in Ingesters, DeleteStale(p)
  PROVE  BackedInv'
<1> DEFINE d == Doc(p)
<1>1. ingest[p] # NotIngesting /\ ingest[p].at = "prune"
  BY DEF DeleteStale, IngestAt
<1>2. ingest[p] \in Ingesting /\ docs \in Pages /\ DOMAIN ingest = Ingesters
  BY <1>1, IngestionAt DEF IndexInv, IndexTyped
<1>3. CASE Goes(p, "done") /\ UNCHANGED docs
  <2>1. ingest'[p].at = "done" /\ \A q \in Ingesters \ {p} : ingest'[q] = ingest[q]
    BY <1>2, <1>3 DEF Goes, Ingesting
  <2> QED BY <1>3, <2>1, BackedStays DEF Backed
<1>4. ASSUME docs' = [docs EXCEPT ![d] = NoDoc],
             ingest' = [q \in DOMAIN ingest |->
               IF q = p THEN [ingest[p] EXCEPT !.todo = @ \ {d}]
               ELSE IF q \in Storing(p, d) THEN [ingest[q] EXCEPT !.at = "orphan"]
               ELSE ingest[q]]
      PROVE  BackedInv'
  <2>1. /\ \A e \in Docs : docs'[e] \in {docs[e], NoDoc}
        /\ \A e \in Docs \ {d} : docs'[e] = docs[e]
    BY <1>2, <1>4 DEF Pages
  <2>2. Paired(docs')
    BY <2>1 DEF BackedInv, Paired, NoDoc
  <2>3. ASSUME NEW q \in Ingesters, ingest'[q] # NotIngesting PROVE Backed(ingest'[q], docs')
    <3>1. CASE q = p
      <4>1. ingest'[q].at = "prune"
        BY <1>1, <1>2, <1>4, <3>1 DEF Ingesting
      <4> QED BY <4>1 DEF Backed
    <3>2. CASE q # p /\ q \in Storing(p, d)
      <4>1. ingest[q] \in Ingesting
        BY <3>2, IngestShape DEF Storing, Running, IndexInv
      <4>2. ingest'[q].at = "orphan"
        BY <1>2, <1>4, <3>2, <4>1 DEF Ingesting
      <4> QED BY <4>2 DEF Backed
    <3>3. CASE q # p /\ q \notin Storing(p, d)
      <4>1. ingest'[q] = ingest[q] /\ Backed(ingest[q], docs)
        BY <1>2, <1>4, <2>3, <3>3 DEF BackedInv
      <4>2. ingest[q].at \in {"clear", "insert"} => FirstDoc(ingest[q].todo) \in Docs \ {d}
        <5>1. ingest[q].at \in {"clear", "insert"} => Doc(q) # d
          BY <1>2, <2>3, <3>3, <4>1 DEF Storing, Running
        <5> QED BY <2>3, <4>1, <5>1, IngestShape, FirstDocIsOne DEF Backed, Doc, IndexInv
      <4> QED BY <2>1, <4>1, <4>2 DEF Backed
    <3> QED BY <3>1, <3>2, <3>3
  <2> QED BY <2>2, <2>3 DEF BackedInv
<1> QED BY <1>3, <1>4 DEF DeleteStale

LEMMA OverlapStep ==
  IndexInv /\ BootInv /\ HostInv /\ BackedInv /\ [StartupNext]_startupVars
    => HostInv' /\ BackedInv'
<1> SUFFICES ASSUME IndexInv, BootInv, HostInv, BackedInv, [StartupNext]_startupVars
             PROVE  HostInv' /\ BackedInv'
  OBVIOUS
<1>1. ASSUME NEW p \in Ingesters, Ingest(p) \/ IngestFails(p) PROVE HostInv' /\ BackedInv'
  <2>1. CASE ListStale(p) \/ IngestFails(p)
    <3>1. ingest[p] \in Ingesting /\ UNCHANGED docs
      BY <2>1, IngestShape DEF ListStale, IngestFails, IngestAt, RestOfIngest, IndexInv
    <3>2. /\ ingest'[p].at \in {"prune", "failed"}
          /\ \A q \in Ingesters \ {p} : ingest'[q] = ingest[q]
      BY <2>1, <3>1 DEF ListStale, IngestFails, Goes, Ingesting, IndexInv, IndexTyped
    <3> QED BY <1>1, <3>1, <3>2, IngestStays, BackedStays DEF Backed
  <2> QED BY <1>1, <2>1, IngestStays, StatementsBacked, DeleteBacked DEF Ingest
<1>2. ASSUME NEW r \in Replicas, ReadState(r) PROVE HostInv' /\ BackedInv'
  <2>1. At(r) = "readState" /\ UNCHANGED docs
    BY <1>2 DEF ReadState, database
  <2>2. /\ replica'[r].at \in {"unlockDocs", "ingest"}
        /\ \A s \in Replicas \ {r} : replica'[s] = replica[s]
        /\ replica[r].image \in Images
    BY <1>2, <2>1, ReplicaShape DEF ReadState, Step, BootInv
  <2>3. CASE UNCHANGED ingest
    BY <2>1, <2>2, <2>3, HostsMove
  <2>4. CASE Step(r, "ingest") /\ BeginIngest(r, r, replica[r].image)
    <3>1. /\ BackedInv' /\ ingest'[r].on = r
          /\ \A q \in Ingesters \ {r} : ingest'[q] = ingest[q]
      BY <2>1, <2>2, <2>4, BeginsBacked DEF Ingesters
    <3>2. replica'[r].at = "ingest"
      BY <2>4 DEF Step, BootInv
    <3>3. \A q \in Reindexes : ingest[q] # NotIngesting => ingest[q].on \in Replicas \ {r}
      BY <2>1, IngestShape DEF HostInv, IndexInv, Ingesters, Ingesting
    <3>4. HostInv'
      BY <2>2, <3>1, <3>2, <3>3, StartupAssumption DEF HostInv, At, Ingesters
    <3> QED BY <3>1, <3>4
  <2> QED BY <1>2, <2>3, <2>4 DEF ReadState
<1>3. ASSUME NEW r \in Replicas, Record(r) PROVE HostInv' /\ BackedInv'
  <2>1. /\ At(r) = "ingest" /\ ingest'[r] = NotIngesting /\ UNCHANGED docs
        /\ \A q \in Ingesters \ {r} : ingest'[q] = ingest[q]
        /\ \A s \in Replicas \ {r} : replica'[s] = replica[s]
    BY <1>3 DEF Record, IndexInv, IndexTyped, Ingesters, BootInv
  <2>2. \A q \in Reindexes : ingest[q] # NotIngesting => ingest[q].on \in Replicas \ {r}
    BY <2>1, IngestShape DEF HostInv, IndexInv, Ingesters, Ingesting
  <2>3. HostInv'
    BY <2>1, <2>2, StartupAssumption DEF HostInv, At, Ingesters
  <2> QED BY <2>1, <2>3, BackedStays
<1>4. ASSUME NEW r \in Replicas, Die(r) PROVE HostInv' /\ BackedInv'
  <2>1. /\ \A p \in Ingesters : ingest'[p] \in {ingest[p], NotIngesting}
        /\ \A p \in Ingesters : ingest[p] # NotIngesting /\ ingest[p].on = r
                                  => ingest'[p] = NotIngesting
        /\ \A s \in Replicas \ {r} : replica'[s] = replica[s]
        /\ UNCHANGED docs
    BY <1>4 DEF Die, Running, IndexInv, IndexTyped, BootInv
  <2>2. \A p \in Ingesters : ingest[p] # NotIngesting => ingest[p].on \in Replicas
    BY IngestShape DEF IndexInv, Ingesting
  <2>3. HostInv'
    BY <2>1, <2>2 DEF HostInv, At, Ingesters
  <2> QED BY <2>1, <2>3, BackedStays
<1>5. ASSUME NEW r \in Replicas,
             \/ StartContainer(r) \/ LockSchema(r) \/ ReadSchema(r) \/ Migrate(r)
             \/ MigrateFails(r) \/ UnlockSchema(r) \/ LockDocs(r) \/ UnlockDocs(r)
      PROVE  HostInv' /\ BackedInv'
  <2>1. /\ At(r) \notin {"up", "ingest"} /\ UNCHANGED <<ingest, docs>>
        /\ \A s \in Replicas \ {r} : replica'[s] = replica[s]
    BY <1>5 DEF StartContainer, LockSchema, ReadSchema, Migrate, MigrateFails, UnlockSchema,
                LockDocs, UnlockDocs, Step, database, BootInv
  <2> QED BY <2>1, HostsMove
<1>6. ASSUME NEW q \in Reindexes, Reindex(q) PROVE HostInv' /\ BackedInv'
  <2>1. PICK r \in Replicas : At(r) = "up" /\ BeginIngest(q, r, replica[r].image)
    BY <1>6 DEF Reindex
  <2>2. replica[r].image \in Images /\ UNCHANGED <<docs, replica>>
    BY <1>6, <2>1, ReplicaShape DEF Reindex, database
  <2>3. /\ BackedInv' /\ ingest'[q].on = r
        /\ \A p \in Ingesters \ {q} : ingest'[p] = ingest[p]
    BY <2>1, <2>2, BeginsBacked DEF Ingesters
  <2>4. HostInv'
    BY <2>1, <2>2, <2>3, StartupAssumption DEF HostInv, At, Ingesters
  <2> QED BY <2>3, <2>4
<1>7. ASSUME NEW q \in Reindexes, Answered(q) PROVE HostInv' /\ BackedInv'
  <2>1. /\ \A p \in Ingesters : ingest'[p] \in {ingest[p], NotIngesting}
        /\ UNCHANGED <<docs, replica>>
    BY <1>7 DEF Answered, database, IndexInv, IndexTyped
  <2> QED BY <2>1, HostsStay, BackedStays
<1>8. CASE UNCHANGED startupVars
  BY <1>8, HostsStay, BackedStays DEF startupVars, database
<1> QED BY <1>1, <1>2, <1>3, <1>4, <1>5, <1>6, <1>7, <1>8 DEF StartupNext, Boot, Ingesters

\* Whatever overlaps, fails or dies: no chunks without their document, a replica that starts
\* waits for an ingestion exactly while it runs, and ingestions run in live processes.
THEOREM StartupTypeCorrect == StartupSpec => []StartupTypeOK
<1>1. IndexInv /\ BootInv /\ HostInv /\ BackedInv => StartupTypeOK
  <2> SUFFICES ASSUME IndexInv, BootInv, HostInv, BackedInv PROVE StartupTypeOK
    OBVIOUS
  <2>1. \A r \in Replicas : At(r) = "ingest" <=> ingest[r] # NotIngesting
    BY DEF IndexInv, Attached, HostInv
  <2>2. Running \subseteq Ingesters /\ \A p \in Running : At(ingest[p].on) # "down"
    BY DEF Running, HostInv, IndexInv, IndexTyped, Ingesters
  <2> QED BY <2>1, <2>2
          DEF StartupTypeOK, IndexInv, IndexTyped, BootInv, InOrder, Ingesters, Pages,
              BackedInv, Paired
<1> QED BY <1>1, BootInvInit, BootInvStep, IndexInvInit, IndexInvStep, OverlapInit, OverlapStep,
           PTL DEF StartupSpec
================================================================================
