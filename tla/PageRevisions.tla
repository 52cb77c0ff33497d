---------------------------- MODULE PageRevisions ----------------------------
(***************************************************************************)
(* One page and its page_revisions, edited by concurrent admin requests:   *)
(* core/services/pages/pageService.ts and revisionService.ts.  Every       *)
(* statement a request awaits is a step.  publishPage and the revision     *)
(* part of autosavePage are transactions at READ COMMITTED: a statement    *)
(* sees what is committed when it starts and what its own transaction      *)
(* wrote, and waits for rows another transaction has deleted.              *)
(*                                                                         *)
(* The last statement of a transaction and its COMMIT are one step: the    *)
(* transaction reads nothing in between, and the locks it holds only make  *)
(* others wait.                                                            *)
(***************************************************************************)
EXTENDS Naturals, FiniteSets

CONSTANTS
  Jobs,       \* admin requests that may be inside the services at once
  RevIds,     \* uuids of page_revisions (their number bounds a behaviour)
  Contents,   \* documents; title and slug are columns draft and live share: left out
  Retention,  \* settings.revisionRetention of each document, after clamping
  Nothing,    \* null
  Roles       \* who may do what: subsets of [Doings -> SUBSET Jobs] to choose from

Doings == {"publish", "autosave", "restore", "discard", "save", "unpublish", "delete", "fail"}

ASSUME RolesAssumption == Roles \subseteq [Doings -> SUBSET Jobs]
ASSUME RetentionAssumption == Retention \in [Contents -> 1..100]
ASSUME ContentsAssumption == Nothing \notin Contents /\ Contents # {}
ASSUME FiniteAssumption == IsFiniteSet(Jobs) /\ IsFiniteSet(RevIds)

VARIABLES
  page,  \* the row of pages
  revs,  \* committed rows of page_revisions
  used,  \* revision ids handed out
  job,   \* what each request is doing
  may    \* which requests do what, in this behaviour

vars == <<page, revs, used, job, may>>

L == INSTANCE PageLifecycle

Kinds == {"publish", "autosave"}
Rev == [id : RevIds, kind : Kinds, version : Nat \ {0}, data : Contents]

\* A request's local variables, and its transaction: the revision it inserted
\* ("ins") and the ids it deleted ("dels"), neither committed yet.
Idle == [pc |-> "idle"]
At(pc, data) == [pc |-> pc, data |-> data, ins |-> {}, dels |-> {}, seen |-> {}, version |-> 0]

PublishPcs == {"publishVersion", "publishInsert", "pruneSelect", "pruneDelete", "publishCommit"}
AutosavePcs == {"autosaveSelect", "autosaveReuse", "autosaveVersion", "autosaveInsert",
                "autosaveCommit"}

Job == {Idle}
  \cup [pc : PublishPcs \cup AutosavePcs, data : Contents, ins : SUBSET Rev,
        dels : SUBSET RevIds, seen : SUBSET RevIds, version : Nat]
  \cup [pc : {"restoreUpdate"}, data : Contents]
  \cup [pc : {"restoreSelect"}, id : RevIds, draft : Contents]
  \cup [pc : {"discardDelete"}, id : RevIds]

TypeOK ==
  /\ page \in L!Row \cup {L!Unborn, L!Gone}
  /\ revs \in SUBSET Rev
  /\ used \in SUBSET RevIds
  /\ job \in [Jobs -> Job]
  /\ may \in Roles

Init ==
  /\ page = L!Unborn
  /\ revs = {}
  /\ used = {}
  /\ job = [j \in Jobs |-> Idle]
  /\ may \in Roles

Goto(j, next) == job' = [job EXCEPT ![j] = next]

InTx(j) == job[j].pc \in PublishPcs \cup AutosavePcs

\* j has inserted a revision: its foreign key holds a key-share lock on the page.
HoldsPage(j) == job[j].pc \in {"pruneSelect", "pruneDelete", "publishCommit", "autosaveCommit"}
OfKind(S, kind) == {r \in S : r.kind = kind}
Ids(S) == {r.id : r \in S}

\* Rows a statement of j's transaction sees.
Visible(j) == {r \in revs : r.id \notin job[j].dels} \cup job[j].ins

\* Rows another transaction has deleted and not committed: a DELETE waits.
LockedFor(j) == UNION {job[k].dels : k \in {k \in Jobs \ {j} : InTx(k)}}

Commit(j) == revs' = {r \in revs : r.id \notin job[j].dels} \cup job[j].ins

\* nextRevisionVersion: max(version) + 1, or 1.
NextRevisionVersion(S) ==
  CHOOSE v \in 1..(Cardinality(RevIds) + 1) :
    /\ \A r \in S : r.version < v
    /\ v = 1 \/ \E r \in S : r.version = v - 1

\* Mutant: ORDER BY version ASC.
NewestAscending(S, keep) ==
  {T \in SUBSET S :
     /\ Cardinality(T) = IF Cardinality(S) < keep THEN Cardinality(S) ELSE keep
     /\ \A r \in T, s \in S \ T : r.version <= s.version}

\* Mutant: one row too many is kept.
NewestOffByOne(S, keep) ==
  {T \in SUBSET S :
     /\ Cardinality(T) = IF Cardinality(S) <= keep THEN Cardinality(S) ELSE keep + 1
     /\ \A r \in T, s \in S \ T : r.version >= s.version}

\* The first `keep` rows of an ORDER BY version DESC; SQL leaves the order of
\* equal versions open, so there may be several such prefixes.
Newest(S, keep) ==
  {T \in SUBSET S :
     /\ Cardinality(T) = IF Cardinality(S) < keep THEN Cardinality(S) ELSE keep
     /\ \A r \in T, s \in S \ T : r.version >= s.version}

-----------------------------------------------------------------------------
(* Single statements: createPage, updatePage, unpublishPage, deletePage *)

CreatePage ==
  /\ page = L!Unborn
  /\ \E c \in Contents : page' = [status |-> "draft", draft |-> c, live |-> Nothing]
  /\ UNCHANGED <<revs, used, job>>

UpdatePage(j) ==
  /\ j \in may["save"] /\ job[j] = Idle
  /\ L!Stored(page)
  /\ \E c \in Contents : page' = [page EXCEPT !.draft = c]
  /\ UNCHANGED <<revs, used, job>>

UnpublishPage(j) ==
  /\ j \in may["unpublish"] /\ job[j] = Idle
  /\ L!Stored(page)
  /\ page' = [page EXCEPT !.status = "draft", !.live = Nothing]
  /\ UNCHANGED <<revs, used, job>>

\* Waits for transactions that inserted a revision (they hold a key-share lock
\* on the page) and cascades to the revisions.
DeletePage(j) ==
  /\ j \in may["delete"] /\ job[j] = Idle
  /\ L!Stored(page)
  /\ \A k \in Jobs : ~HoldsPage(k)
  /\ page' = L!Gone
  /\ revs' = {}
  /\ UNCHANGED <<used, job>>

-----------------------------------------------------------------------------
(* publishPage: one transaction *)

\* SELECT of the page; the request's data, or the stored draft when it has none.
PublishRead(j) ==
  /\ j \in may["publish"] /\ job[j] = Idle
  /\ L!Stored(page)
  /\ \E body \in Contents \cup {Nothing} :
       Goto(j, At("publishVersion", IF body = Nothing THEN page.draft ELSE body))
  /\ UNCHANGED <<page, revs, used>>

ReadVersion(j, pc, next) ==
  /\ job[j].pc = pc
  /\ Goto(j, [job[j] EXCEPT !.pc = next, !.version = NextRevisionVersion(Visible(j))])
  /\ UNCHANGED <<page, revs, used>>

\* INSERT of a revision; the foreign key refuses it when the page is gone.
InsertRevision(j, kind, pc, next) ==
  /\ job[j].pc = pc
  /\ page # L!Gone
  /\ \E id \in RevIds \ used :
       /\ used' = used \cup {id}
       /\ Goto(j, [job[j] EXCEPT !.pc = next,
                    !.ins = {[id |-> id, kind |-> kind, version |-> job[j].version,
                              data |-> job[j].data]}])
  /\ UNCHANGED <<page, revs>>

PublishVersion(j) == ReadVersion(j, "publishVersion", "publishInsert")
PublishInsert(j) == InsertRevision(j, "publish", "publishInsert", "pruneSelect")

\* Mutant: the kind is not part of the WHERE.
PrunableOfAnyKind(j) == Visible(j)

Prunable(j) == OfKind(Visible(j), "publish")

PruneSelect(j) ==
  /\ job[j].pc = "pruneSelect"
  /\ \E kept \in Newest(Prunable(j), Retention[job[j].data]) :
       Goto(j, [job[j] EXCEPT !.pc = "pruneDelete", !.seen = Ids(Prunable(j) \ kept)])
  /\ UNCHANGED <<page, revs, used>>

\* DELETE ... WHERE id IN (seen), in j's transaction.
DeleteSeen(j, next) ==
  /\ job[j].seen \cap LockedFor(j) = {}
  /\ Goto(j, [job[j] EXCEPT !.pc = next,
               !.dels = {r.id : r \in {r \in revs : r.id \in job[j].seen}},
               !.ins = {r \in job[j].ins : r.id \notin job[j].seen}])

PruneDelete(j) ==
  /\ job[j].pc = "pruneDelete"
  /\ DeleteSeen(j, "publishCommit")
  /\ UNCHANGED <<page, revs, used>>

\* Mutant: the draft keeps what the row had.
PublishCommitLiveOnly(j) ==
  /\ job[j].pc = "publishCommit"
  /\ page' = [page EXCEPT !.status = "published", !.live = job[j].data]
  /\ Commit(j)
  /\ Goto(j, Idle)
  /\ UNCHANGED used

PublishCommit(j) ==
  /\ job[j].pc = "publishCommit"
  /\ page' = [status |-> "published", draft |-> job[j].data, live |-> job[j].data]
  /\ Commit(j)
  /\ Goto(j, Idle)
  /\ UNCHANGED used

-----------------------------------------------------------------------------
(* autosavePage *)

\* SELECT of the page, outside the transaction.
AutosaveRead(j) ==
  /\ j \in may["autosave"] /\ job[j] = Idle
  /\ L!Stored(page)
  /\ \E body \in Contents \cup {Nothing} :
       Goto(j, At("autosaveSelect", IF body = Nothing THEN page.draft ELSE body))
  /\ UNCHANGED <<page, revs, used>>

Autosaves(S) == OfKind(S, "autosave")

\* The autosaves, newest first; an equal newest one is reused and the others
\* go, otherwise all of them go once the new one is inserted.  (Snapshots of
\* equal data are equal or differ in title or slug.)
AutosaveSelect(j) ==
  /\ job[j].pc = "autosaveSelect"
  /\ LET old == Autosaves(revs)
     IN  \/ \E latest \in old :
              /\ {latest} \in Newest(old, 1)
              /\ latest.data = job[j].data
              /\ Goto(j, [job[j] EXCEPT !.pc = "autosaveReuse", !.seen = Ids(old \ {latest})])
         \/ Goto(j, [job[j] EXCEPT !.pc = "autosaveVersion", !.seen = Ids(old)])
  /\ UNCHANGED <<page, revs, used>>

AutosaveVersion(j) == ReadVersion(j, "autosaveVersion", "autosaveInsert")
AutosaveInsert(j) == InsertRevision(j, "autosave", "autosaveInsert", "autosaveCommit")

\* The last DELETE, of the autosaves the SELECT saw, and the COMMIT.
AutosaveDone(j, pc) ==
  /\ job[j].pc = pc
  /\ revs' = {r \in revs : r.id \notin job[j].seen} \cup job[j].ins
  /\ Goto(j, Idle)
  /\ UNCHANGED <<page, used>>

\* Mutant: the older autosaves stay.
AutosaveCommitKeepsOld(j) ==
  /\ job[j].pc = "autosaveCommit"
  /\ revs' = revs \cup job[j].ins
  /\ Goto(j, Idle)
  /\ UNCHANGED <<page, used>>

AutosaveReuse(j) == AutosaveDone(j, "autosaveReuse")
AutosaveCommit(j) == AutosaveDone(j, "autosaveCommit")

-----------------------------------------------------------------------------
(* restoreRevision and discardAutosaveRevision: no transaction *)

RestoreRead(j) ==
  /\ j \in may["restore"] /\ job[j] = Idle
  /\ L!Stored(page)
  /\ \E id \in used : Goto(j, [pc |-> "restoreSelect", id |-> id, draft |-> page.draft])
  /\ UNCHANGED <<page, revs, used>>

\* A revision equal to the draft as read, title and slug included, changes
\* nothing.
RestoreSelect(j) ==
  /\ job[j].pc = "restoreSelect"
  /\ \/ \E r \in revs :
          /\ r.id = job[j].id
          /\ \/ Goto(j, [pc |-> "restoreUpdate", data |-> r.data])
             \/ r.data = job[j].draft /\ Goto(j, Idle)
     \/ job[j].id \notin Ids(revs) /\ Goto(j, Idle)
  /\ UNCHANGED <<page, revs, used>>

RestoreUpdate(j) ==
  /\ job[j].pc = "restoreUpdate"
  /\ page' = IF L!Stored(page)
             THEN [page EXCEPT !.status = "draft", !.draft = job[j].data] ELSE page
  /\ Goto(j, Idle)
  /\ UNCHANGED <<revs, used>>

\* Publish revisions are refused.
DiscardSelect(j) ==
  /\ j \in may["discard"] /\ job[j] = Idle
  /\ \E id \in Ids(Autosaves(revs)) : Goto(j, [pc |-> "discardDelete", id |-> id])
  /\ UNCHANGED <<page, revs, used>>

DiscardDelete(j) ==
  /\ job[j].pc = "discardDelete"
  /\ revs' = {r \in revs : r.id # job[j].id}
  /\ Goto(j, Idle)
  /\ UNCHANGED <<page, used>>

-----------------------------------------------------------------------------
\* A statement is refused (no revision may refer to a deleted page), the
\* database fails or the process dies: the transaction rolls back.
Rollback(j) ==
  /\ job[j] # Idle
  /\ \/ j \in may["fail"]
     \/ page = L!Gone /\ job[j].pc \in {"publishInsert", "autosaveInsert"}
  /\ Goto(j, Idle)
  /\ UNCHANGED <<page, revs, used>>

Statement(j) == UpdatePage(j) \/ UnpublishPage(j) \/ DeletePage(j)
PublishPage(j) ==
  \/ PublishRead(j) \/ PublishVersion(j) \/ PublishInsert(j)
  \/ PruneSelect(j) \/ PruneDelete(j) \/ PublishCommit(j)
AutosavePage(j) ==
  \/ AutosaveRead(j) \/ AutosaveSelect(j) \/ AutosaveReuse(j)
  \/ AutosaveVersion(j) \/ AutosaveInsert(j) \/ AutosaveCommit(j)
RestoreRevision(j) == RestoreRead(j) \/ RestoreSelect(j) \/ RestoreUpdate(j)
DiscardRevision(j) == DiscardSelect(j) \/ DiscardDelete(j)

Next ==
  /\ UNCHANGED may
  /\ \/ CreatePage
     \/ \E j \in Jobs :
          \/ Statement(j) \/ PublishPage(j) \/ AutosavePage(j)
          \/ RestoreRevision(j) \/ DiscardRevision(j) \/ Rollback(j)

Spec == Init /\ [][Next]_vars

-----------------------------------------------------------------------------
(* Properties *)

Publishes == OfKind(revs, "publish")
MaxRetention == CHOOSE n \in {Retention[c] : c \in Contents} :
                  \A c \in Contents : Retention[c] <= n

\* Requests of this kind come one at a time.
OneAtATime(doing) == \A j, k \in may[doing] : j = k

\* What visitors see is always recoverable: the live document is the data of a
\* kept publish revision, whatever the prunes remove, when publishes come one at a
\* time.  (The later commit's revision may be an old one for another publisher.)
PublishedHasRevision ==
  OneAtATime("publish") /\ L!Stored(page) /\ page.live # Nothing =>
    \E r \in Publishes : r.data = page.live

\* PAGE_MODEL.md: revisionRetention "controls publish revision retention".  Publishes
\* that overlap cannot see each other's revision, so a prune may leave more, but never
\* more than one extra revision for each other publisher.
RetentionBounded ==
  /\ Cardinality(Publishes) <= MaxRetention + Cardinality(may["publish"]) - 1
  /\ OneAtATime("publish") /\ L!Stored(page) /\ page.live # Nothing =>
       Cardinality(Publishes) <= Retention[page.live]

\* PAGE_MODEL.md: "one latest autosave snapshot", when one editor autosaves; concurrent
\* autosaves never pile up beyond one for each editor.
AutosavesBounded == Cardinality(Autosaves(revs)) <= Cardinality(may["autosave"])

\* Once an autosave is stored the page has a recovery snapshot until somebody
\* discards one or deletes the page: no publish, prune or other autosave takes
\* the last one away, when autosaves come one at a time.
RecoveryKept ==
  [][OneAtATime("autosave") /\ Autosaves(revs) # {} /\ Autosaves(revs') = {} =>
       (\E j \in Jobs : DiscardDelete(j) \/ DeletePage(j))]_vars

\* The page row, seen through all these requests, follows PageLifecycle.
Lifecycle == L!Spec
=============================================================================
