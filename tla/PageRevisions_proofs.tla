------------------------ MODULE PageRevisions_proofs ------------------------
(***************************************************************************)
(* PageRevisions implements PageLifecycle: however many requests edit,     *)
(* publish, restore and delete a page at once, its row moves in the single *)
(* steps PageLifecycle allows.  Then what its revisions promise: the ids   *)
(* and rows of transactions stay apart (TxInv), a ledger of commits bounds *)
(* what overlapping publishes and autosaves leave (PublishCount,           *)
(* AutosaveCount), and a publisher that is alone keeps the newest publish  *)
(* revision (NewestInv).                                                   *)
(***************************************************************************)
EXTENDS PageRevisions, Counting, TLAPS

TxPcs == PublishPcs \cup AutosavePcs

\* A transaction carries a document and inserts revisions of documents.
TxTyped(x) ==
  /\ DOMAIN x = {"pc", "data", "ins", "dels", "seen", "version"}
  /\ x.data \in Contents
  /\ \A r \in x.ins : r.data \in Contents

JobTyped(x) ==
  \/ x = Idle
  \/ x.pc \in TxPcs /\ TxTyped(x)
  \/ x.pc = "restoreUpdate" /\ x.data \in Contents
  \/ x.pc \in {"restoreSelect", "discardDelete"}

\* Once a request works on the page it stays inserted, and a transaction that
\* inserted a revision keeps it from being deleted: its commit finds the row.
PageHeld ==
  \A j \in Jobs : /\ job[j].pc \notin {"idle", "discardDelete"} => page # L!Unborn
                  /\ HoldsPage(j) => page # L!Gone

Documents ==
  /\ page \in L!Row \cup {L!Unborn, L!Gone}
  /\ \A r \in revs : r.data \in Contents

JobsTyped == job = [j \in Jobs |-> job[j]] /\ \A j \in Jobs : JobTyped(job[j])

Inv == Documents /\ JobsTyped /\ PageHeld

\* What a row that is neither unborn nor deleted looks like.
LEMMA StoredRow ==
  ASSUME Inv, L!Stored(page)
  PROVE  page \in L!Row /\ page.draft \in Contents
BY DEF Inv, Documents, L!Stored, L!Row

\* The step a transaction is at tells that it is one.
LEMMA TxShape ==
  ASSUME Inv, NEW j \in Jobs, job[j].pc \in TxPcs
  PROVE  /\ TxTyped(job[j]) /\ job[j] # Idle /\ page # L!Unborn
         /\ job[j].data \in Contents
<1>1. job[j] # Idle /\ job[j].pc \notin {"idle", "discardDelete"}
  BY DEF Idle, TxPcs, PublishPcs, AutosavePcs
<1>2. TxTyped(job[j])
  BY <1>1 DEF Inv, JobsTyped, JobTyped, TxPcs, PublishPcs, AutosavePcs
<1> QED
  BY <1>1, <1>2 DEF Inv, PageHeld, TxTyped

-----------------------------------------------------------------------------
(* Steps of one request that leave the page alone *)

LEMMA GotoInv ==
  ASSUME Inv, NEW j \in Jobs, NEW next, Goto(j, next), JobTyped(next), page' = page,
         next.pc \notin {"idle", "discardDelete"} => page # L!Unborn,
         next.pc \in {"pruneSelect", "pruneDelete", "publishCommit", "autosaveCommit"}
           => page # L!Gone,
         \A r \in revs' : r.data \in Contents
  PROVE  Inv'
<1>1. /\ job' = [k \in Jobs |-> job'[k]] /\ job'[j] = next
      /\ \A k \in Jobs \ {j} : job'[k] = job[k]
  BY DEF Goto, Inv, JobsTyped
<1>2. JobsTyped'
  BY <1>1 DEF Inv, JobsTyped
<1>3. PageHeld'
  BY <1>1 DEF Inv, PageHeld, HoldsPage
<1>4. Documents'
  BY DEF Inv, Documents
<1> QED
  BY <1>2, <1>3, <1>4 DEF Inv

\* Going on to the next statement of a transaction.
LEMMA AdvanceTyped ==
  ASSUME NEW x, TxTyped(x), NEW pc \in TxPcs, NEW n
  PROVE  /\ JobTyped([x EXCEPT !.pc = pc, !.version = n])
         /\ [x EXCEPT !.pc = pc, !.version = n].pc = pc
         /\ JobTyped([x EXCEPT !.pc = pc, !.seen = n])
         /\ [x EXCEPT !.pc = pc, !.seen = n].pc = pc
BY DEF JobTyped, TxTyped

\* The inserted revision carries the request's document.
LEMMA InsertTyped ==
  ASSUME NEW x, TxTyped(x), NEW pc \in TxPcs, NEW rows, \A r \in rows : r.data \in Contents
  PROVE  /\ JobTyped([x EXCEPT !.pc = pc, !.ins = rows])
         /\ [x EXCEPT !.pc = pc, !.ins = rows].pc = pc
BY DEF JobTyped, TxTyped

\* A deleted row may be the transaction's own.
LEMMA DeleteTyped ==
  ASSUME NEW x, TxTyped(x), NEW pc \in TxPcs, NEW ids, NEW rows \in SUBSET x.ins
  PROVE  /\ JobTyped([x EXCEPT !.pc = pc, !.dels = ids, !.ins = rows])
         /\ [x EXCEPT !.pc = pc, !.dels = ids, !.ins = rows].pc = pc
BY DEF JobTyped, TxTyped

-----------------------------------------------------------------------------
LEMMA InitInv == Init => Inv
BY DEF Init, Inv, Documents, JobsTyped, JobTyped, PageHeld, HoldsPage, Idle

\* A row's own statements keep it a row, and nobody's transaction loses it.
LEMMA RowInv ==
  ASSUME Inv, page' \in L!Row, revs' = revs, job' = job,
         page # L!Gone
  PROVE  Inv'
<1>1. page' # L!Unborn /\ page' # L!Gone
  BY DEF L!Row, L!Unborn, L!Gone
<1> QED
  BY <1>1 DEF Inv, Documents, JobsTyped, PageHeld, HoldsPage

LEMMA CreateInv == Inv /\ CreatePage => Inv' /\ L!Next
<1> SUFFICES ASSUME Inv, CreatePage PROVE Inv' /\ L!Next
  OBVIOUS
<1>1. PICK c \in Contents : page' = [status |-> "draft", draft |-> c, live |-> Nothing]
  BY DEF CreatePage
<1>2. page' \in L!Row /\ page # L!Gone
  BY <1>1 DEF L!Row, CreatePage, L!Unborn, L!Gone
<1>3. L!Create
  BY <1>1 DEF CreatePage, L!Create
<1> QED
  BY <1>2, <1>3, RowInv DEF CreatePage, L!Next

LEMMA StatementInv ==
  ASSUME Inv, NEW j \in Jobs, Statement(j) PROVE Inv' /\ L!Next
<1>1. CASE UpdatePage(j)
  <2>1. PICK c \in Contents : page' = [page EXCEPT !.draft = c]
    BY <1>1 DEF UpdatePage
  <2>2. page \in L!Row
    BY <1>1, StoredRow DEF UpdatePage
  <2>3. page' \in L!Row /\ page # L!Gone
    BY <2>1, <2>2 DEF L!Row, L!Gone
  <2> QED
    BY <1>1, <2>1, <2>3, RowInv DEF UpdatePage, L!Next, L!Save
<1>2. CASE UnpublishPage(j)
  <2>1. page \in L!Row
    BY <1>2, StoredRow DEF UnpublishPage
  <2>2. page' = [page EXCEPT !.status = "draft", !.live = Nothing]
    BY <1>2 DEF UnpublishPage
  <2>3. page' \in L!Row
    BY <2>1, <2>2 DEF L!Row
  <2>4. page # L!Gone
    BY <2>1 DEF L!Row, L!Gone
  <2> QED
    BY <1>2, <2>3, <2>4, RowInv DEF UnpublishPage, L!Next, L!Unpublish
<1>3. CASE DeletePage(j)
  <2>1. Documents' /\ JobsTyped'
    BY <1>3 DEF DeletePage, Inv, Documents, JobsTyped
  <2>2. PageHeld'
    BY <1>3 DEF DeletePage, PageHeld, HoldsPage, L!Unborn, L!Gone
  <2> QED
    BY <1>3, <2>1, <2>2 DEF DeletePage, Inv, L!Next, L!Delete
<1> QED
  BY <1>1, <1>2, <1>3 DEF Statement

\* The document a publish or an autosave works on.
LEMMA StartInv ==
  ASSUME Inv, NEW j \in Jobs, NEW pc \in {"publishVersion", "autosaveSelect"},
         NEW body \in Contents \cup {Nothing}, L!Stored(page),
         Goto(j, At(pc, IF body = Nothing THEN page.draft ELSE body)),
         UNCHANGED <<page, revs, used>>
  PROVE  Inv'
<1> DEFINE next == At(pc, IF body = Nothing THEN page.draft ELSE body)
<1>1. JobTyped(next) /\ next.pc = pc
  BY StoredRow DEF At, JobTyped, TxTyped, TxPcs, PublishPcs, AutosavePcs
<1>2. page # L!Unborn
  BY DEF L!Stored
<1>3. \A r \in revs' : r.data \in Contents
  BY DEF Inv, Documents
<1> HIDE DEF next
<1>4. next.pc \notin {"pruneSelect", "pruneDelete", "publishCommit", "autosaveCommit"}
  BY <1>1
<1>5. Goto(j, next)
  BY DEF next
<1> QED
  BY <1>1, <1>2, <1>3, <1>4, <1>5, GotoInv

LEMMA VersionInv ==
  ASSUME Inv, NEW j \in Jobs, NEW pc \in TxPcs,
         NEW next \in {"publishInsert", "autosaveInsert"}, ReadVersion(j, pc, next)
  PROVE  Inv' /\ page' = page
<1>1. TxTyped(job[j]) /\ page # L!Unborn /\ next \in TxPcs
  BY TxShape DEF ReadVersion, TxPcs, PublishPcs, AutosavePcs
<1>2. \A r \in revs' : r.data \in Contents
  BY DEF Inv, Documents, ReadVersion
<1> QED
  BY <1>1, <1>2, AdvanceTyped, GotoInv DEF ReadVersion

\* An insert succeeds only while the page is there.
LEMMA InsertInv ==
  ASSUME Inv, NEW j \in Jobs, NEW kind, NEW pc \in TxPcs,
         NEW next \in {"pruneSelect", "autosaveCommit"}, InsertRevision(j, kind, pc, next)
  PROVE  Inv' /\ page' = page
<1>1. PICK id \in RevIds \ used :
        Goto(j, [job[j] EXCEPT !.pc = next,
                   !.ins = {[id |-> id, kind |-> kind, version |-> job[j].version,
                             data |-> job[j].data]}])
  BY DEF InsertRevision
<1> DEFINE rows == {[id |-> id, kind |-> kind, version |-> job[j].version, data |-> job[j].data]}
<1>2. TxTyped(job[j]) /\ page # L!Unborn /\ next \in TxPcs
  BY TxShape DEF InsertRevision, TxPcs, PublishPcs, AutosavePcs
<1>3. \A r \in rows : r.data \in Contents
  BY <1>2 DEF TxTyped
<1>4. /\ \A r \in revs' : r.data \in Contents
      /\ page' = page /\ page # L!Gone
  BY DEF Inv, Documents, InsertRevision
<1> HIDE DEF rows
<1>5. Goto(j, [job[j] EXCEPT !.pc = next, !.ins = rows])
  BY <1>1 DEF rows
<1> QED
  BY <1>2, <1>3, <1>4, <1>5, InsertTyped, GotoInv

LEMMA PublishInv ==
  ASSUME Inv, NEW j \in Jobs, PublishPage(j) PROVE Inv' /\ [L!Next]_page
<1>1. CASE PublishRead(j)
  BY <1>1, StartInv DEF PublishRead
<1>2. CASE PublishVersion(j)
  BY <1>2, VersionInv DEF PublishVersion, TxPcs, PublishPcs
<1>3. CASE PublishInsert(j)
  BY <1>3, InsertInv DEF PublishInsert, TxPcs, PublishPcs
<1>4. CASE PruneSelect(j)
  <2>1. PICK ids : Goto(j, [job[j] EXCEPT !.pc = "pruneDelete", !.seen = ids])
    BY <1>4 DEF PruneSelect
  <2>2. TxTyped(job[j]) /\ page # L!Unborn /\ page # L!Gone /\ "pruneDelete" \in TxPcs
    BY <1>4, TxShape DEF PruneSelect, Inv, PageHeld, HoldsPage, TxPcs, PublishPcs
  <2>3. page' = page /\ \A r \in revs' : r.data \in Contents
    BY <1>4 DEF PruneSelect, Inv, Documents
  <2> QED
    BY <2>1, <2>2, <2>3, AdvanceTyped, GotoInv
<1>5. CASE PruneDelete(j)
  <2> DEFINE ids == {r.id : r \in {r \in revs : r.id \in job[j].seen}}
             rows == {r \in job[j].ins : r.id \notin job[j].seen}
  <2>1. Goto(j, [job[j] EXCEPT !.pc = "publishCommit", !.dels = ids, !.ins = rows])
    BY <1>5 DEF PruneDelete, DeleteSeen
  <2>2. TxTyped(job[j]) /\ page # L!Unborn /\ page # L!Gone /\ "publishCommit" \in TxPcs
    BY <1>5, TxShape DEF PruneDelete, Inv, PageHeld, HoldsPage, TxPcs, PublishPcs
  <2>3. page' = page /\ \A r \in revs' : r.data \in Contents
    BY <1>5 DEF PruneDelete, Inv, Documents
  <2>4. rows \in SUBSET job[j].ins
    OBVIOUS
  <2> HIDE DEF ids, rows
  <2> QED
    BY <2>1, <2>2, <2>3, <2>4, DeleteTyped, GotoInv
<1>6. CASE PublishCommit(j)
  <2>1. TxTyped(job[j]) /\ page # L!Unborn /\ page # L!Gone
    BY <1>6, TxShape DEF PublishCommit, Inv, PageHeld, HoldsPage, TxPcs, PublishPcs
  <2> DEFINE data == job[j].data
  <2>2. data \in Contents /\ page' = [status |-> "published", draft |-> data, live |-> data]
    BY <1>6, <2>1 DEF PublishCommit, TxTyped
  <2>3. \A r \in revs' : r.data \in Contents
    BY <1>6, <2>1 DEF PublishCommit, Commit, Inv, Documents, TxTyped
  <2> HIDE DEF data
  <2>4. page' \in L!Row /\ page' # L!Unborn /\ page' # L!Gone
    BY <2>2 DEF L!Row, L!Unborn, L!Gone
  <2>5. JobsTyped' /\ PageHeld'
    BY <1>6, <2>4 DEF PublishCommit, Goto, Inv, JobsTyped, JobTyped, PageHeld
  <2>6. L!Publish
    BY <2>1, <2>2 DEF L!Publish, L!Stored
  <2> QED
    BY <2>3, <2>4, <2>5, <2>6 DEF Inv, Documents, L!Next
<1> QED
  BY <1>1, <1>2, <1>3, <1>4, <1>5, <1>6 DEF PublishPage

\* The end of a request, or of its transaction.
LEMMA IdleInv ==
  ASSUME Inv, NEW j \in Jobs, Goto(j, Idle), page' = page, \A r \in revs' : r.data \in Contents
  PROVE  Inv'
<1>1. JobTyped(Idle) /\ Idle.pc = "idle"
  BY DEF JobTyped, Idle
<1> QED
  BY <1>1, GotoInv

LEMMA AutosaveInv ==
  ASSUME Inv, NEW j \in Jobs, AutosavePage(j) PROVE Inv' /\ page' = page
<1>1. CASE AutosaveRead(j)
  BY <1>1, StartInv DEF AutosaveRead
<1>2. CASE AutosaveSelect(j)
  <2>1. PICK pc \in {"autosaveReuse", "autosaveVersion"} :
          \E ids : Goto(j, [job[j] EXCEPT !.pc = pc, !.seen = ids])
    BY <1>2 DEF AutosaveSelect
  <2>2. TxTyped(job[j]) /\ page # L!Unborn /\ pc \in TxPcs
    BY <1>2, TxShape DEF AutosaveSelect, TxPcs, AutosavePcs
  <2>3. page' = page /\ \A r \in revs' : r.data \in Contents
    BY <1>2 DEF AutosaveSelect, Inv, Documents
  <2> QED
    BY <2>1, <2>2, <2>3, AdvanceTyped, GotoInv
<1>3. ASSUME NEW pc \in {"autosaveReuse", "autosaveCommit"}, AutosaveDone(j, pc)
      PROVE  Inv' /\ page' = page
  <2>1. TxTyped(job[j])
    BY <1>3, TxShape DEF AutosaveDone, TxPcs, AutosavePcs
  <2>2. page' = page /\ \A r \in revs' : r.data \in Contents
    BY <1>3, <2>1 DEF AutosaveDone, Inv, Documents, TxTyped
  <2> QED
    BY <1>3, <2>2, IdleInv DEF AutosaveDone
<1>4. CASE AutosaveVersion(j)
  BY <1>4, VersionInv DEF AutosaveVersion, TxPcs, AutosavePcs
<1>5. CASE AutosaveInsert(j)
  BY <1>5, InsertInv DEF AutosaveInsert, TxPcs, AutosavePcs
<1> QED
  BY <1>1, <1>2, <1>3, <1>4, <1>5 DEF AutosavePage, AutosaveReuse, AutosaveCommit

LEMMA RestoreInv ==
  ASSUME Inv, NEW j \in Jobs, RestoreRevision(j) PROVE Inv' /\ [L!Next]_page
<1>1. CASE RestoreRead(j)
  <2>1. PICK id \in used : Goto(j, [pc |-> "restoreSelect", id |-> id, draft |-> page.draft])
    BY <1>1 DEF RestoreRead
  <2>2. JobTyped([pc |-> "restoreSelect", id |-> id, draft |-> page.draft])
    BY DEF JobTyped
  <2>3. page # L!Unborn /\ page' = page /\ \A r \in revs' : r.data \in Contents
    BY <1>1 DEF RestoreRead, L!Stored, Inv, Documents
  <2> QED
    BY <2>1, <2>2, <2>3, GotoInv
<1>2. CASE RestoreSelect(j)
  <2>1. page' = page /\ \A r \in revs' : r.data \in Contents
    BY <1>2 DEF RestoreSelect, Inv, Documents
  <2>2. page # L!Unborn
    BY <1>2 DEF RestoreSelect, Inv, PageHeld, Idle
  <2>3. ASSUME NEW r \in revs, Goto(j, [pc |-> "restoreUpdate", data |-> r.data]) PROVE Inv'
    <3>1. JobTyped([pc |-> "restoreUpdate", data |-> r.data])
      BY DEF JobTyped, Inv, Documents
    <3> QED
      BY <2>1, <2>2, <2>3, <3>1, GotoInv
  <2> QED
    BY <1>2, <2>1, <2>3, IdleInv DEF RestoreSelect
<1>3. CASE RestoreUpdate(j)
  <2>1. job[j].data \in Contents
    BY <1>3 DEF RestoreUpdate, Inv, JobsTyped, JobTyped, Idle, TxPcs, PublishPcs, AutosavePcs
  <2>2. CASE ~L!Stored(page)
    BY <1>3, <2>2, IdleInv DEF RestoreUpdate, Inv, Documents
  <2>3. CASE L!Stored(page)
    <3> DEFINE data == job[j].data
    <3>1. page \in L!Row /\ page' = [page EXCEPT !.status = "draft", !.draft = data]
      BY <1>3, <2>3, StoredRow DEF RestoreUpdate
    <3>2. data \in Contents
      BY <2>1
    <3> HIDE DEF data
    <3>3. page' \in L!Row
      BY <3>1, <3>2 DEF L!Row
    <3>4. page' # L!Unborn /\ page' # L!Gone
      BY <3>3 DEF L!Row, L!Unborn, L!Gone
    <3>5. JobsTyped' /\ PageHeld'
      BY <1>3, <3>4 DEF RestoreUpdate, Goto, Inv, JobsTyped, JobTyped, PageHeld
    <3>6. Documents'
      BY <1>3, <3>3 DEF RestoreUpdate, Inv, Documents
    <3>7. L!Restore
      BY <2>3, <3>1, <3>2 DEF L!Restore
    <3> QED
      BY <3>5, <3>6, <3>7 DEF Inv, L!Next
  <2> QED
    BY <2>2, <2>3
<1> QED
  BY <1>1, <1>2, <1>3 DEF RestoreRevision

LEMMA DiscardInv ==
  ASSUME Inv, NEW j \in Jobs, DiscardRevision(j) PROVE Inv' /\ page' = page
<1>1. CASE DiscardSelect(j)
  <2>1. PICK id \in Ids(Autosaves(revs)) : Goto(j, [pc |-> "discardDelete", id |-> id])
    BY <1>1 DEF DiscardSelect
  <2>2. JobTyped([pc |-> "discardDelete", id |-> id])
    BY DEF JobTyped
  <2>3. page' = page /\ \A r \in revs' : r.data \in Contents
    BY <1>1 DEF DiscardSelect, Inv, Documents
  <2> QED
    BY <2>1, <2>2, <2>3, GotoInv
<1>2. CASE DiscardDelete(j)
  BY <1>2, IdleInv DEF DiscardDelete, Inv, Documents
<1> QED
  BY <1>1, <1>2 DEF DiscardRevision

-----------------------------------------------------------------------------
LEMMA NextInv == Inv /\ [Next]_vars => Inv' /\ [L!Next]_page
<1> SUFFICES ASSUME Inv, [Next]_vars PROVE Inv' /\ [L!Next]_page
  OBVIOUS
<1>1. CASE CreatePage
  BY <1>1, CreateInv
<1>2. ASSUME NEW j \in Jobs, Statement(j) PROVE Inv' /\ [L!Next]_page
  BY <1>2, StatementInv
<1>3. ASSUME NEW j \in Jobs, PublishPage(j) PROVE Inv' /\ [L!Next]_page
  BY <1>3, PublishInv
<1>4. ASSUME NEW j \in Jobs, AutosavePage(j) PROVE Inv' /\ [L!Next]_page
  BY <1>4, AutosaveInv
<1>5. ASSUME NEW j \in Jobs, RestoreRevision(j) PROVE Inv' /\ [L!Next]_page
  BY <1>5, RestoreInv
<1>6. ASSUME NEW j \in Jobs, DiscardRevision(j) PROVE Inv' /\ [L!Next]_page
  BY <1>6, DiscardInv
<1>7. ASSUME NEW j \in Jobs, Rollback(j) PROVE Inv' /\ [L!Next]_page
  BY <1>7, IdleInv DEF Rollback, Inv, Documents
<1>8. CASE UNCHANGED vars
  BY <1>8 DEF vars, Inv, Documents, JobsTyped, PageHeld, HoldsPage
<1> QED
  BY <1>1, <1>2, <1>3, <1>4, <1>5, <1>6, <1>7, <1>8 DEF Next

\* However the requests interleave, and wherever they are rolled back, visitors
\* and editors see the page move as PageLifecycle says: in particular a publish
\* never commits without its row, and changes draft and live version together.
THEOREM RefinesLifecycle == Spec => Lifecycle
<1>1. Init => page = L!Unborn
  BY DEF Init
<1> QED
  BY <1>1, InitInv, NextInv, PTL DEF Spec, Lifecycle, L!Spec
-----------------------------------------------------------------------------
(* Revisions and transactions *)

KindOf(pc) == IF pc \in PublishPcs THEN "publish" ELSE "autosave"

\* A revision with one of the ids handed out; each version was the next one for the
\* inserts before it.
Known(r, us) == r \in Rev /\ r.id \in us /\ r.version <= Cardinality(us)

RowsOK(rs, us) ==
  /\ us \subseteq RevIds /\ IsFiniteSet(rs)
  /\ \A r \in rs : Known(r, us)
  /\ \A r, s \in rs : r.id = s.id => r = s

\* A transaction inserts at most one revision, of its own kind, and none before its
\* insert; what it saw for deletion is of its kind too.
TxOK(x, rs, us) ==
  /\ x.seen \subseteq us
  /\ \A r \in rs : r.id \in x.seen => r.kind = KindOf(x.pc)
  /\ \A r \in x.ins : /\ Known(r, us) /\ r.data = x.data /\ r.kind = KindOf(x.pc)
                      /\ \A s \in rs : r.id # s.id
  /\ \A r, s \in x.ins : r = s
  /\ x.pc \in {"publishVersion", "publishInsert", "autosaveSelect", "autosaveReuse",
               "autosaveVersion", "autosaveInsert"} => x.ins = {}
  /\ x.pc \in {"pruneSelect", "pruneDelete", "autosaveCommit"} => x.ins # {}
  /\ IF x.pc = "publishCommit" THEN x.dels \subseteq x.seen ELSE x.dels = {}
  /\ x.pc \in {"publishInsert", "autosaveInsert"} =>
       x.version \in Nat \ {0} /\ x.version <= Cardinality(us) + 1

\* Nobody knows of an insert before its commit.
Apart(x, y) == \A r \in x.ins : r.id \notin y.seen /\ \A s \in y.ins : r.id # s.id

InRole(j) ==
  /\ job[j].pc \in PublishPcs => j \in may["publish"]
  /\ job[j].pc \in AutosavePcs => j \in may["autosave"]

TxInv ==
  /\ may \in Roles
  /\ RowsOK(revs, used)
  /\ \A j \in Jobs : InRole(j) /\ (InTx(j) => TxOK(job[j], revs, used))
  /\ \A j, k \in Jobs : j # k /\ InTx(j) /\ InTx(k) => Apart(job[j], job[k])

LEMMA UsedFinite ==
  ASSUME NEW us \in SUBSET RevIds, NEW vs \in SUBSET us
  PROVE  /\ IsFiniteSet(us) /\ Cardinality(us) \in Nat
         /\ Cardinality(vs) \in Nat /\ Cardinality(vs) <= Cardinality(us)
<1>1. IsFiniteSet(us)
  BY FiniteAssumption, FS_Subset
<1> QED BY <1>1, FS_Subset, FS_CardinalityType

LEMMA KnownKept ==
  ASSUME NEW us, NEW us2 \in SUBSET RevIds, us \subseteq us2, NEW r, Known(r, us)
  PROVE  Known(r, us2)
<1>1. Cardinality(us) <= Cardinality(us2) /\ Cardinality(us) \in Nat /\ Cardinality(us2) \in Nat
  BY UsedFinite
<1>2. r.version \in Nat
  BY DEF Known, Rev
<1> QED BY <1>1, <1>2 DEF Known

\* Other requests' ids, rows and commits leave a transaction as it is.
LEMMA TxKept ==
  ASSUME NEW x, NEW rs, NEW rs2, NEW us, NEW us2 \in SUBSET RevIds, us \subseteq us2,
         TxOK(x, rs, us),
         \A r \in rs2 : r \in rs \/ (r.id \notin x.seen /\ \A s \in x.ins : r.id # s.id)
  PROVE  TxOK(x, rs2, us2)
<1>1. Cardinality(us) <= Cardinality(us2) /\ Cardinality(us) \in Nat /\ Cardinality(us2) \in Nat
  BY UsedFinite
<1>2. \A r \in x.ins : Known(r, us2)
  BY KnownKept DEF TxOK
<1>3. x.pc \in {"publishInsert", "autosaveInsert"} => x.version <= Cardinality(us2) + 1
  BY <1>1 DEF TxOK
<1> QED BY <1>2, <1>3 DEF TxOK

-----------------------------------------------------------------------------
(* What a step of one request changes *)

\* Request j goes on with these values, its document unchanged; the others wait.
Becomes(j, pc, ins, dels, seen, version) ==
  /\ \A k \in Jobs \ {j} : job'[k] = job[k]
  /\ job'[j].pc = pc /\ job'[j].data = job[j].data
  /\ job'[j].ins = ins /\ job'[j].dels = dels
  /\ job'[j].seen = seen /\ job'[j].version = version

LEMMA Moves ==
  ASSUME Inv, NEW j \in Jobs, NEW y, Goto(j, y)
  PROVE  job'[j] = y /\ \A k \in Jobs \ {j} : job'[k] = job[k]
BY DEF Goto, Inv, JobsTyped

LEMMA ReadBecomes ==
  ASSUME Inv, NEW j \in Jobs, NEW pc \in {"publishVersion", "autosaveSelect"},
         NEW body \in Contents \cup {Nothing}, L!Stored(page),
         Goto(j, At(pc, IF body = Nothing THEN page.draft ELSE body))
  PROVE  /\ \A k \in Jobs \ {j} : job'[k] = job[k]
         /\ job'[j].pc = pc /\ job'[j].data \in Contents
         /\ job'[j].ins = {} /\ job'[j].dels = {} /\ job'[j].seen = {}
BY Moves, StoredRow DEF At

LEMMA VersionBecomes ==
  ASSUME Inv, NEW j \in Jobs, NEW pc \in TxPcs, NEW next, ReadVersion(j, pc, next)
  PROVE  Becomes(j, next, job[j].ins, job[j].dels, job[j].seen,
                 NextRevisionVersion(Visible(j)))
<1>1. TxTyped(job[j])
  BY TxShape DEF ReadVersion
<1> DEFINE n == NextRevisionVersion(Visible(j))
<1>2. Goto(j, [job[j] EXCEPT !.pc = next, !.version = n])
  BY DEF ReadVersion
<1> HIDE DEF n
<1>3. Becomes(j, next, job[j].ins, job[j].dels, job[j].seen, n)
  <2> DEFINE y == [job[j] EXCEPT !.pc = next, !.version = n]
  <2>1. /\ y.pc = next /\ y.data = job[j].data /\ y.ins = job[j].ins
        /\ y.dels = job[j].dels /\ y.seen = job[j].seen /\ y.version = n
    BY <1>1 DEF TxTyped
  <2>2. Goto(j, y)
    BY <1>2
  <2> HIDE DEF y
  <2> QED BY <2>1, <2>2, Moves DEF Becomes
<1> QED BY <1>3 DEF n

\* The row an insert adds.
Inserted(j, kind, id) ==
  [id |-> id, kind |-> kind, version |-> job[j].version, data |-> job[j].data]

LEMMA InsertBecomes ==
  ASSUME Inv, NEW j \in Jobs, NEW kind, NEW pc \in TxPcs, NEW next,
         InsertRevision(j, kind, pc, next)
  PROVE  \E id \in RevIds \ used :
           /\ used' = used \cup {id}
           /\ Becomes(j, next, {Inserted(j, kind, id)}, job[j].dels, job[j].seen,
                      job[j].version)
<1>1. TxTyped(job[j])
  BY TxShape DEF InsertRevision
<1>2. PICK id \in RevIds \ used :
        /\ used' = used \cup {id}
        /\ Goto(j, [job[j] EXCEPT !.pc = next, !.ins = {Inserted(j, kind, id)}])
  BY DEF InsertRevision, Inserted
<1> DEFINE rows == {Inserted(j, kind, id)}
<1> HIDE DEF rows
<1>3. Goto(j, [job[j] EXCEPT !.pc = next, !.ins = rows])
  BY <1>2 DEF rows
<1>4. Becomes(j, next, rows, job[j].dels, job[j].seen, job[j].version)
  <2> DEFINE y == [job[j] EXCEPT !.pc = next, !.ins = rows]
  <2>1. /\ y.pc = next /\ y.data = job[j].data /\ y.ins = rows
        /\ y.dels = job[j].dels /\ y.seen = job[j].seen /\ y.version = job[j].version
    BY <1>1 DEF TxTyped
  <2>2. Goto(j, y)
    BY <1>3
  <2> HIDE DEF y
  <2> QED BY <2>1, <2>2, Moves DEF Becomes
<1> QED BY <1>2, <1>4 DEF rows

LEMMA PruneSelectBecomes ==
  ASSUME Inv, NEW j \in Jobs, PruneSelect(j)
  PROVE  \E kept \in Newest(Prunable(j), Retention[job[j].data]) :
           Becomes(j, "pruneDelete", job[j].ins, job[j].dels, Ids(Prunable(j) \ kept),
                   job[j].version)
<1>1. TxTyped(job[j])
  BY TxShape DEF PruneSelect, TxPcs, PublishPcs
<1>2. PICK kept \in Newest(Prunable(j), Retention[job[j].data]) :
        Goto(j, [job[j] EXCEPT !.pc = "pruneDelete", !.seen = Ids(Prunable(j) \ kept)])
  BY DEF PruneSelect
<1> DEFINE ids == Ids(Prunable(j) \ kept)
<1> HIDE DEF ids
<1>3. Goto(j, [job[j] EXCEPT !.pc = "pruneDelete", !.seen = ids])
  BY <1>2 DEF ids
<1>4. Becomes(j, "pruneDelete", job[j].ins, job[j].dels, ids, job[j].version)
  <2> DEFINE y == [job[j] EXCEPT !.pc = "pruneDelete", !.seen = ids]
  <2>1. /\ y.pc = "pruneDelete" /\ y.data = job[j].data /\ y.ins = job[j].ins
        /\ y.dels = job[j].dels /\ y.seen = ids /\ y.version = job[j].version
    BY <1>1 DEF TxTyped
  <2>2. Goto(j, y)
    BY <1>3
  <2> HIDE DEF y
  <2> QED BY <2>1, <2>2, Moves DEF Becomes
<1> QED BY <1>4 DEF ids

LEMMA PruneDeleteBecomes ==
  ASSUME Inv, NEW j \in Jobs, PruneDelete(j)
  PROVE  Becomes(j, "publishCommit", {r \in job[j].ins : r.id \notin job[j].seen},
                 {r.id : r \in {r \in revs : r.id \in job[j].seen}}, job[j].seen,
                 job[j].version)
<1> DEFINE ids == {r.id : r \in {r \in revs : r.id \in job[j].seen}}
           rows == {r \in job[j].ins : r.id \notin job[j].seen}
<1>1. TxTyped(job[j])
  BY TxShape DEF PruneDelete, TxPcs, PublishPcs
<1>2. Goto(j, [job[j] EXCEPT !.pc = "publishCommit", !.dels = ids, !.ins = rows])
  BY DEF PruneDelete, DeleteSeen
<1> HIDE DEF ids, rows
<1>3. Becomes(j, "publishCommit", rows, ids, job[j].seen, job[j].version)
  <2> DEFINE y == [job[j] EXCEPT !.pc = "publishCommit", !.dels = ids, !.ins = rows]
  <2>1. /\ y.pc = "publishCommit" /\ y.data = job[j].data /\ y.ins = rows
        /\ y.dels = ids /\ y.seen = job[j].seen /\ y.version = job[j].version
    BY <1>1 DEF TxTyped
  <2>2. Goto(j, y)
    BY <1>2
  <2> HIDE DEF y
  <2> QED BY <2>1, <2>2, Moves DEF Becomes
<1> QED BY <1>3 DEF ids, rows

LEMMA AutosaveSelectBecomes ==
  ASSUME Inv, NEW j \in Jobs, AutosaveSelect(j)
  PROVE  \/ \E latest \in Autosaves(revs) :
              Becomes(j, "autosaveReuse", job[j].ins, job[j].dels,
                      Ids(Autosaves(revs) \ {latest}), job[j].version)
         \/ Becomes(j, "autosaveVersion", job[j].ins, job[j].dels, Ids(Autosaves(revs)),
                    job[j].version)
<1>1. TxTyped(job[j])
  BY TxShape DEF AutosaveSelect, TxPcs, AutosavePcs
<1>2. ASSUME NEW pc, NEW ids, Goto(j, [job[j] EXCEPT !.pc = pc, !.seen = ids])
      PROVE  Becomes(j, pc, job[j].ins, job[j].dels, ids, job[j].version)
  <2> DEFINE y == [job[j] EXCEPT !.pc = pc, !.seen = ids]
  <2>1. /\ y.pc = pc /\ y.data = job[j].data /\ y.ins = job[j].ins
        /\ y.dels = job[j].dels /\ y.seen = ids /\ y.version = job[j].version
    BY <1>1 DEF TxTyped
  <2>2. Goto(j, y)
    BY <1>2
  <2> HIDE DEF y
  <2> QED BY <2>1, <2>2, Moves DEF Becomes
<1>3. CASE \E latest \in Autosaves(revs) :
        Goto(j, [job[j] EXCEPT !.pc = "autosaveReuse",
                               !.seen = Ids(Autosaves(revs) \ {latest})])
  BY <1>2, <1>3
<1>4. CASE Goto(j, [job[j] EXCEPT !.pc = "autosaveVersion", !.seen = Ids(Autosaves(revs))])
  BY <1>2, <1>4
<1> QED BY <1>3, <1>4 DEF AutosaveSelect

-----------------------------------------------------------------------------
(* Transactions keep their rows apart *)

\* What a step of one request has to establish.
LEMMA TxStep ==
  ASSUME Inv, TxInv, NEW j \in Jobs, \A k \in Jobs \ {j} : job'[k] = job[k],
         UNCHANGED may, used' \in SUBSET RevIds, used \subseteq used', RowsOK(revs', used'),
         \A k \in Jobs \ {j} : InTx(k) => \A r \in revs' :
           r \in revs \/ (r.id \notin job[k].seen /\ \A s \in job[k].ins : r.id # s.id),
         job'[j].pc \in PublishPcs => j \in may["publish"],
         job'[j].pc \in AutosavePcs => j \in may["autosave"],
         job'[j].pc \in TxPcs =>
           /\ TxOK(job'[j], revs', used')
           /\ \A k \in Jobs \ {j} : InTx(k) => Apart(job'[j], job[k]) /\ Apart(job[k], job'[j])
  PROVE  TxInv'
<1>2. \A k \in Jobs \ {j} : InTx(k) => TxOK(job[k], revs', used')
  BY TxKept DEF TxInv
<1>3. \A k \in Jobs : InRole(k)' /\ (InTx(k)' => TxOK(job'[k], revs', used'))
  BY <1>2 DEF TxInv, InRole, InTx, TxPcs
<1>4. \A i, k \in Jobs : i # k /\ InTx(i)' /\ InTx(k)' => Apart(job'[i], job'[k])
  BY DEF TxInv, InTx, TxPcs
<1> QED BY <1>3, <1>4 DEF TxInv

\* Fewer rows, and nothing new in the transaction.
LEMMA TxQuiet ==
  ASSUME Inv, TxInv, NEW j \in Jobs, \A k \in Jobs \ {j} : job'[k] = job[k],
         UNCHANGED may, used' = used, revs' \subseteq revs, job'[j].pc \notin TxPcs
  PROVE  TxInv'
<1>1. RowsOK(revs', used') /\ used' \in SUBSET RevIds /\ used \subseteq used'
  BY FS_Subset DEF TxInv, RowsOK
<1>2. \A r \in revs' : r \in revs
  OBVIOUS
<1>3. job'[j].pc \notin PublishPcs /\ job'[j].pc \notin AutosavePcs
  BY DEF TxPcs
<1> QED BY <1>1, <1>2, <1>3, TxStep

LEMMA TxRead ==
  ASSUME Inv, TxInv, NEW j \in Jobs, UNCHANGED <<may, revs, used>>, L!Stored(page),
         NEW pc \in {"publishVersion", "autosaveSelect"},
         pc = "publishVersion" => j \in may["publish"],
         pc = "autosaveSelect" => j \in may["autosave"],
         NEW body \in Contents \cup {Nothing},
         Goto(j, At(pc, IF body = Nothing THEN page.draft ELSE body))
  PROVE  TxInv'
<1>1. /\ \A k \in Jobs \ {j} : job'[k] = job[k]
      /\ job'[j].pc = pc /\ job'[j].ins = {} /\ job'[j].dels = {} /\ job'[j].seen = {}
  BY ReadBecomes
<1>2. TxOK(job'[j], revs', used')
  BY <1>1 DEF TxOK
<1>3. \A k \in Jobs : Apart(job'[j], job[k]) /\ Apart(job[k], job'[j])
  BY <1>1 DEF Apart
<1>4. /\ job'[j].pc \in PublishPcs => j \in may["publish"]
      /\ job'[j].pc \in AutosavePcs => j \in may["autosave"]
  BY <1>1 DEF PublishPcs, AutosavePcs
<1>5. RowsOK(revs', used') /\ used' \in SUBSET RevIds
  BY DEF TxInv, RowsOK
<1> QED BY <1>1, <1>2, <1>3, <1>4, <1>5, TxStep

\* max(version) + 1 exists and grows with the number of inserts at most.
LEMMA NextVersion ==
  ASSUME NEW us \in SUBSET RevIds, NEW S, \A r \in S : Known(r, us)
  PROVE  LET v == NextRevisionVersion(S)
         IN  v \in Nat \ {0} /\ v <= Cardinality(us) + 1 /\ \A r \in S : r.version < v
<1> DEFINE U == {n \in Nat \ {0} : \A r \in S : r.version < n}
           OK(v) == /\ \A r \in S : r.version < v
                    /\ v = 1 \/ \E r \in S : r.version = v - 1
<1>1. /\ Cardinality(us) \in Nat /\ Cardinality(RevIds) \in Nat
      /\ Cardinality(us) <= Cardinality(RevIds)
  BY UsedFinite
<1>2. \A r \in S : r.version \in Nat /\ r.version <= Cardinality(us)
  BY DEF Known, Rev
<1>3. Cardinality(us) + 1 \in U
  BY <1>1, <1>2
<1>4. PICK d \in U : \A e \in U : d <= e
  BY <1>3, LeastNat
<1>5. OK(d)
  <2>1. CASE \E r \in S : r.version = d - 1
    BY <2>1, <1>4
  <2>2. CASE d # 1 /\ \A r \in S : r.version # d - 1
    <3>1. d - 1 \in U
      BY <2>2, <1>2, <1>4
    <3> QED BY <3>1, <1>4
  <2> QED BY <2>1, <2>2, <1>4
<1>6. d \in 1..(Cardinality(RevIds) + 1)
  BY <1>1, <1>3, <1>4
<1> DEFINE v == NextRevisionVersion(S)
<1>7. v \in 1..(Cardinality(RevIds) + 1) /\ OK(v)
  BY <1>5, <1>6 DEF NextRevisionVersion
<1> HIDE DEF v
<1>8. v <= Cardinality(us) + 1
  BY <1>7, <1>2, <1>1
<1> QED BY <1>7, <1>8 DEF v

LEMMA TxVersion ==
  ASSUME Inv, TxInv, NEW j \in Jobs, UNCHANGED may, NEW pc, NEW next,
         \/ pc = "publishVersion" /\ next = "publishInsert"
         \/ pc = "autosaveVersion" /\ next = "autosaveInsert",
         ReadVersion(j, pc, next)
  PROVE  TxInv' /\ Becomes(j, next, {}, {}, job[j].seen, NextRevisionVersion(revs))
<1> DEFINE v == NextRevisionVersion(revs)
<1>1. pc \in TxPcs /\ job[j].pc = pc /\ UNCHANGED <<revs, used>>
  BY DEF TxPcs, PublishPcs, AutosavePcs, ReadVersion
<1>2. InTx(j) /\ InRole(j) /\ TxOK(job[j], revs, used)
  BY <1>1 DEF TxInv, InTx, TxPcs
<1>3. job[j].ins = {} /\ job[j].dels = {}
  BY <1>1, <1>2 DEF TxOK
<1>4. Visible(j) = revs
  BY <1>3 DEF Visible
<1>5. Becomes(j, next, {}, {}, job[j].seen, v)
  BY <1>1, <1>3, <1>4, VersionBecomes
<1>6. v \in Nat \ {0} /\ v <= Cardinality(used) + 1
  BY NextVersion DEF TxInv, RowsOK
<1> HIDE DEF v
<1>7. TxOK(job'[j], revs', used')
  BY <1>1, <1>2, <1>5, <1>6 DEF TxOK, Becomes, KindOf, PublishPcs
<1>8. \A k \in Jobs \ {j} : InTx(k) => Apart(job'[j], job[k]) /\ Apart(job[k], job'[j])
  BY <1>2, <1>3, <1>5 DEF TxInv, Apart, Becomes
<1>9. /\ job'[j].pc \in PublishPcs => j \in may["publish"]
      /\ job'[j].pc \in AutosavePcs => j \in may["autosave"]
  BY <1>1, <1>2, <1>5 DEF Becomes, InRole, PublishPcs, AutosavePcs
<1>10. RowsOK(revs', used') /\ used' \in SUBSET RevIds /\ used \subseteq used'
  BY <1>1 DEF TxInv, RowsOK
<1>11. TxInv'
  BY <1>1, <1>5, <1>7, <1>8, <1>9, <1>10, TxStep DEF Becomes
<1> QED BY <1>5, <1>11 DEF v

LEMMA TxInsert ==
  ASSUME Inv, TxInv, NEW j \in Jobs, UNCHANGED may, NEW kind, NEW pc, NEW next,
         \/ pc = "publishInsert" /\ next = "pruneSelect" /\ kind = "publish"
         \/ pc = "autosaveInsert" /\ next = "autosaveCommit" /\ kind = "autosave",
         InsertRevision(j, kind, pc, next)
  PROVE  /\ TxInv' /\ UNCHANGED <<page, revs>>
         /\ \E id \in RevIds \ used :
              Becomes(j, next, {Inserted(j, kind, id)}, {}, job[j].seen, job[j].version)
<1>1. pc \in TxPcs /\ job[j].pc = pc /\ UNCHANGED <<page, revs>>
  BY DEF TxPcs, PublishPcs, AutosavePcs, InsertRevision
<1>2. InTx(j) /\ InRole(j) /\ TxOK(job[j], revs, used)
  BY <1>1 DEF TxInv, InTx, TxPcs
<1>3. /\ job[j].ins = {} /\ job[j].dels = {}
      /\ job[j].version \in Nat \ {0} /\ job[j].version <= Cardinality(used) + 1
  BY <1>1, <1>2 DEF TxOK
<1>4. PICK id \in RevIds \ used :
        /\ used' = used \cup {id}
        /\ Becomes(j, next, {Inserted(j, kind, id)}, job[j].dels, job[j].seen, job[j].version)
  BY <1>1, InsertBecomes
<1> DEFINE new == Inserted(j, kind, id)
<1>5. /\ used' \in SUBSET RevIds /\ used \subseteq used' /\ used \in SUBSET RevIds
      /\ Cardinality(used') = Cardinality(used) + 1
  BY <1>4, UsedFinite, FS_AddElement DEF TxInv, RowsOK
<1>6. job[j].data \in Contents
  BY <1>1, TxShape
<1>7. Known(new, used') /\ new.id = id /\ new.data = job[j].data /\ new.kind = kind
  BY <1>3, <1>4, <1>5, <1>6 DEF Inserted, Known, Rev, Kinds
<1>8. Becomes(j, next, {new}, {}, job[j].seen, job[j].version)
  BY <1>3, <1>4
<1> HIDE DEF new
<1>9. \A r \in revs : Known(r, used) /\ r.id \in used /\ r.id # id
  BY DEF TxInv, RowsOK, Known
<1>10. RowsOK(revs', used')
  BY <1>1, <1>5, <1>9, KnownKept DEF TxInv, RowsOK
<1>11. TxOK(job'[j], revs', used')
  BY <1>1, <1>2, <1>5, <1>7, <1>8, <1>9 DEF TxOK, Becomes, KindOf, PublishPcs
<1>12. ASSUME NEW k \in Jobs \ {j}, InTx(k)
       PROVE  Apart(job'[j], job[k]) /\ Apart(job[k], job'[j])
  <2>1. TxOK(job[k], revs, used) /\ Apart(job[k], job[j])
    BY <1>2, <1>12 DEF TxInv
  <2>2. job[k].seen \subseteq used /\ \A s \in job[k].ins : s.id \in used
    BY <2>1 DEF TxOK, Known
  <2> QED BY <1>7, <1>8, <2>1, <2>2 DEF Apart, Becomes
<1>13. /\ job'[j].pc \in PublishPcs => j \in may["publish"]
       /\ job'[j].pc \in AutosavePcs => j \in may["autosave"]
  BY <1>1, <1>2, <1>8 DEF Becomes, InRole, PublishPcs, AutosavePcs
<1>14. TxInv'
  BY <1>1, <1>5, <1>8, <1>10, <1>11, <1>12, <1>13, TxStep DEF Becomes
<1> QED BY <1>1, <1>8, <1>14 DEF new

\* What a SELECT for deletion may return.
LEMMA TxSeen ==
  ASSUME Inv, TxInv, NEW j \in Jobs, InTx(j), UNCHANGED <<may, revs, used>>,
         NEW pc, NEW S, S \subseteq revs \cup job[j].ins, \A r \in S : r.kind = KindOf(pc),
         \/ job[j].pc = "pruneSelect" /\ pc = "pruneDelete"
         \/ job[j].pc = "autosaveSelect" /\ pc \in {"autosaveReuse", "autosaveVersion"},
         Becomes(j, pc, job[j].ins, job[j].dels, Ids(S), job[j].version)
  PROVE  TxInv'
<1>1. InRole(j) /\ TxOK(job[j], revs, used)
  BY DEF TxInv
<1>2. \A r \in S : r.id \in used
  BY <1>1 DEF TxInv, RowsOK, TxOK, Known
<1>3. \A r \in revs : r.id \in Ids(S) => r.kind = KindOf(pc)
  BY <1>1 DEF TxInv, RowsOK, TxOK, Ids
<1>4. KindOf(pc) = KindOf(job[j].pc)
  BY DEF KindOf, PublishPcs
<1>5. TxOK(job'[j], revs', used')
  BY <1>1, <1>2, <1>3, <1>4 DEF TxOK, Becomes, Ids
<1>6. ASSUME NEW k \in Jobs \ {j}, InTx(k)
      PROVE  Apart(job'[j], job[k]) /\ Apart(job[k], job'[j])
  <2>1. TxOK(job[k], revs, used) /\ Apart(job[k], job[j]) /\ Apart(job[j], job[k])
    BY <1>6 DEF TxInv
  <2>2. \A r \in job[k].ins, s \in S : r.id # s.id
    BY <2>1 DEF TxOK, Apart
  <2> QED BY <2>1, <2>2 DEF Apart, Becomes, Ids
<1>7. /\ job'[j].pc \in PublishPcs => j \in may["publish"]
      /\ job'[j].pc \in AutosavePcs => j \in may["autosave"]
  BY <1>1 DEF Becomes, InRole, PublishPcs, AutosavePcs
<1>8. RowsOK(revs', used') /\ used' \in SUBSET RevIds
  BY DEF TxInv, RowsOK
<1> QED BY <1>5, <1>6, <1>7, <1>8, TxStep DEF Becomes

LEMMA TxPruneSelect ==
  ASSUME Inv, TxInv, NEW j \in Jobs, UNCHANGED may, PruneSelect(j) PROVE TxInv'
<1>1. PICK kept \in Newest(Prunable(j), Retention[job[j].data]) :
        Becomes(j, "pruneDelete", job[j].ins, job[j].dels, Ids(Prunable(j) \ kept),
                job[j].version)
  BY PruneSelectBecomes
<1>2. InTx(j) /\ job[j].pc = "pruneSelect" /\ UNCHANGED <<revs, used>>
  BY DEF PruneSelect, InTx, PublishPcs
<1>3. /\ Prunable(j) \ kept \subseteq revs \cup job[j].ins
      /\ \A r \in Prunable(j) \ kept : r.kind = KindOf("pruneDelete")
  BY DEF Prunable, OfKind, Visible, KindOf, PublishPcs
<1> QED BY <1>1, <1>2, <1>3, TxSeen

LEMMA TxPruneDelete ==
  ASSUME Inv, TxInv, NEW j \in Jobs, UNCHANGED may, PruneDelete(j) PROVE TxInv'
<1>1. /\ InTx(j) /\ job[j].pc = "pruneDelete" /\ UNCHANGED <<revs, used>>
      /\ Becomes(j, "publishCommit", {r \in job[j].ins : r.id \notin job[j].seen},
                 {r.id : r \in {r \in revs : r.id \in job[j].seen}}, job[j].seen,
                 job[j].version)
  BY PruneDeleteBecomes DEF PruneDelete, InTx, PublishPcs
<1>2. InRole(j) /\ TxOK(job[j], revs, used)
  BY <1>1 DEF TxInv
<1>3. TxOK(job'[j], revs', used')
  BY <1>1, <1>2 DEF TxOK, Becomes, KindOf, PublishPcs
<1>4. \A k \in Jobs \ {j} : InTx(k) => Apart(job'[j], job[k]) /\ Apart(job[k], job'[j])
  BY <1>1 DEF TxInv, Apart, Becomes
<1>5. /\ job'[j].pc \in PublishPcs => j \in may["publish"]
      /\ job'[j].pc \in AutosavePcs => j \in may["autosave"]
  BY <1>1, <1>2 DEF Becomes, InRole, PublishPcs, AutosavePcs
<1>6. RowsOK(revs', used') /\ used' \in SUBSET RevIds
  BY <1>1 DEF TxInv, RowsOK
<1> QED BY <1>1, <1>3, <1>4, <1>5, <1>6, TxStep DEF Becomes

LEMMA TxAutosaveSelect ==
  ASSUME Inv, TxInv, NEW j \in Jobs, UNCHANGED may, AutosaveSelect(j) PROVE TxInv'
<1>1. PICK pc \in {"autosaveReuse", "autosaveVersion"}, S \in SUBSET Autosaves(revs) :
        Becomes(j, pc, job[j].ins, job[j].dels, Ids(S), job[j].version)
  <2>1. \A latest : Autosaves(revs) \ {latest} \in SUBSET Autosaves(revs)
    OBVIOUS
  <2> QED BY <2>1, AutosaveSelectBecomes
<1>2. InTx(j) /\ job[j].pc = "autosaveSelect" /\ UNCHANGED <<revs, used>>
  BY DEF AutosaveSelect, InTx, AutosavePcs
<1>3. S \subseteq revs \cup job[j].ins /\ \A r \in S : r.kind = KindOf(pc)
  BY DEF Autosaves, OfKind, KindOf, PublishPcs
<1> QED BY <1>1, <1>2, <1>3, TxSeen

\* A commit: only the transaction's own row is new.
LEMMA TxCommit ==
  ASSUME Inv, TxInv, NEW j \in Jobs, InTx(j), UNCHANGED <<may, used>>, Goto(j, Idle),
         revs' \subseteq revs \cup job[j].ins
  PROVE  TxInv'
<1>1. TxOK(job[j], revs, used)
  BY DEF TxInv
<1>2. IsFiniteSet(revs \cup job[j].ins)
  <2>1. CASE job[j].ins = {}
    BY <2>1, FS_EmptySet, FS_Union DEF TxInv, RowsOK
  <2>2. ASSUME NEW r \in job[j].ins PROVE IsFiniteSet(revs \cup job[j].ins)
    <3>1. job[j].ins = {r}
      BY <1>1, <2>2 DEF TxOK
    <3> QED BY <3>1, FS_AddElement DEF TxInv, RowsOK
  <2> QED BY <2>1, <2>2
<1>3. RowsOK(revs', used')
  BY <1>1, <1>2, FS_Subset DEF TxInv, RowsOK, TxOK
<1>4. \A k \in Jobs \ {j} : InTx(k) => \A r \in revs' :
        r \in revs \/ (r.id \notin job[k].seen /\ \A s \in job[k].ins : r.id # s.id)
  BY DEF TxInv, Apart
<1>5. job'[j] = Idle /\ \A k \in Jobs \ {j} : job'[k] = job[k]
  BY Moves
<1>6. job'[j].pc \notin PublishPcs /\ job'[j].pc \notin AutosavePcs /\ job'[j].pc \notin TxPcs
  BY <1>5 DEF Idle, PublishPcs, AutosavePcs, TxPcs
<1>7. used' \in SUBSET RevIds
  BY DEF TxInv, RowsOK
<1> QED BY <1>3, <1>4, <1>5, <1>6, <1>7, TxStep

LEMMA TxSameJobs ==
  ASSUME TxInv, UNCHANGED <<may, used, job>>, revs' \subseteq revs PROVE TxInv'
<1>1. RowsOK(revs', used')
  BY FS_Subset DEF TxInv, RowsOK
<1>2. \A k \in Jobs : InTx(k) => TxOK(job[k], revs', used')
  BY TxKept DEF TxInv, RowsOK
<1> QED BY <1>1, <1>2 DEF TxInv, InRole, InTx

LEMMA TxInit == Init => TxInv
<1> SUFFICES ASSUME Init PROVE TxInv
  OBVIOUS
<1>1. RowsOK(revs, used)
  BY FS_EmptySet DEF Init, RowsOK
<1>2. \A j \in Jobs : InRole(j) /\ ~InTx(j)
  BY DEF Init, InRole, InTx, Idle, PublishPcs, AutosavePcs
<1> QED BY <1>1, <1>2 DEF Init, TxInv

LEMMA TxNext ==
  ASSUME Inv, TxInv, [Next]_vars PROVE TxInv'
<1>1. CASE CreatePage /\ UNCHANGED may
  BY <1>1, TxSameJobs DEF CreatePage
<1>2. ASSUME NEW j \in Jobs, Statement(j), UNCHANGED may PROVE TxInv'
  BY <1>2, TxSameJobs DEF Statement, UpdatePage, UnpublishPage, DeletePage
<1>3. ASSUME NEW j \in Jobs, PublishPage(j), UNCHANGED may PROVE TxInv'
  <2>1. CASE PublishRead(j)
    BY <1>3, <2>1, TxRead DEF PublishRead
  <2>2. CASE PublishVersion(j)
    BY <1>3, <2>2, TxVersion DEF PublishVersion
  <2>3. CASE PublishInsert(j)
    BY <1>3, <2>3, TxInsert DEF PublishInsert
  <2>4. CASE PruneSelect(j)
    BY <1>3, <2>4, TxPruneSelect
  <2>5. CASE PruneDelete(j)
    BY <1>3, <2>5, TxPruneDelete
  <2>6. CASE PublishCommit(j)
    BY <1>3, <2>6, TxCommit DEF PublishCommit, Commit, InTx, PublishPcs
  <2> QED BY <1>3, <2>1, <2>2, <2>3, <2>4, <2>5, <2>6 DEF PublishPage
<1>4. ASSUME NEW j \in Jobs, AutosavePage(j), UNCHANGED may PROVE TxInv'
  <2>1. CASE AutosaveRead(j)
    BY <1>4, <2>1, TxRead DEF AutosaveRead
  <2>2. CASE AutosaveSelect(j)
    BY <1>4, <2>2, TxAutosaveSelect
  <2>3. CASE AutosaveReuse(j) \/ AutosaveCommit(j)
    BY <1>4, <2>3, TxCommit DEF AutosaveReuse, AutosaveCommit, AutosaveDone, InTx, AutosavePcs
  <2>4. CASE AutosaveVersion(j)
    BY <1>4, <2>4, TxVersion DEF AutosaveVersion
  <2>5. CASE AutosaveInsert(j)
    BY <1>4, <2>5, TxInsert DEF AutosaveInsert
  <2> QED BY <1>4, <2>1, <2>2, <2>3, <2>4, <2>5 DEF AutosavePage
<1>5. ASSUME NEW j \in Jobs, NEW y, Goto(j, y), y.pc \notin TxPcs, UNCHANGED <<may, used>>,
             revs' \subseteq revs
      PROVE  TxInv'
  BY <1>5, Moves, TxQuiet
<1>6. "idle" \notin TxPcs /\ {"restoreSelect", "restoreUpdate", "discardDelete"} \cap TxPcs = {}
  BY DEF TxPcs, PublishPcs, AutosavePcs
<1>7. ASSUME NEW j \in Jobs, RestoreRevision(j), UNCHANGED may PROVE TxInv'
  <2>1. /\ UNCHANGED <<may, used>> /\ revs' = revs
        /\ \E y : Goto(j, y) /\ y.pc \in {"idle", "restoreSelect", "restoreUpdate"}
    <3>1. CASE RestoreRead(j)
      <4>1. PICK id \in used :
              Goto(j, [pc |-> "restoreSelect", id |-> id, draft |-> page.draft])
        BY <3>1 DEF RestoreRead
      <4>2. [pc |-> "restoreSelect", id |-> id, draft |-> page.draft].pc = "restoreSelect"
        OBVIOUS
      <4> QED BY <1>7, <3>1, <4>1, <4>2, Zenon DEF RestoreRead
    <3>2. CASE RestoreSelect(j)
      <4>1. \A d : [pc |-> "restoreUpdate", data |-> d].pc = "restoreUpdate"
        OBVIOUS
      <4>2. Idle.pc = "idle"
        BY DEF Idle
      <4>3. \E y : Goto(j, y) /\ y.pc \in {"idle", "restoreUpdate"}
        BY <3>2, <4>1, <4>2, Zenon DEF RestoreSelect
      <4> QED BY <1>7, <3>2, <4>3 DEF RestoreSelect
    <3>3. CASE RestoreUpdate(j)
      BY <1>7, <3>3 DEF RestoreUpdate, Idle
    <3> QED BY <1>7, <3>1, <3>2, <3>3 DEF RestoreRevision
  <2> QED BY <1>5, <1>6, <2>1
<1>8. ASSUME NEW j \in Jobs, DiscardRevision(j), UNCHANGED may PROVE TxInv'
  <2>1. CASE DiscardSelect(j)
    <3>1. \A id : [pc |-> "discardDelete", id |-> id].pc = "discardDelete"
      OBVIOUS
    <3>2. \E y : Goto(j, y) /\ y.pc = "discardDelete"
      BY <2>1, <3>1, Zenon DEF DiscardSelect
    <3> QED BY <1>5, <1>6, <1>8, <2>1, <3>2 DEF DiscardSelect
  <2>2. CASE DiscardDelete(j)
    BY <1>5, <1>6, <1>8, <2>2 DEF DiscardDelete, Idle
  <2> QED BY <1>8, <2>1, <2>2 DEF DiscardRevision
<1>9. ASSUME NEW j \in Jobs, Rollback(j), UNCHANGED may PROVE TxInv'
  BY <1>5, <1>6, <1>9 DEF Rollback, Idle
<1>10. CASE UNCHANGED vars
  BY <1>10, TxSameJobs DEF vars
<1> QED BY <1>1, <1>2, <1>3, <1>4, <1>7, <1>8, <1>9, <1>10 DEF Next

-----------------------------------------------------------------------------
(* Publishes *)

\* The publish revisions left when the prune of x is committed now.
Left(x, rs) ==
  {r \in OfKind(rs, "publish") : r.id \notin (IF x.pc = "pruneDelete" THEN x.seen ELSE x.dels)}
    \cup {r \in x.ins : x.pc = "pruneDelete" => r.id \notin x.seen}

Publishers == may["publish"]
Pruning == {j \in Publishers : job[j].pc \in {"pruneDelete", "publishCommit"}}
PublishWeight == [j \in Publishers |-> Cardinality(Left(job[j], revs))]

PublishCount ==
  /\ \E G \in [Publishers -> SUBSET Publishers] :
       Ledger(Publishers, Pruning, PublishWeight, MaxRetention, G)
  /\ Cardinality(Publishes) <= MaxRetention + Cardinality(Publishers) - 1
  /\ OneAtATime("publish") =>
       /\ \A j \in Pruning : Cardinality(Left(job[j], revs)) <= Retention[job[j].data]
       /\ L!Stored(page) /\ page.live # Nothing => Cardinality(Publishes) <= Retention[page.live]

LEMMA MaxRetentionBounds ==
  /\ MaxRetention \in Nat \ {0}
  /\ \A c \in Contents : Retention[c] \in Nat /\ Retention[c] <= MaxRetention
<1> DEFINE R == {Retention[c] : c \in Contents}
           U == {n \in Nat : \E c \in Contents : Retention[c] = 100 - n}
<1>1. \A c \in Contents : Retention[c] \in 1..100
  BY RetentionAssumption
<1>2. U # {}
  <2>1. PICK c \in Contents : TRUE
    BY ContentsAssumption
  <2> DEFINE n == 100 - Retention[c]
  <2>2. Retention[c] \in 1..100
    BY <1>1
  <2>3. n \in Nat /\ Retention[c] = 100 - n
    BY <2>2
  <2> QED BY <2>3
<1>3. PICK n \in U : \A m \in U : n <= m
  BY <1>2, LeastNat
<1>4. \A c \in Contents : Retention[c] <= 100 - n
  <2>1. ASSUME NEW c \in Contents PROVE Retention[c] <= 100 - n
    <3>1. Retention[c] \in 1..100 /\ Retention[c] = 100 - (100 - Retention[c])
      BY <1>1
    <3>2. 100 - Retention[c] \in U
      BY <3>1
    <3> QED BY <1>3, <3>1, <3>2
  <2> QED BY <2>1
<1>5. MaxRetention \in R /\ \A c \in Contents : Retention[c] <= MaxRetention
  BY <1>3, <1>4 DEF MaxRetention
<1> QED BY <1>1, <1>5

LEMMA PublishersFinite ==
  ASSUME TxInv
  PROVE  /\ Publishers \subseteq Jobs /\ IsFiniteSet(Publishers)
         /\ Cardinality(Publishers) \in Nat /\ Pruning \subseteq Publishers
<1>1. Publishers \in SUBSET Jobs
  BY RolesAssumption DEF TxInv, Publishers, Doings
<1> QED BY <1>1, FiniteAssumption, FS_Subset, FS_CardinalityType DEF Pruning

LEMMA PublishesFinite ==
  ASSUME TxInv
  PROVE  IsFiniteSet(Publishes) /\ Cardinality(Publishes) \in Nat
<1>1. Publishes \in SUBSET revs
  BY DEF Publishes, OfKind
<1> QED BY <1>1, FS_Subset, FS_CardinalityType DEF TxInv, RowsOK

\* A transaction's own row is alone.
LEMMA InsFinite ==
  ASSUME TxInv, NEW k \in Jobs, InTx(k)
  PROVE  job[k].ins = {} \/ \E r : job[k].ins = {r}
<1>1. \A r, s \in job[k].ins : r = s
  BY DEF TxInv, TxOK
<1>2. ASSUME NEW r \in job[k].ins PROVE job[k].ins = {r}
  BY <1>1
<1> QED BY <1>2

LEMMA LeftFinite ==
  ASSUME TxInv, NEW k \in Pruning
  PROVE  IsFiniteSet(Left(job[k], revs)) /\ Cardinality(Left(job[k], revs)) \in Nat
<1>1. k \in Jobs /\ InTx(k)
  BY PublishersFinite DEF Pruning, InTx, PublishPcs
<1>2. IsFiniteSet(Publishes \cup job[k].ins)
  <2>1. CASE job[k].ins = {}
    BY <2>1, PublishesFinite, FS_Union, FS_EmptySet
  <2>2. ASSUME NEW r, job[k].ins = {r} PROVE IsFiniteSet(Publishes \cup job[k].ins)
    BY <2>2, PublishesFinite, FS_AddElement
  <2> QED BY <1>1, <2>1, <2>2, InsFinite
<1>3. Left(job[k], revs) \in SUBSET (Publishes \cup job[k].ins)
  BY DEF Left, Publishes
<1> QED BY <1>2, <1>3, FS_Subset, FS_CardinalityType

LEMMA PruningTyped ==
  ASSUME Inv, TxInv, NEW k \in Pruning
  PROVE  /\ k \in Jobs /\ InTx(k) /\ TxTyped(job[k]) /\ job[k].data \in Contents
         /\ page # L!Gone /\ L!Stored(page)
<1>1. k \in Jobs /\ job[k].pc \in TxPcs /\ HoldsPage(k)
  BY PublishersFinite DEF Pruning, TxPcs, PublishPcs, HoldsPage
<1> QED BY <1>1, TxShape DEF InTx, TxPcs, Inv, PageHeld, L!Stored

LEMMA PublishShrinks ==
  ASSUME Inv, TxInv, TxInv', PublishCount, UNCHANGED may, Publishes' \subseteq Publishes,
         \A k \in Pruning' : /\ k \in Pruning /\ job'[k].data = job[k].data
                             /\ Left(job'[k], revs') \subseteq Left(job[k], revs),
         L!Stored(page)' /\ page'.live # Nothing => L!Stored(page) /\ page'.live = page.live
  PROVE  PublishCount'
<1> DEFINE w == PublishWeight
           w2 == PublishWeight'
           R == Pruning'
<1>1. Publishers' = Publishers /\ R \in SUBSET Pruning
  BY DEF Publishers
<1>2. PICK G \in [Publishers -> SUBSET Publishers] :
        Ledger(Publishers, Pruning, PublishWeight, MaxRetention, G)
  BY DEF PublishCount
<1>3. \A k \in R : /\ Cardinality(Left(job'[k], revs')) \in Nat
                   /\ Cardinality(Left(job[k], revs)) \in Nat
                   /\ Cardinality(Left(job'[k], revs')) <= Cardinality(Left(job[k], revs))
  BY LeftFinite, <1>1, FS_Subset, FS_CardinalityType
<1>4. \A k \in R : w2[k] \in Nat /\ w2[k] <= w[k]
  BY <1>1, <1>3, PublishersFinite DEF PublishWeight
<1> HIDE DEF w, w2, R
<1>5. Ledger(Publishers, R, w2, MaxRetention, G)
  BY <1>1, <1>2, <1>4, PublishersFinite, LedgerShrinks, MaxRetentionBounds DEF w
<1>6. \E H \in [Publishers -> SUBSET Publishers]' :
        Ledger(Publishers, Pruning, PublishWeight, MaxRetention, H)'
  BY <1>1, <1>5 DEF w2, R
<1>7. Cardinality(Publishes') <= Cardinality(Publishes)
  BY PublishesFinite, FS_Subset DEF Publishers
<1>8. /\ Cardinality(Publishes) \in Nat /\ Cardinality(Publishes') \in Nat
      /\ Cardinality(Publishers) \in Nat /\ MaxRetention \in Nat
  BY PublishesFinite, PublishersFinite, MaxRetentionBounds, FS_Subset, FS_CardinalityType
<1>9. Cardinality(Publishes') <= MaxRetention + Cardinality(Publishers') - 1
  BY <1>1, <1>7, <1>8 DEF PublishCount
<1>10. ASSUME OneAtATime("publish")'
       PROVE  /\ \A k \in Pruning' :
                   Cardinality(Left(job'[k], revs')) <= Retention[job'[k].data]
              /\ L!Stored(page)' /\ page'.live # Nothing =>
                   Cardinality(Publishes') <= Retention[page'.live]
  <2>1. OneAtATime("publish")
    BY <1>10 DEF OneAtATime
  <2>2. ASSUME NEW k \in R
        PROVE  Cardinality(Left(job'[k], revs')) <= Retention[job'[k].data]
    <3>1. Cardinality(Left(job[k], revs)) <= Retention[job[k].data]
      BY <1>1, <2>1 DEF PublishCount
    <3>2. job'[k].data = job[k].data /\ k \in Jobs /\ job[k].data \in Contents
      BY <1>1, PruningTyped DEF R
    <3> QED BY <1>3, <3>1, <3>2, MaxRetentionBounds
  <2>3. ASSUME L!Stored(page)', page'.live # Nothing
        PROVE  Cardinality(Publishes') <= Retention[page'.live]
    <3>1. Cardinality(Publishes) <= Retention[page.live] /\ page'.live = page.live
      BY <2>1, <2>3 DEF PublishCount
    <3>2. page.live \in Contents
      BY <2>3, StoredRow DEF L!Row
    <3> QED BY <1>7, <1>8, <3>1, <3>2, MaxRetentionBounds
  <2> QED BY <2>2, <2>3 DEF R
<1> QED BY <1>6, <1>9, <1>10 DEF PublishCount

LEMMA NewestBounded ==
  ASSUME NEW S, IsFiniteSet(S), NEW keep \in Nat, NEW kept \in Newest(S, keep)
  PROVE  kept \subseteq S /\ IsFiniteSet(kept) /\ Cardinality(kept) <= keep
<1>1. kept \in SUBSET S
  BY DEF Newest
<1>2. Cardinality(kept) = IF Cardinality(S) < keep THEN Cardinality(S) ELSE keep
  BY DEF Newest
<1> QED BY <1>1, <1>2, FS_Subset, FS_CardinalityType

\* At the SELECT of its prune a transaction sees what is committed and its own row.
LEMMA PruneSees ==
  ASSUME Inv, TxInv, NEW j \in Jobs, job[j].pc = "pruneSelect"
  PROVE  /\ InTx(j) /\ TxOK(job[j], revs, used) /\ j \in Publishers
         /\ job[j].dels = {} /\ job[j].data \in Contents
         /\ Prunable(j) = Publishes \cup job[j].ins /\ IsFiniteSet(Prunable(j))
<1>1. InTx(j) /\ job[j].pc \in TxPcs /\ job[j].pc \in PublishPcs
  BY DEF InTx, TxPcs, PublishPcs
<1>2. TxOK(job[j], revs, used) /\ j \in Publishers
  BY <1>1 DEF TxInv, InRole, Publishers
<1>3. job[j].dels = {} /\ \A r \in job[j].ins : r.kind = "publish"
  BY <1>2 DEF TxOK, KindOf, PublishPcs
<1>4. Prunable(j) = Publishes \cup job[j].ins
  BY <1>3 DEF Prunable, Visible, OfKind, Publishes
<1>5. IsFiniteSet(Prunable(j))
  BY <1>1, <1>4, InsFinite, PublishesFinite, OneMore
<1> QED BY <1>1, <1>2, <1>3, <1>4, <1>5, TxShape

LEMMA PublishEnters ==
  ASSUME Inv, TxInv, PublishCount, NEW j \in Jobs, PruneSelect(j), UNCHANGED may
  PROVE  PublishCount'
<1>1. PICK kept \in Newest(Prunable(j), Retention[job[j].data]) :
        Becomes(j, "pruneDelete", job[j].ins, job[j].dels, Ids(Prunable(j) \ kept),
                job[j].version)
  BY PruneSelectBecomes
<1>2. job[j].pc = "pruneSelect" /\ UNCHANGED <<page, revs, used>>
  BY DEF PruneSelect
<1>3. Retention[job[j].data] \in Nat /\ Retention[job[j].data] <= MaxRetention
  BY <1>2, PruneSees, MaxRetentionBounds
<1>4. /\ kept \subseteq Prunable(j) /\ IsFiniteSet(kept)
      /\ Cardinality(kept) <= Retention[job[j].data]
  BY <1>2, <1>3, PruneSees, NewestBounded
<1>5. Left(job'[j], revs') \subseteq kept
  <2>1. /\ job'[j].pc = "pruneDelete" /\ job'[j].ins = job[j].ins
        /\ \A r \in Prunable(j) : r \notin kept => r.id \in job'[j].seen
    BY <1>1 DEF Becomes, Ids
  <2>2. OfKind(revs', "publish") \subseteq Prunable(j) /\ job[j].ins \subseteq Prunable(j)
    BY <1>2, PruneSees DEF Publishes
  <2> QED BY <2>1, <2>2 DEF Left
<1>6. /\ Cardinality(Left(job'[j], revs')) \in Nat
      /\ Cardinality(Left(job'[j], revs')) <= Retention[job[j].data]
  BY <1>3, <1>4, <1>5, FS_Subset, FS_CardinalityType
<1> DEFINE w == PublishWeight
           w2 == PublishWeight'
           R == Pruning'
<1>7. /\ Publishers' = Publishers /\ R \in SUBSET (Pruning \cup {j}) /\ j \in Publishers
      /\ j \notin Pruning /\ \A q \in R \ {j} : job'[q] = job[q] /\ q \in Pruning
  BY <1>1, <1>2, PruneSees, PublishersFinite DEF Becomes, Pruning, Publishers
<1>8. PICK G \in [Publishers -> SUBSET Publishers] :
        Ledger(Publishers, Pruning, PublishWeight, MaxRetention, G)
  BY DEF PublishCount
<1>9. w2[j] \in Nat /\ w2[j] <= MaxRetention
  BY <1>3, <1>6, <1>7, MaxRetentionBounds DEF PublishWeight
<1>10. \A q \in R \ {j} : w2[q] \in Nat /\ w2[q] <= w[q]
  <2>1. \A q \in R \ {j} : q \in Publishers /\ w2[q] = w[q] /\ w[q] \in Nat
    BY <1>2, <1>7, LeftFinite, PublishersFinite DEF PublishWeight
  <2> QED BY <2>1
<1> HIDE DEF w, w2, R
<1>11. \E H \in [Publishers -> SUBSET Publishers] :
         Ledger(Publishers, R, w2, MaxRetention, H)
  <2>1. Ledger(Publishers, Pruning, w, MaxRetention, G)
    BY <1>8 DEF w
  <2>2. MaxRetention \in Nat /\ IsFiniteSet(Publishers) /\ Pruning \subseteq Publishers
    BY PublishersFinite, MaxRetentionBounds
  <2>3. R \in SUBSET (Pruning \cup {j}) /\ j \in Publishers
    BY <1>7
  <2> QED BY <1>9, <1>10, <2>1, <2>2, <2>3, LedgerEnters, Zenon
<1>12. \E H \in [Publishers -> SUBSET Publishers]' :
         Ledger(Publishers, Pruning, PublishWeight, MaxRetention, H)'
  BY <1>7, <1>11 DEF w2, R
<1>13. Publishes' = Publishes
  BY <1>2 DEF Publishes
<1>14. OneAtATime("publish")' =>
         \A q \in R : Cardinality(Left(job'[q], revs')) <= Retention[job'[q].data]
  BY <1>1, <1>2, <1>6, <1>7 DEF OneAtATime, Becomes, PublishCount
<1>15. OneAtATime("publish")' /\ L!Stored(page)' /\ page'.live # Nothing =>
         Cardinality(Publishes') <= Retention[page'.live]
  BY <1>2, <1>13 DEF PublishCount, OneAtATime
<1> QED BY <1>7, <1>12, <1>13, <1>14, <1>15 DEF PublishCount, R

LEMMA PublishCommits ==
  ASSUME Inv, TxInv, PublishCount, NEW j \in Jobs, PublishCommit(j), UNCHANGED may
  PROVE  PublishCount' /\ Publishes' = Left(job[j], revs)
<1>1. /\ job[j].pc = "publishCommit" /\ used' = used
      /\ page' = [status |-> "published", draft |-> job[j].data, live |-> job[j].data]
      /\ revs' = {r \in revs : r.id \notin job[j].dels} \cup job[j].ins
      /\ job'[j] = Idle /\ \A k \in Jobs \ {j} : job'[k] = job[k]
  BY Moves DEF PublishCommit, Commit
<1>2. InTx(j) /\ job[j].pc \in PublishPcs
  BY <1>1 DEF InTx, PublishPcs
<1>3. j \in Pruning /\ TxOK(job[j], revs, used)
  BY <1>1, <1>2 DEF TxInv, InRole, Pruning, Publishers
<1>4. \A r \in job[j].ins : r.kind = "publish"
  BY <1>2, <1>3 DEF TxOK, KindOf
<1>5. Publishes' = Left(job[j], revs)
  BY <1>1, <1>4 DEF Publishes, OfKind, Left
<1> DEFINE w == PublishWeight
           w2 == PublishWeight'
           R == Pruning'
<1>6. /\ Publishers' = Publishers /\ R \in SUBSET (Pruning \ {j})
      /\ \A q \in R : q \in Jobs /\ q \in Publishers /\ job'[q] = job[q] /\ InTx(q)
  BY <1>1, PublishersFinite DEF Pruning, Publishers, Idle, InTx, PublishPcs
<1>7. ASSUME NEW q \in R
      PROVE  w2[q] \in Nat /\ w2[q] <= w[q] + 1 /\ w2[q] <= w[j] + 1
  <2>1. /\ w2[q] = Cardinality(Left(job[q], revs')) /\ w[q] = Cardinality(Left(job[q], revs))
        /\ w[j] = Cardinality(Left(job[j], revs)) /\ j \in Publishers
    BY <1>3, <1>6, PublishersFinite DEF PublishWeight
  <2>2. Left(job[q], revs') \subseteq Publishes' \cup job[q].ins
    BY DEF Left, Publishes
  <2>3. Left(job[q], revs') \subseteq Left(job[q], revs) \cup job[j].ins
    BY <1>1 DEF Left, OfKind
  <2>4. /\ IsFiniteSet(Left(job[q], revs)) /\ IsFiniteSet(Left(job[j], revs))
    BY <1>3, <1>6, LeftFinite
  <2>5. InTx(q) /\ InTx(j) /\ q \in Jobs
    BY <1>2, <1>6
  <2>6. /\ Cardinality(Left(job[q], revs')) \in Nat
        /\ Cardinality(Left(job[q], revs')) <= Cardinality(Left(job[j], revs)) + 1
    BY <1>5, <2>2, <2>4, <2>5, InsFinite, OneMore
  <2>7. Cardinality(Left(job[q], revs')) <= Cardinality(Left(job[q], revs)) + 1
    BY <2>3, <2>4, <2>5, InsFinite, OneMore
  <2> QED BY <2>1, <2>6, <2>7
<1>8. PICK G \in [Publishers -> SUBSET Publishers] :
        Ledger(Publishers, Pruning, PublishWeight, MaxRetention, G)
  BY DEF PublishCount
<1>9. w[j] = Cardinality(Publishes')
  BY <1>3, <1>5, PublishersFinite DEF PublishWeight
<1> HIDE DEF w, w2, R
<1>10. /\ \E H \in [Publishers -> SUBSET Publishers] :
            Ledger(Publishers, R, w2, MaxRetention, H)
       /\ w[j] <= MaxRetention + Cardinality(Publishers) - 1
  BY <1>3, <1>6, <1>7, <1>8, PublishersFinite, LedgerCommits, MaxRetentionBounds DEF w
<1>11. \E H \in [Publishers -> SUBSET Publishers]' :
         Ledger(Publishers, Pruning, PublishWeight, MaxRetention, H)'
  BY <1>6, <1>10 DEF w2, R
<1>12. ASSUME OneAtATime("publish")'
       PROVE  /\ R = {}
              /\ Cardinality(Publishes') <= Retention[page'.live]
  <2>1. OneAtATime("publish")
    BY <1>12 DEF OneAtATime
  <2>2. R = {}
    BY <1>3, <1>6, <2>1 DEF OneAtATime, Publishers, Pruning
  <2>3. page'.live = job[j].data
    BY <1>1
  <2> QED BY <1>3, <1>5, <2>1, <2>2, <2>3 DEF PublishCount
<1> QED BY <1>5, <1>6, <1>9, <1>10, <1>11, <1>12 DEF PublishCount, R

\* Where only rows go away, and nobody selects for a prune.
LEMMA PublishQuiet ==
  ASSUME Inv, TxInv, TxInv', PublishCount, UNCHANGED may, Publishes' \subseteq Publishes,
         \A k \in Jobs : job'[k] = job[k] \/ job'[k].pc \notin {"pruneDelete", "publishCommit"},
         L!Stored(page)' /\ page'.live # Nothing => L!Stored(page) /\ page'.live = page.live
  PROVE  PublishCount'
<1>1. ASSUME NEW k \in Pruning'
      PROVE  /\ k \in Pruning /\ job'[k] = job[k]
             /\ Left(job'[k], revs') \subseteq Left(job[k], revs)
  <2>1. k \in Pruning /\ job'[k] = job[k]
    BY PublishersFinite DEF Pruning, Publishers
  <2> QED BY <2>1 DEF Left, Publishes
<1> QED BY <1>1, PublishShrinks

LEMMA PublishDeletes ==
  ASSUME Inv, TxInv, TxInv', PublishCount, NEW j \in Jobs, PruneDelete(j), UNCHANGED may
  PROVE  PublishCount'
<1>1. /\ job[j].pc = "pruneDelete" /\ UNCHANGED <<page, revs, used>>
      /\ Becomes(j, "publishCommit", {r \in job[j].ins : r.id \notin job[j].seen},
                 {r.id : r \in {r \in revs : r.id \in job[j].seen}}, job[j].seen,
                 job[j].version)
  BY PruneDeleteBecomes DEF PruneDelete
<1>2. Publishes' = Publishes
  BY <1>1 DEF Publishes
<1>3. ASSUME NEW k \in Pruning'
      PROVE  /\ k \in Pruning /\ job'[k].data = job[k].data
             /\ Left(job'[k], revs') \subseteq Left(job[k], revs)
  <2>1. k \in Jobs /\ k \in Publishers /\ job'[k].pc \in {"pruneDelete", "publishCommit"}
    BY PublishersFinite DEF Pruning, Publishers
  <2>2. CASE k # j
    <3>1. job'[k] = job[k]
      BY <1>1, <2>1, <2>2 DEF Becomes
    <3> QED BY <1>1, <2>1, <3>1 DEF Pruning
  <2>3. CASE k = j
    <3>1. k \in Pruning /\ job'[k].data = job[k].data
      BY <1>1, <2>1, <2>3 DEF Pruning, Becomes
    <3>2. /\ job'[k].pc = "publishCommit"
          /\ job'[k].ins = {r \in job[j].ins : r.id \notin job[j].seen}
          /\ \A r \in revs : r.id \in job[j].seen => r.id \in job'[k].dels
      BY <1>1, <2>3 DEF Becomes
    <3> QED BY <1>1, <2>3, <3>1, <3>2 DEF Left, OfKind
  <2> QED BY <2>2, <2>3
<1> QED BY <1>1, <1>2, <1>3, PublishShrinks

\* The live document only goes away.
LiveKept == L!Stored(page)' /\ page'.live # Nothing => L!Stored(page) /\ page'.live = page.live

\* k is at none of these steps now, unless it was there.
NotReached(k, pcs) == job'[k] = job[k] \/ job'[k].pc \notin pcs

\* Restores, discards and failures neither insert a revision nor start a transaction.
LEMMA OtherSteps ==
  ASSUME Inv, TxInv, NEW j \in Jobs,
         RestoreRevision(j) \/ DiscardRevision(j) \/ Rollback(j)
  PROVE  /\ revs' \subseteq revs /\ LiveKept /\ ~InTx(j)'
         /\ \A k \in Jobs \ {j} : job'[k] = job[k]
<1>1. ASSUME NEW y, Goto(j, y),
             y.pc \in {"idle", "restoreSelect", "restoreUpdate", "discardDelete"}
      PROVE  ~InTx(j)' /\ \A k \in Jobs \ {j} : job'[k] = job[k]
  BY <1>1, Moves DEF InTx, PublishPcs, AutosavePcs
<1>2. Idle.pc = "idle"
  BY DEF Idle
<1>3. page' = page => LiveKept
  BY DEF LiveKept
<1>4. CASE RestoreRead(j)
  <2>1. PICK id \in used : Goto(j, [pc |-> "restoreSelect", id |-> id, draft |-> page.draft])
    BY <1>4 DEF RestoreRead
  <2>2. [pc |-> "restoreSelect", id |-> id, draft |-> page.draft].pc = "restoreSelect"
    OBVIOUS
  <2>3. \E y : Goto(j, y) /\ y.pc = "restoreSelect"
    BY <2>1, <2>2, Zenon
  <2> QED BY <1>1, <1>3, <1>4, <2>3 DEF RestoreRead
<1>5. CASE RestoreSelect(j)
  <2>1. \A d : [pc |-> "restoreUpdate", data |-> d].pc = "restoreUpdate"
    OBVIOUS
  <2>2. \E y : Goto(j, y) /\ y.pc \in {"idle", "restoreUpdate"}
    BY <1>5, <2>1, <1>2, Zenon DEF RestoreSelect
  <2> QED BY <1>1, <1>3, <1>5, <2>2 DEF RestoreSelect
<1>6. CASE RestoreUpdate(j)
  <2>1. LiveKept
    <3>1. CASE ~L!Stored(page)
      BY <1>6, <3>1 DEF RestoreUpdate, LiveKept
    <3>2. CASE L!Stored(page)
      <4> DEFINE data == job[j].data
      <4>1. page \in L!Row /\ page' = [page EXCEPT !.status = "draft", !.draft = data]
        BY <1>6, <3>2, StoredRow DEF RestoreUpdate
      <4> HIDE DEF data
      <4>2. page'.live = page.live
        BY <4>1 DEF L!Row
      <4> QED BY <3>2, <4>2 DEF LiveKept
    <3> QED BY <3>1, <3>2
  <2> QED BY <1>1, <1>2, <1>6, <2>1 DEF RestoreUpdate
<1>7. CASE DiscardSelect(j)
  <2>1. \A id : [pc |-> "discardDelete", id |-> id].pc = "discardDelete"
    OBVIOUS
  <2>2. \E y : Goto(j, y) /\ y.pc = "discardDelete"
    BY <1>7, <2>1, Zenon DEF DiscardSelect
  <2> QED BY <1>1, <1>3, <1>7, <2>2 DEF DiscardSelect
<1>8. CASE DiscardDelete(j) \/ Rollback(j)
  BY <1>1, <1>2, <1>3, <1>8 DEF DiscardDelete, Rollback
<1> QED BY <1>4, <1>5, <1>6, <1>7, <1>8 DEF RestoreRevision, DiscardRevision

LEMMA RowSteps ==
  ASSUME Inv, CreatePage \/ \E j \in Jobs : Statement(j)
  PROVE  revs' \subseteq revs /\ job' = job /\ LiveKept
<1>1. CASE CreatePage
  <2>1. PICK c \in Contents : page' = [status |-> "draft", draft |-> c, live |-> Nothing]
    BY <1>1 DEF CreatePage
  <2> QED BY <1>1, <2>1 DEF CreatePage, LiveKept
<1>2. ASSUME NEW j \in Jobs, UpdatePage(j) PROVE revs' \subseteq revs /\ job' = job /\ LiveKept
  <2>1. PICK c \in Contents : page' = [page EXCEPT !.draft = c]
    BY <1>2 DEF UpdatePage
  <2>2. page \in L!Row
    BY <1>2, StoredRow DEF UpdatePage
  <2>3. page'.live = page.live
    BY <2>1, <2>2 DEF L!Row
  <2> QED BY <1>2, <2>3 DEF UpdatePage, LiveKept
<1>3. ASSUME NEW j \in Jobs, UnpublishPage(j)
      PROVE  revs' \subseteq revs /\ job' = job /\ LiveKept
  <2>1. page \in L!Row /\ page' = [page EXCEPT !.status = "draft", !.live = Nothing]
    BY <1>3, StoredRow DEF UnpublishPage
  <2>2. page'.live = Nothing
    BY <2>1 DEF L!Row
  <2> QED BY <1>3, <2>2 DEF UnpublishPage, LiveKept
<1>4. ASSUME NEW j \in Jobs, DeletePage(j) PROVE revs' \subseteq revs /\ job' = job /\ LiveKept
  BY <1>4 DEF DeletePage, LiveKept, L!Stored
<1> QED BY <1>1, <1>2, <1>3, <1>4 DEF Statement

\* A step other than these leaves the revisions, and the live document, or takes some away.
LEMMA QuietSteps ==
  ASSUME Inv, TxInv, [Next]_vars
  PROVE  \/ \E j \in Jobs : PruneSelect(j) \/ PruneDelete(j) \/ PublishCommit(j)
         \/ /\ Publishes' \subseteq Publishes /\ LiveKept
            /\ \A k \in Jobs : NotReached(k, {"pruneDelete", "publishCommit"})
<1> DEFINE Quiet == /\ Publishes' \subseteq Publishes /\ LiveKept
                    /\ \A k \in Jobs : NotReached(k, {"pruneDelete", "publishCommit"})
<1>1. revs' \subseteq revs => Publishes' \subseteq Publishes
  BY DEF Publishes, OfKind
<1>2. page' = page => LiveKept
  BY DEF LiveKept
<1>3. CASE CreatePage \/ \E j \in Jobs : Statement(j)
  BY <1>1, <1>3, RowSteps DEF NotReached
<1>4. ASSUME NEW j \in Jobs, RestoreRevision(j) \/ DiscardRevision(j) \/ Rollback(j)
      PROVE  Quiet
  BY <1>1, <1>4, OtherSteps DEF NotReached, InTx, PublishPcs
<1>5. ASSUME NEW j \in Jobs, PublishRead(j) \/ AutosaveRead(j) PROVE Quiet
  <2>1. \A k \in Jobs : NotReached(k, {"pruneDelete", "publishCommit"})
    BY <1>5, ReadBecomes DEF PublishRead, AutosaveRead, NotReached
  <2> QED BY <1>1, <1>2, <1>5, <2>1 DEF PublishRead, AutosaveRead
<1>6. ASSUME NEW j \in Jobs, PublishVersion(j) \/ AutosaveVersion(j) PROVE Quiet
  <2>1. PICK pc \in TxPcs, next \in {"publishInsert", "autosaveInsert"} : ReadVersion(j, pc, next)
    BY <1>6 DEF PublishVersion, AutosaveVersion, TxPcs, PublishPcs, AutosavePcs
  <2>2. \A k \in Jobs : NotReached(k, {"pruneDelete", "publishCommit"})
    BY <2>1, VersionBecomes DEF Becomes, NotReached
  <2> QED BY <1>1, <1>2, <2>1, <2>2 DEF ReadVersion
<1>7. ASSUME NEW j \in Jobs, PublishInsert(j) \/ AutosaveInsert(j) PROVE Quiet
  <2>1. PICK kind \in Kinds, pc \in TxPcs, next \in {"pruneSelect", "autosaveCommit"} :
          InsertRevision(j, kind, pc, next)
    BY <1>7 DEF PublishInsert, AutosaveInsert, TxPcs, PublishPcs, AutosavePcs, Kinds
  <2>2. \A k \in Jobs : NotReached(k, {"pruneDelete", "publishCommit"})
    <3>1. \E id : Becomes(j, next, {Inserted(j, kind, id)}, job[j].dels, job[j].seen,
                         job[j].version)
      BY <2>1, InsertBecomes
    <3> QED BY <3>1 DEF Becomes, NotReached
  <2> QED BY <1>1, <1>2, <2>1, <2>2 DEF InsertRevision
<1>8. ASSUME NEW j \in Jobs, AutosaveSelect(j) PROVE Quiet
  <2>1. \A k \in Jobs : NotReached(k, {"pruneDelete", "publishCommit"})
    BY <1>8, AutosaveSelectBecomes DEF Becomes, NotReached
  <2> QED BY <1>1, <1>2, <1>8, <2>1 DEF AutosaveSelect
<1>9. ASSUME NEW j \in Jobs, NEW pc \in {"autosaveReuse", "autosaveCommit"}, AutosaveDone(j, pc)
      PROVE  Quiet
  <2>1. InTx(j) /\ job[j].pc \notin PublishPcs /\ TxOK(job[j], revs, used)
    BY <1>9 DEF AutosaveDone, InTx, AutosavePcs, PublishPcs, TxInv
  <2>2. \A r \in job[j].ins : r.kind # "publish"
    BY <2>1 DEF TxOK, KindOf
  <2>3. Publishes' \subseteq Publishes
    BY <1>9, <2>2 DEF AutosaveDone, Publishes, OfKind
  <2>4. \A k \in Jobs : NotReached(k, {"pruneDelete", "publishCommit"})
    BY <1>9, Moves DEF AutosaveDone, NotReached, Idle
  <2> QED BY <1>2, <1>9, <2>3, <2>4 DEF AutosaveDone
<1>10. CASE UNCHANGED vars
  BY <1>1, <1>2, <1>10 DEF vars, NotReached
<1> HIDE DEF Quiet
<1>11. CASE Next
  <2>1. ASSUME NEW j \in Jobs, PublishPage(j), ~PruneSelect(j), ~PruneDelete(j), ~PublishCommit(j)
        PROVE  Quiet
    BY <2>1, <1>5, <1>6, <1>7 DEF PublishPage
  <2>2. ASSUME NEW j \in Jobs, AutosavePage(j) PROVE Quiet
    BY <2>2, <1>5, <1>6, <1>7, <1>8, <1>9 DEF AutosavePage, AutosaveReuse, AutosaveCommit
  <2> QED BY <1>3, <1>4, <1>11, <2>1, <2>2 DEF Next, Quiet
<1> QED BY <1>10, <1>11 DEF Quiet

LEMMA PublishCountNext ==
  ASSUME Inv, TxInv, TxInv', PublishCount, [Next]_vars PROVE PublishCount'
<1>1. UNCHANGED may
  BY DEF Next, vars
<1>2. CASE \E j \in Jobs : PruneSelect(j) \/ PruneDelete(j) \/ PublishCommit(j)
  BY <1>1, <1>2, PublishEnters, PublishDeletes, PublishCommits
<1>3. CASE /\ Publishes' \subseteq Publishes /\ LiveKept
           /\ \A k \in Jobs : NotReached(k, {"pruneDelete", "publishCommit"})
  BY <1>1, <1>3, PublishQuiet DEF LiveKept, NotReached
<1> QED BY <1>2, <1>3, QuietSteps

LEMMA PublishCountInit == ASSUME Init PROVE PublishCount
<1>1. TxInv
  BY TxInit
<1>2. Pruning = {} /\ Publishes = {} /\ ~L!Stored(page)
  BY <1>1, PublishersFinite DEF Init, Pruning, Idle, Publishes, OfKind, L!Stored
<1> DEFINE G == [j \in Publishers |-> {}]
<1>3. /\ G \in [Publishers -> SUBSET Publishers]
      /\ Ledger(Publishers, Pruning, PublishWeight, MaxRetention, G)
  BY <1>2 DEF Ledger
<1>4. Cardinality(Publishes) <= MaxRetention + Cardinality(Publishers) - 1
  BY <1>1, <1>2, PublishersFinite, MaxRetentionBounds, FS_EmptySet
<1> QED BY <1>2, <1>3, <1>4 DEF PublishCount

-----------------------------------------------------------------------------
(* Autosaves *)

\* The autosaves another transaction has left when x is committed now.
LeftAutosaves(x, rs) == {r \in Autosaves(rs) : r.id \notin x.seen}

Editors == may["autosave"]
Replacing == {j \in Editors :
  job[j].pc \in {"autosaveReuse", "autosaveVersion", "autosaveInsert", "autosaveCommit"}}

\* With its own.
AutosaveWeight == [j \in Editors |->
  Cardinality(LeftAutosaves(job[j], revs)) + (IF job[j].pc = "autosaveReuse" THEN 0 ELSE 1)]

AutosaveCount ==
  /\ \E G \in [Editors -> SUBSET Editors] : Ledger(Editors, Replacing, AutosaveWeight, 1, G)
  /\ Cardinality(Autosaves(revs)) <= Cardinality(Editors)
  /\ OneAtATime("autosave") => \A j \in Jobs : job[j].pc = "autosaveReuse" => job[j].seen = {}

LEMMA EditorsFinite ==
  ASSUME TxInv
  PROVE  /\ Editors \subseteq Jobs /\ IsFiniteSet(Editors)
         /\ Cardinality(Editors) \in Nat /\ Replacing \subseteq Editors
<1>1. Editors \in SUBSET Jobs
  BY RolesAssumption DEF TxInv, Editors, Doings
<1> QED BY <1>1, FiniteAssumption, FS_Subset, FS_CardinalityType DEF Replacing

LEMMA AutosavesFinite ==
  ASSUME TxInv
  PROVE  /\ IsFiniteSet(Autosaves(revs)) /\ Cardinality(Autosaves(revs)) \in Nat
         /\ \A x : /\ IsFiniteSet(LeftAutosaves(x, revs))
                   /\ Cardinality(LeftAutosaves(x, revs)) \in Nat
<1>1. Autosaves(revs) \in SUBSET revs /\ \A x : LeftAutosaves(x, revs) \in SUBSET revs
  BY DEF Autosaves, OfKind, LeftAutosaves
<1> QED BY <1>1, FS_Subset, FS_CardinalityType DEF TxInv, RowsOK

\* Who is replacing an autosave is in a transaction of its own kind.
LEMMA ReplacingTyped ==
  ASSUME Inv, TxInv, NEW k \in Replacing
  PROVE  /\ k \in Jobs /\ k \in Editors /\ InTx(k) /\ job[k].pc \in TxPcs
         /\ TxOK(job[k], revs, used) /\ AutosaveWeight[k] \in Nat
         /\ AutosaveWeight[k] = Cardinality(LeftAutosaves(job[k], revs))
              + (IF job[k].pc = "autosaveReuse" THEN 0 ELSE 1)
<1>1. k \in Jobs /\ k \in Editors
  BY EditorsFinite
<1>2. InTx(k) /\ job[k].pc \in TxPcs
  BY DEF Replacing, InTx, TxPcs, AutosavePcs
<1>3. TxOK(job[k], revs, used)
  BY <1>1, <1>2 DEF TxInv
<1>4. AutosaveWeight[k] = Cardinality(LeftAutosaves(job[k], revs))
        + (IF job[k].pc = "autosaveReuse" THEN 0 ELSE 1)
  BY <1>1 DEF AutosaveWeight
<1>5. AutosaveWeight[k] \in Nat
  BY <1>4, AutosavesFinite
<1> QED BY <1>1, <1>2, <1>3, <1>4, <1>5

\* Where only rows go away, and nobody selects for an autosave.
LEMMA AutosaveShrinks ==
  ASSUME Inv, TxInv, AutosaveCount, UNCHANGED may, Autosaves(revs)' \subseteq Autosaves(revs),
         \A k \in Jobs : \/ NotReached(k, {"autosaveReuse", "autosaveVersion",
                                           "autosaveInsert", "autosaveCommit"})
                         \/ /\ k \in Replacing /\ job'[k].seen = job[k].seen
                            /\ job[k].pc # "autosaveReuse" /\ job'[k].pc # "autosaveReuse"
  PROVE  AutosaveCount'
<1> DEFINE w == AutosaveWeight
           w2 == AutosaveWeight'
           R == Replacing'
<1>1. Editors' = Editors
  BY DEF Editors
<1>2. ASSUME NEW k \in R
      PROVE  /\ k \in Editors /\ k \in Replacing /\ job'[k].seen = job[k].seen
             /\ job'[k].pc = "autosaveReuse" <=> job[k].pc = "autosaveReuse"
  BY <1>1, EditorsFinite DEF Replacing, NotReached
<1>3. ASSUME NEW k \in R PROVE w2[k] \in Nat /\ w2[k] <= w[k]
  <2>1. LeftAutosaves(job'[k], revs') \subseteq LeftAutosaves(job[k], revs)
    BY <1>2 DEF LeftAutosaves
  <2>2. /\ Cardinality(LeftAutosaves(job[k], revs)) \in Nat
        /\ Cardinality(LeftAutosaves(job'[k], revs')) \in Nat
        /\ Cardinality(LeftAutosaves(job'[k], revs')) <= Cardinality(LeftAutosaves(job[k], revs))
    BY <2>1, AutosavesFinite, FS_Subset, FS_CardinalityType
  <2>3. /\ w[k] = Cardinality(LeftAutosaves(job[k], revs))
                    + (IF job[k].pc = "autosaveReuse" THEN 0 ELSE 1)
        /\ w2[k] = Cardinality(LeftAutosaves(job'[k], revs'))
                    + (IF job'[k].pc = "autosaveReuse" THEN 0 ELSE 1)
    BY <1>1, <1>2 DEF AutosaveWeight
  <2> QED BY <1>2, <2>2, <2>3
<1>4. PICK G \in [Editors -> SUBSET Editors] : Ledger(Editors, Replacing, w, 1, G)
  BY DEF AutosaveCount
<1>5. R \in SUBSET Replacing
  BY <1>2
<1> HIDE DEF w, w2, R
<1>6. Ledger(Editors, R, w2, 1, G)
  BY <1>3, <1>4, <1>5, EditorsFinite, LedgerShrinks
<1>7. \E H \in [Editors -> SUBSET Editors]' : Ledger(Editors, Replacing, AutosaveWeight, 1, H)'
  BY <1>1, <1>6 DEF w2, R
<1>8. Cardinality(Autosaves(revs)') <= Cardinality(Editors')
  <2>1. /\ Cardinality(Autosaves(revs)') <= Cardinality(Autosaves(revs))
        /\ Cardinality(Autosaves(revs)') \in Nat
    BY AutosavesFinite, FS_Subset, FS_CardinalityType
  <2> QED BY <1>1, <2>1, AutosavesFinite, EditorsFinite DEF AutosaveCount
<1>9. OneAtATime("autosave")' =>
        \A k \in Jobs : job'[k].pc = "autosaveReuse" => job'[k].seen = {}
  BY DEF AutosaveCount, OneAtATime, NotReached
<1> QED BY <1>7, <1>8, <1>9 DEF AutosaveCount

LEMMA AutosaveEnters ==
  ASSUME Inv, TxInv, AutosaveCount, NEW j \in Jobs, AutosaveSelect(j), UNCHANGED may
  PROVE  AutosaveCount'
<1>1. job[j].pc = "autosaveSelect" /\ UNCHANGED <<page, revs, used>>
  BY DEF AutosaveSelect
<1>2. /\ \A k \in Jobs \ {j} : job'[k] = job[k]
      /\ \/ \E latest \in Autosaves(revs) :
              job'[j].pc = "autosaveReuse" /\ job'[j].seen = Ids(Autosaves(revs) \ {latest})
         \/ job'[j].pc = "autosaveVersion" /\ job'[j].seen = Ids(Autosaves(revs))
  BY AutosaveSelectBecomes DEF Becomes
<1>3. InRole(j) /\ j \in Editors
  BY <1>1 DEF TxInv, InRole, Editors, AutosavePcs
<1> DEFINE w == AutosaveWeight
           w2 == AutosaveWeight'
           R == Replacing'
<1>4. /\ Editors' = Editors /\ R \in SUBSET (Replacing \cup {j})
      /\ \A q \in R \ {j} : job'[q] = job[q] /\ q \in Replacing
  BY <1>1, <1>2, EditorsFinite DEF Replacing, Editors
<1>5. w2[j] = Cardinality(LeftAutosaves(job'[j], revs'))
                + (IF job'[j].pc = "autosaveReuse" THEN 0 ELSE 1)
  BY <1>3, <1>4 DEF AutosaveWeight
<1>6. w2[j] \in Nat /\ w2[j] <= 1
  <2>1. ASSUME NEW latest \in Autosaves(revs), job'[j].pc = "autosaveReuse",
               job'[j].seen = Ids(Autosaves(revs) \ {latest})
        PROVE  w2[j] \in Nat /\ w2[j] <= 1
    <3>1. LeftAutosaves(job'[j], revs') \in SUBSET {latest}
      BY <1>1, <2>1 DEF LeftAutosaves, Ids
    <3>2. IsFiniteSet({latest}) /\ Cardinality({latest}) = 1
      BY FS_Singleton
    <3>3. /\ Cardinality(LeftAutosaves(job'[j], revs')) \in Nat
          /\ Cardinality(LeftAutosaves(job'[j], revs')) <= 1
      BY <3>1, <3>2, FS_Subset, FS_CardinalityType
    <3> QED BY <1>5, <2>1, <3>3
  <2>2. ASSUME job'[j].pc = "autosaveVersion", job'[j].seen = Ids(Autosaves(revs))
        PROVE  w2[j] \in Nat /\ w2[j] <= 1
    <3>1. LeftAutosaves(job'[j], revs') = {}
      BY <1>1, <2>2 DEF LeftAutosaves, Ids
    <3>2. Cardinality(LeftAutosaves(job'[j], revs')) = 0
      BY <3>1, FS_EmptySet
    <3> QED BY <1>5, <2>2, <3>2
  <2> QED BY <1>2, <2>1, <2>2
<1>7. \A q \in R \ {j} : w2[q] \in Nat /\ w2[q] <= w[q]
  <2>1. \A q \in R \ {j} : w2[q] = w[q]
    BY <1>1, <1>4, EditorsFinite DEF AutosaveWeight
  <2> QED BY <1>4, <2>1, ReplacingTyped
<1>8. PICK G \in [Editors -> SUBSET Editors] : Ledger(Editors, Replacing, w, 1, G)
  BY DEF AutosaveCount
<1> HIDE DEF w, w2, R
<1>9. \E H \in [Editors -> SUBSET Editors] : Ledger(Editors, R, w2, 1, H)
  <2> DEFINE one == 1
  <2>1. IsFiniteSet(Editors) /\ Replacing \subseteq Editors /\ one \in Nat
    BY EditorsFinite
  <2>2. R \in SUBSET (Replacing \cup {j})
    BY <1>4
  <2>3. w2[j] \in Nat /\ w2[j] <= one /\ Ledger(Editors, Replacing, w, one, G)
    BY <1>6, <1>8
  <2> HIDE DEF one
  <2>4. \E H \in [Editors -> SUBSET Editors] : Ledger(Editors, R, w2, one, H)
    BY <1>3, <1>7, <2>1, <2>2, <2>3, LedgerEnters, Zenon
  <2> QED BY <2>4 DEF one
<1>10. \E H \in [Editors -> SUBSET Editors]' : Ledger(Editors, Replacing, AutosaveWeight, 1, H)'
  BY <1>4, <1>9 DEF w2, R
<1>11. Cardinality(Autosaves(revs)') <= Cardinality(Editors')
  BY <1>1, <1>4 DEF AutosaveCount, Autosaves
<1>12. ASSUME OneAtATime("autosave")', NEW k \in Jobs, job'[k].pc = "autosaveReuse"
       PROVE  job'[k].seen = {}
  <2>1. OneAtATime("autosave")
    BY <1>12 DEF OneAtATime
  <2>2. CASE k # j
    BY <1>2, <1>12, <2>1, <2>2 DEF AutosaveCount
  <2>3. CASE k = j
    <3>1. PICK latest \in Autosaves(revs) : job'[j].seen = Ids(Autosaves(revs) \ {latest})
      BY <1>2, <1>12, <2>3
    <3>2. Editors = {j}
      BY <1>3, <2>1 DEF Editors, OneAtATime
    <3>3. Cardinality(Autosaves(revs)) <= 1
      BY <3>2, FS_Singleton DEF AutosaveCount
    <3>4. /\ IsFiniteSet(Autosaves(revs) \ {latest})
          /\ Cardinality(Autosaves(revs) \ {latest}) = Cardinality(Autosaves(revs)) - 1
      BY AutosavesFinite, FS_RemoveElement
    <3>5. Cardinality(Autosaves(revs) \ {latest}) = 0
      BY <3>3, <3>4, AutosavesFinite, FS_CardinalityType
    <3>6. Autosaves(revs) \ {latest} = {}
      BY <3>4, <3>5, FS_EmptySet
    <3> QED BY <2>3, <3>1, <3>6 DEF Ids
  <2> QED BY <2>2, <2>3
<1> QED BY <1>10, <1>11, <1>12 DEF AutosaveCount

LEMMA AutosaveCommits ==
  ASSUME Inv, TxInv, AutosaveCount, NEW j \in Jobs, UNCHANGED may,
         NEW pc \in {"autosaveReuse", "autosaveCommit"}, AutosaveDone(j, pc)
  PROVE  AutosaveCount'
<1>1. /\ job[j].pc = pc /\ UNCHANGED <<page, used>>
      /\ revs' = {r \in revs : r.id \notin job[j].seen} \cup job[j].ins
      /\ job'[j] = Idle /\ \A k \in Jobs \ {j} : job'[k] = job[k]
  BY Moves DEF AutosaveDone
<1>2. InTx(j) /\ job[j].pc \in AutosavePcs /\ job[j].pc \notin PublishPcs
  BY <1>1 DEF InTx, PublishPcs, AutosavePcs
<1>3. j \in Replacing /\ TxOK(job[j], revs, used)
  BY <1>1, <1>2 DEF TxInv, InRole, Replacing, Editors
<1>4. (\A r \in job[j].ins : r.kind = "autosave") /\ (pc = "autosaveReuse" => job[j].ins = {})
  BY <1>1, <1>2, <1>3 DEF TxOK, KindOf
<1>5. Autosaves(revs)' = LeftAutosaves(job[j], revs) \cup job[j].ins
  BY <1>1, <1>4 DEF Autosaves, OfKind, LeftAutosaves
<1> DEFINE w == AutosaveWeight
           w2 == AutosaveWeight'
           R == Replacing'
           A2 == Autosaves(revs)'
<1>6. IsFiniteSet(A2) /\ Cardinality(A2) \in Nat /\ Cardinality(A2) <= w[j]
  <2>1. w[j] = Cardinality(LeftAutosaves(job[j], revs)) + (IF pc = "autosaveReuse" THEN 0 ELSE 1)
    BY <1>1, <1>3, ReplacingTyped
  <2>2. CASE pc = "autosaveReuse"
    <3>1. A2 = LeftAutosaves(job[j], revs)
      BY <1>4, <1>5, <2>2
    <3> QED BY <2>1, <2>2, <3>1, AutosavesFinite
  <2>3. CASE pc # "autosaveReuse"
    <3>1. /\ IsFiniteSet(LeftAutosaves(job[j], revs))
          /\ job[j].ins = {} \/ \E r : job[j].ins = {r}
      BY <1>2, AutosavesFinite, InsFinite
    <3>2. /\ IsFiniteSet(A2) /\ Cardinality(A2) \in Nat
          /\ Cardinality(A2) <= Cardinality(LeftAutosaves(job[j], revs)) + 1
      BY <1>5, <3>1, OneMore
    <3> QED BY <2>1, <2>3, <3>2
  <2> QED BY <2>2, <2>3
<1>7. /\ Editors' = Editors /\ R \in SUBSET (Replacing \ {j})
      /\ \A q \in R : job'[q] = job[q] /\ q \in Replacing /\ q \in Editors
  BY <1>1, EditorsFinite DEF Replacing, Editors, Idle
<1>8. ASSUME NEW q \in R
      PROVE  w2[q] \in Nat /\ w2[q] <= w[q] + 1 /\ w2[q] <= w[j] + 1
  <2> DEFINE own == IF job[q].pc = "autosaveReuse" THEN 0 ELSE 1
             left == LeftAutosaves(job[q], revs)
             left2 == LeftAutosaves(job[q], revs')
  <2>1. w[q] = Cardinality(left) + own /\ w[q] \in Nat /\ w[j] \in Nat
    BY <1>3, <1>7, ReplacingTyped
  <2>2. w2[q] = Cardinality(left2) + own
    BY <1>7 DEF AutosaveWeight
  <2>3. left2 \subseteq left \cup job[j].ins /\ left2 \subseteq A2
    BY <1>1 DEF LeftAutosaves, Autosaves, OfKind
  <2>4. IsFiniteSet(left) /\ Cardinality(left) \in Nat /\ own \in {0, 1}
    BY AutosavesFinite
  <2> HIDE DEF own, left, left2
  <2>5. Cardinality(left2) \in Nat /\ Cardinality(left2) <= Cardinality(left) + 1
    BY <1>2, <2>3, <2>4, InsFinite, OneMore
  <2>6. Cardinality(left2) <= Cardinality(A2)
    BY <1>6, <2>3, FS_Subset
  <2> HIDE DEF w, w2, A2
  <2> QED BY <1>6, <2>1, <2>2, <2>4, <2>5, <2>6
<1>9. PICK G \in [Editors -> SUBSET Editors] : Ledger(Editors, Replacing, w, 1, G)
  BY DEF AutosaveCount
<1> HIDE DEF w, w2, R, A2
<1>10. /\ \E H \in [Editors -> SUBSET Editors] : Ledger(Editors, R, w2, 1, H)
       /\ w[j] <= 1 + Cardinality(Editors) - 1
  <2>1. IsFiniteSet(Editors) /\ Replacing \subseteq Editors /\ 1 \in Nat
    BY EditorsFinite
  <2>2. R \in SUBSET (Replacing \ {j}) /\ j \in Replacing
    BY <1>3, <1>7
  <2> QED BY <1>8, <1>9, <2>1, <2>2, LedgerCommits
<1>11. \E H \in [Editors -> SUBSET Editors]' : Ledger(Editors, Replacing, AutosaveWeight, 1, H)'
  BY <1>7, <1>10 DEF w2, R
<1>12. Cardinality(Autosaves(revs)') <= Cardinality(Editors')
  <2>1. w[j] \in Nat
    BY <1>3, ReplacingTyped DEF w
  <2> QED BY <1>6, <1>7, <1>10, <2>1, EditorsFinite DEF A2
<1>13. OneAtATime("autosave")' =>
         \A k \in Jobs : job'[k].pc = "autosaveReuse" => job'[k].seen = {}
  BY <1>1 DEF AutosaveCount, OneAtATime, Idle
<1> QED BY <1>11, <1>12, <1>13 DEF AutosaveCount

LEMMA QuietAutosaves ==
  ASSUME Inv, TxInv, [Next]_vars
  PROVE  \/ \E j \in Jobs : AutosaveSelect(j) \/ AutosaveReuse(j) \/ AutosaveCommit(j)
         \/ /\ Autosaves(revs)' \subseteq Autosaves(revs)
            /\ \A k \in Jobs : \/ NotReached(k, {"autosaveReuse", "autosaveVersion",
                                                 "autosaveInsert", "autosaveCommit"})
                               \/ /\ k \in Replacing /\ job'[k].seen = job[k].seen
                                  /\ job[k].pc # "autosaveReuse" /\ job'[k].pc # "autosaveReuse"
<1> DEFINE Pcs == {"autosaveReuse", "autosaveVersion", "autosaveInsert", "autosaveCommit"}
           Fewer == Autosaves(revs)' \subseteq Autosaves(revs)
           Quiet(k) == \/ NotReached(k, Pcs)
                       \/ /\ k \in Replacing /\ job'[k].seen = job[k].seen
                          /\ job[k].pc # "autosaveReuse" /\ job'[k].pc # "autosaveReuse"
           Stays == \A k \in Jobs : Quiet(k)
<1>1. revs' \subseteq revs => Fewer
  BY DEF Autosaves, OfKind
<1>2. CASE CreatePage \/ \E j \in Jobs : Statement(j)
  BY <1>1, <1>2, RowSteps DEF NotReached
<1>3. ASSUME NEW j \in Jobs, RestoreRevision(j) \/ DiscardRevision(j) \/ Rollback(j)
      PROVE  Fewer /\ Stays
  BY <1>1, <1>3, OtherSteps DEF NotReached, InTx, AutosavePcs
<1>4. ASSUME NEW j \in Jobs, PublishRead(j) \/ AutosaveRead(j) PROVE Fewer /\ Stays
  <2>1. Stays
    BY <1>4, ReadBecomes DEF PublishRead, AutosaveRead, NotReached
  <2> QED BY <1>1, <1>4, <2>1 DEF PublishRead, AutosaveRead
<1>5. ASSUME NEW j \in Jobs, PublishVersion(j) PROVE Fewer /\ Stays
  <2>1. Stays
    BY <1>5, VersionBecomes DEF PublishVersion, TxPcs, PublishPcs, Becomes, NotReached
  <2> QED BY <1>1, <1>5, <2>1 DEF PublishVersion, ReadVersion
<1>6. ASSUME NEW j \in Jobs, PublishInsert(j) PROVE Fewer /\ Stays
  <2>1. \E id : Becomes(j, "pruneSelect", {Inserted(j, "publish", id)}, job[j].dels,
                        job[j].seen, job[j].version)
    BY <1>6, InsertBecomes DEF PublishInsert, TxPcs, PublishPcs
  <2>2. Stays
    BY <2>1 DEF Becomes, NotReached
  <2> QED BY <1>1, <1>6, <2>2 DEF PublishInsert, InsertRevision
<1>7. ASSUME NEW j \in Jobs, PruneSelect(j) PROVE Fewer /\ Stays
  <2>1. Stays
    BY <1>7, PruneSelectBecomes DEF Becomes, NotReached
  <2> QED BY <1>1, <1>7, <2>1 DEF PruneSelect
<1>8. ASSUME NEW j \in Jobs, PruneDelete(j) PROVE Fewer /\ Stays
  <2>1. Stays
    BY <1>8, PruneDeleteBecomes DEF Becomes, NotReached
  <2> QED BY <1>1, <1>8, <2>1 DEF PruneDelete
<1>9. ASSUME NEW j \in Jobs, PublishCommit(j) PROVE Fewer /\ Stays
  <2>1. InTx(j) /\ job[j].pc \in PublishPcs /\ TxOK(job[j], revs, used)
    BY <1>9 DEF PublishCommit, InTx, PublishPcs, TxInv
  <2>2. \A r \in job[j].ins : r.kind = "publish"
    BY <2>1 DEF TxOK, KindOf
  <2>3. Fewer
    BY <1>9, <2>2 DEF PublishCommit, Commit, Autosaves, OfKind
  <2>4. Stays
    BY <1>9, Moves DEF PublishCommit, NotReached, Idle
  <2> QED BY <2>3, <2>4
<1>10. ASSUME NEW j \in Jobs, AutosaveVersion(j) PROVE Fewer /\ Stays
  <2>1. /\ job[j].pc = "autosaveVersion"
        /\ Becomes(j, "autosaveInsert", job[j].ins, job[j].dels, job[j].seen,
                   NextRevisionVersion(Visible(j)))
    BY <1>10, VersionBecomes DEF AutosaveVersion, ReadVersion, TxPcs, AutosavePcs
  <2>2. j \in Replacing
    BY <2>1 DEF TxInv, InRole, Replacing, Editors, AutosavePcs
  <2>3. Stays
    BY <2>1, <2>2 DEF Becomes, NotReached
  <2> QED BY <1>1, <1>10, <2>3 DEF AutosaveVersion, ReadVersion
<1>11. ASSUME NEW j \in Jobs, AutosaveInsert(j) PROVE Fewer /\ Stays
  <2>1. /\ job[j].pc = "autosaveInsert"
        /\ \E id : Becomes(j, "autosaveCommit", {Inserted(j, "autosave", id)}, job[j].dels,
                           job[j].seen, job[j].version)
    BY <1>11, InsertBecomes DEF AutosaveInsert, InsertRevision, TxPcs, AutosavePcs
  <2>2. j \in Replacing
    BY <2>1 DEF TxInv, InRole, Replacing, Editors, AutosavePcs
  <2>3. Stays
    BY <2>1, <2>2 DEF Becomes, NotReached
  <2> QED BY <1>1, <1>11, <2>3 DEF AutosaveInsert, InsertRevision
<1>12. CASE UNCHANGED vars
  BY <1>1, <1>12 DEF vars, NotReached
<1> HIDE DEF Fewer, Stays
<1>13. CASE Next
  <2>1. ASSUME NEW j \in Jobs, PublishPage(j) PROVE Fewer /\ Stays
    BY <2>1, <1>4, <1>5, <1>6, <1>7, <1>8, <1>9 DEF PublishPage
  <2>2. ASSUME NEW j \in Jobs, AutosavePage(j), ~AutosaveSelect(j), ~AutosaveReuse(j),
               ~AutosaveCommit(j)
        PROVE  Fewer /\ Stays
    BY <2>2, <1>4, <1>10, <1>11 DEF AutosavePage
  <2> QED BY <1>2, <1>3, <1>13, <2>1, <2>2 DEF Next, Fewer, Stays
<1> QED BY <1>12, <1>13 DEF Fewer, Stays

LEMMA AutosaveCountNext ==
  ASSUME Inv, TxInv, AutosaveCount, [Next]_vars PROVE AutosaveCount'
<1>1. UNCHANGED may
  BY DEF Next, vars
<1>2. CASE \E j \in Jobs : AutosaveSelect(j) \/ AutosaveReuse(j) \/ AutosaveCommit(j)
  BY <1>1, <1>2, AutosaveEnters, AutosaveCommits DEF AutosaveReuse, AutosaveCommit
<1>3. CASE ~ \E j \in Jobs : AutosaveSelect(j) \/ AutosaveReuse(j) \/ AutosaveCommit(j)
  BY <1>1, <1>3, QuietAutosaves, AutosaveShrinks
<1> QED BY <1>2, <1>3

LEMMA AutosaveCountInit == ASSUME Init PROVE AutosaveCount
<1>1. TxInv
  BY TxInit
<1>2. Replacing = {} /\ Autosaves(revs) = {} /\ \A j \in Jobs : job[j].pc = "idle"
  BY <1>1, EditorsFinite DEF Init, Replacing, Idle, Autosaves, OfKind
<1> DEFINE G == [j \in Editors |-> {}]
<1>3. /\ G \in [Editors -> SUBSET Editors]
      /\ Ledger(Editors, Replacing, AutosaveWeight, 1, G)
  BY <1>2 DEF Ledger
<1>4. Cardinality(Autosaves(revs)) <= Cardinality(Editors)
  BY <1>1, <1>2, EditorsFinite, FS_EmptySet
<1> QED BY <1>2, <1>3, <1>4 DEF AutosaveCount

CountInv == Inv /\ TxInv /\ PublishCount /\ AutosaveCount

LEMMA CountInvariant == Spec => []CountInv
<1>1. Init => CountInv
  BY InitInv, TxInit, PublishCountInit, AutosaveCountInit DEF CountInv
<1>2. CountInv /\ [Next]_vars => CountInv'
  BY NextInv, TxNext, PublishCountNext, AutosaveCountNext DEF CountInv
<1> QED BY <1>1, <1>2, PTL DEF Spec

\* Overlapping publishes may leave more publish revisions than the retention, but no more
\* than one for each other publisher; one that publishes alone leaves what the document
\* it published allows.
THEOREM RetentionIsBounded == Spec => []RetentionBounded
<1>1. CountInv => RetentionBounded
  BY DEF CountInv, PublishCount, RetentionBounded, Publishers
<1> QED BY <1>1, CountInvariant, PTL

\* Concurrent autosaves leave one autosave for each editor at most.
THEOREM AutosavesAreBounded == Spec => []AutosavesBounded
<1>1. CountInv => AutosavesBounded
  BY DEF CountInv, AutosaveCount, AutosavesBounded, Editors
<1> QED BY <1>1, CountInvariant, PTL

\* Publishing, pruning, restoring and a single editor's next autosave never take the last
\* recovery snapshot away.
THEOREM RecoveryIsKept == Spec => RecoveryKept
<1> DEFINE Kept == OneAtATime("autosave") /\ Autosaves(revs) # {} /\ Autosaves(revs') = {} =>
                     \E j \in Jobs : DiscardDelete(j) \/ DeletePage(j)
<1>1. ASSUME CountInv, CountInv', [Next]_vars PROVE Kept
  <2>1. ASSUME revs' = revs PROVE Kept
    BY <2>1
  <2>2. ASSUME NEW j \in Jobs, PublishCommit(j) PROVE Kept
    <3>1. InTx(j) /\ job[j].pc = "publishCommit" /\ TxOK(job[j], revs, used)
      BY <1>1, <2>2 DEF CountInv, PublishCommit, InTx, PublishPcs, TxInv
    <3>2. \A r \in revs : r.id \in job[j].dels => r.kind = "publish"
      BY <3>1 DEF TxOK, KindOf, PublishPcs
    <3>3. Autosaves(revs) \subseteq Autosaves(revs')
      BY <2>2, <3>2 DEF PublishCommit, Commit, Autosaves, OfKind
    <3> QED BY <3>3
  <2>3. ASSUME NEW j \in Jobs, AutosaveCommit(j) PROVE Kept
    <3>1. InTx(j) /\ job[j].pc = "autosaveCommit" /\ TxOK(job[j], revs, used)
      BY <1>1, <2>3 DEF CountInv, AutosaveCommit, AutosaveDone, InTx, AutosavePcs, TxInv
    <3>2. job[j].ins # {} /\ \A r \in job[j].ins : r.kind = "autosave"
      BY <3>1 DEF TxOK, KindOf, PublishPcs
    <3>3. Autosaves(revs') # {}
      BY <2>3, <3>2 DEF AutosaveCommit, AutosaveDone, Autosaves, OfKind
    <3> QED BY <3>3
  <2>4. ASSUME NEW j \in Jobs, AutosaveReuse(j), OneAtATime("autosave") PROVE Kept
    <3>1. job[j].seen = {}
      BY <1>1, <2>4 DEF CountInv, AutosaveCount, AutosaveReuse, AutosaveDone
    <3>2. Autosaves(revs) \subseteq Autosaves(revs')
      BY <2>4, <3>1 DEF AutosaveReuse, AutosaveDone, Autosaves, OfKind
    <3> QED BY <3>2
  <2>5. ASSUME NEW j \in Jobs, PublishPage(j) PROVE Kept
    BY <2>1, <2>2, <2>5 DEF PublishPage, PublishRead, PublishVersion, PublishInsert, ReadVersion,
         InsertRevision, PruneSelect, PruneDelete
  <2>6. ASSUME NEW j \in Jobs, AutosavePage(j) PROVE Kept
    BY <2>1, <2>3, <2>4, <2>6 DEF AutosavePage, AutosaveRead, AutosaveSelect, AutosaveVersion,
         AutosaveInsert, ReadVersion, InsertRevision
  <2>7. ASSUME NEW j \in Jobs, Statement(j) \/ RestoreRevision(j) \/ DiscardRevision(j)
                               \/ Rollback(j)
        PROVE  Kept
    BY <2>1, <2>7 DEF Statement, UpdatePage, UnpublishPage, RestoreRevision, RestoreRead,
         RestoreSelect, RestoreUpdate, DiscardRevision, DiscardSelect, Rollback
  <2> HIDE DEF Kept
  <2> QED BY <1>1, <2>1, <2>5, <2>6, <2>7 DEF Next, vars, CreatePage
<1>2. CountInv /\ CountInv' /\ [Next]_vars => [Kept]_vars
  BY <1>1
<1> QED BY <1>2, CountInvariant, PTL DEF Spec, RecoveryKept

-----------------------------------------------------------------------------
(* The newest publish revision *)

\* What is about to be discarded is an autosave, and stays one.
DiscardOK ==
  \A j \in Jobs : job[j].pc = "discardDelete" =>
    /\ job[j].id \in used
    /\ \A r \in revs : r.id = job[j].id => r.kind = "autosave"
    /\ \A k \in Jobs : InTx(k) => \A s \in job[k].ins : s.id # job[j].id

InsertedPcs == {"publishInsert", "pruneSelect", "pruneDelete", "publishCommit"}

\* A publisher that is alone inserts the newest publish revision, and keeps it; the live
\* document is the data of one.
NewestInv ==
  OneAtATime("publish") =>
    /\ \A j \in Jobs :
         /\ job[j].pc = "publishInsert" => \A r \in Publishes : r.version < job[j].version
         /\ job[j].pc = "pruneSelect" =>
              \A r \in Publishes, s \in job[j].ins : r.version < s.version
         /\ job[j].pc = "pruneDelete" => \A s \in job[j].ins : s.id \notin job[j].seen
         /\ job[j].pc = "publishCommit" => job[j].ins # {}
    /\ L!Stored(page) /\ page.live # Nothing => \E r \in Publishes : r.data = page.live

LEMMA DiscardQuiet ==
  ASSUME Inv, TxInv, DiscardOK, used \subseteq used',
         \A r \in revs' : r \in revs \/ \E k \in Jobs : InTx(k) /\ r \in job[k].ins,
         \A k \in Jobs : job'[k] = job[k] \/ job'[k].pc # "discardDelete",
         \A k \in Jobs : InTx(k)' => \A s \in job'[k].ins :
           (InTx(k) /\ s \in job[k].ins) \/ s.id \notin used
  PROVE  DiscardOK'
<1>1. ASSUME NEW j \in Jobs, job'[j].pc = "discardDelete"
      PROVE  /\ job'[j].id \in used'
             /\ \A r \in revs' : r.id = job'[j].id => r.kind = "autosave"
             /\ \A k \in Jobs : InTx(k)' => \A s \in job'[k].ins : s.id # job'[j].id
  <2>1. job'[j] = job[j]
    BY <1>1
  <2> QED BY <1>1, <2>1 DEF DiscardOK
<1> QED BY <1>1 DEF DiscardOK

LEMMA DiscardNext ==
  ASSUME Inv, TxInv, DiscardOK, [Next]_vars PROVE DiscardOK'
<1> DEFINE Same == /\ used \subseteq used'
                   /\ \A r \in revs' : r \in revs \/ \E k \in Jobs : InTx(k) /\ r \in job[k].ins
           Calm == \A k \in Jobs : job'[k] = job[k] \/ job'[k].pc # "discardDelete"
           Apt == \A k \in Jobs : InTx(k)' => \A s \in job'[k].ins :
                    (InTx(k) /\ s \in job[k].ins) \/ s.id \notin used
<1>1. Same /\ Calm /\ Apt => DiscardOK'
  BY DiscardQuiet
<1>2. revs' \subseteq revs /\ used' = used => Same
  OBVIOUS
<1>3. CASE (CreatePage \/ \E j \in Jobs : Statement(j)) \/ UNCHANGED vars
  <2>1. revs' \subseteq revs /\ used' = used /\ job' = job
    BY <1>3, RowSteps DEF vars, CreatePage, Statement, UpdatePage, UnpublishPage, DeletePage
  <2> QED BY <1>1, <1>2, <2>1 DEF InTx
<1>4. ASSUME NEW j \in Jobs, RestoreRevision(j) \/ DiscardDelete(j) \/ Rollback(j)
      PROVE  DiscardOK'
  <2>1. /\ revs' \subseteq revs /\ ~InTx(j)' /\ \A k \in Jobs \ {j} : job'[k] = job[k]
    BY <1>4, OtherSteps DEF DiscardRevision
  <2>2. Apt
    BY <2>1 DEF InTx
  <2>3. used' = used /\ job'[j].pc # "discardDelete"
    <3>1. \A id, d : [pc |-> "restoreSelect", id |-> id, draft |-> d].pc # "discardDelete"
      OBVIOUS
    <3>2. \A d : [pc |-> "restoreUpdate", data |-> d].pc # "discardDelete"
      OBVIOUS
    <3>3. Idle.pc # "discardDelete"
      BY DEF Idle
    <3>4. used' = used /\ \E y : Goto(j, y) /\ y.pc # "discardDelete"
      <4>1. CASE RestoreRead(j)
        BY <3>1, <4>1, Zenon DEF RestoreRead
      <4>2. CASE RestoreSelect(j)
        BY <3>2, <3>3, <4>2, Zenon DEF RestoreSelect
      <4>3. CASE RestoreUpdate(j)
        BY <3>3, <4>3, Zenon DEF RestoreUpdate
      <4>4. CASE DiscardDelete(j) \/ Rollback(j)
        BY <3>3, <4>4, Zenon DEF DiscardDelete, Rollback
      <4> QED BY <1>4, <4>1, <4>2, <4>3, <4>4 DEF RestoreRevision
    <3> QED BY <3>4, Moves
  <2> QED BY <1>1, <1>2, <2>1, <2>2, <2>3
<1>5. ASSUME NEW j \in Jobs, DiscardSelect(j) PROVE DiscardOK'
  <2>1. PICK id \in Ids(Autosaves(revs)) : Goto(j, [pc |-> "discardDelete", id |-> id])
    BY <1>5 DEF DiscardSelect
  <2>2. /\ job'[j].pc = "discardDelete" /\ job'[j].id = id /\ UNCHANGED <<revs, used>>
        /\ \A k \in Jobs \ {j} : job'[k] = job[k]
    BY <1>5, <2>1, Moves DEF DiscardSelect
  <2>3. PICK a \in revs : a.id = id /\ a.kind = "autosave"
    BY DEF Ids, Autosaves, OfKind
  <2>4. id \in used /\ \A r \in revs : r.id = id => r.kind = "autosave"
    BY <2>3 DEF TxInv, RowsOK, Known
  <2>5. \A k \in Jobs : InTx(k) => \A s \in job[k].ins : s.id # id
    BY <2>3 DEF TxInv, TxOK
  <2>6. ~InTx(j)'
    BY <2>2 DEF InTx, PublishPcs, AutosavePcs
  <2>7. \A k \in Jobs : InTx(k)' => job'[k] = job[k] /\ InTx(k)
    BY <2>2, <2>6 DEF InTx
  <2> QED BY <2>2, <2>4, <2>5, <2>7 DEF DiscardOK
<1>6. ASSUME NEW j \in Jobs, PublishRead(j) \/ AutosaveRead(j) PROVE DiscardOK'
  <2>1. /\ \A k \in Jobs \ {j} : job'[k] = job[k]
        /\ job'[j].pc # "discardDelete" /\ job'[j].ins = {}
    BY <1>6, ReadBecomes DEF PublishRead, AutosaveRead
  <2>2. Apt /\ Calm
    BY <2>1 DEF InTx
  <2> QED BY <1>1, <1>2, <1>6, <2>2 DEF PublishRead, AutosaveRead
<1>7. ASSUME NEW j \in Jobs, InTx(j), UNCHANGED <<revs, used>>, NEW pc, pc # "discardDelete",
             NEW ins \in SUBSET job[j].ins, NEW dels, NEW seen, NEW version,
             Becomes(j, pc, ins, dels, seen, version)
      PROVE  DiscardOK'
  <2>1. Apt /\ Calm
    BY <1>7 DEF Becomes, InTx
  <2> QED BY <1>1, <1>2, <1>7, <2>1
<1>8. ASSUME NEW j \in Jobs, PublishVersion(j) \/ AutosaveVersion(j) PROVE DiscardOK'
  <2>1. PICK pc \in TxPcs, next \in {"publishInsert", "autosaveInsert"} : ReadVersion(j, pc, next)
    BY <1>8 DEF PublishVersion, AutosaveVersion, TxPcs, PublishPcs, AutosavePcs
  <2>2. InTx(j) /\ UNCHANGED <<revs, used>>
    BY <2>1 DEF ReadVersion, InTx, TxPcs
  <2> QED BY <1>7, <2>1, <2>2, VersionBecomes
<1>9. ASSUME NEW j \in Jobs, PublishInsert(j) \/ AutosaveInsert(j) PROVE DiscardOK'
  <2>1. PICK kind \in Kinds, pc \in TxPcs, next \in {"pruneSelect", "autosaveCommit"} :
          InsertRevision(j, kind, pc, next)
    BY <1>9 DEF PublishInsert, AutosaveInsert, TxPcs, PublishPcs, AutosavePcs, Kinds
  <2>2. PICK id \in RevIds \ used :
          /\ used' = used \cup {id}
          /\ Becomes(j, next, {Inserted(j, kind, id)}, job[j].dels, job[j].seen, job[j].version)
    BY <2>1, InsertBecomes
  <2>3. \A s \in job'[j].ins : s.id \notin used
    BY <2>2 DEF Becomes, Inserted
  <2>4. Apt /\ Calm
    BY <2>2, <2>3 DEF Becomes, InTx
  <2>5. Same
    BY <2>1, <2>2 DEF InsertRevision
  <2> QED BY <1>1, <2>4, <2>5
<1>10. ASSUME NEW j \in Jobs, PruneSelect(j) PROVE DiscardOK'
  <2>1. InTx(j) /\ UNCHANGED <<revs, used>>
    BY <1>10 DEF PruneSelect, InTx, PublishPcs
  <2> QED BY <1>7, <1>10, <2>1, PruneSelectBecomes
<1>11. ASSUME NEW j \in Jobs, PruneDelete(j) PROVE DiscardOK'
  <2>1. /\ InTx(j) /\ UNCHANGED <<revs, used>>
        /\ {r \in job[j].ins : r.id \notin job[j].seen} \in SUBSET job[j].ins
    BY <1>11 DEF PruneDelete, InTx, PublishPcs
  <2> QED BY <1>7, <1>11, <2>1, PruneDeleteBecomes
<1>12. ASSUME NEW j \in Jobs, AutosaveSelect(j) PROVE DiscardOK'
  <2>1. InTx(j) /\ UNCHANGED <<revs, used>>
    BY <1>12 DEF AutosaveSelect, InTx, AutosavePcs
  <2> QED BY <1>7, <1>12, <2>1, AutosaveSelectBecomes
<1>13. ASSUME NEW j \in Jobs, InTx(j), used' = used, revs' \subseteq revs \cup job[j].ins,
              Goto(j, Idle)
       PROVE  DiscardOK'
  <2>1. job'[j] = Idle /\ \A k \in Jobs \ {j} : job'[k] = job[k]
    BY <1>13, Moves
  <2>2. ~InTx(j)' /\ job'[j].pc # "discardDelete"
    BY <2>1 DEF InTx, Idle, PublishPcs, AutosavePcs
  <2>3. Apt /\ Calm /\ Same
    BY <1>13, <2>1, <2>2 DEF InTx
  <2> QED BY <1>1, <2>3
<1>14. ASSUME NEW j \in Jobs, PublishCommit(j) \/ AutosaveReuse(j) \/ AutosaveCommit(j)
       PROVE  DiscardOK'
  BY <1>13, <1>14 DEF PublishCommit, Commit, AutosaveReuse, AutosaveCommit, AutosaveDone, InTx,
       PublishPcs, AutosavePcs
<1> HIDE DEF Same, Calm, Apt
<1> QED BY <1>3, <1>4, <1>5, <1>6, <1>8, <1>9, <1>10, <1>11, <1>12, <1>14
     DEF Next, PublishPage, AutosavePage, DiscardRevision

\* A publish revision goes away by a publish, or with the page.
LEMMA PublishesStay ==
  ASSUME Inv, TxInv, DiscardOK, [Next]_vars, L!Stored(page)', \A j \in Jobs : ~PublishCommit(j)
  PROVE  Publishes \subseteq Publishes'
<1>1. CASE revs' = revs
  BY <1>1 DEF Publishes
<1>2. ASSUME NEW j \in Jobs, NEW pc \in {"autosaveReuse", "autosaveCommit"}, AutosaveDone(j, pc)
      PROVE  Publishes \subseteq Publishes'
  <2>1. InTx(j) /\ job[j].pc = pc /\ TxOK(job[j], revs, used)
    BY <1>2 DEF AutosaveDone, InTx, AutosavePcs, TxInv
  <2>2. \A r \in revs : r.id \in job[j].seen => r.kind = "autosave"
    BY <2>1 DEF TxOK, KindOf, PublishPcs
  <2> QED BY <1>2, <2>2 DEF AutosaveDone, Publishes, OfKind
<1>3. ASSUME NEW j \in Jobs, DiscardDelete(j) PROVE Publishes \subseteq Publishes'
  BY <1>3 DEF DiscardDelete, DiscardOK, Publishes, OfKind
<1>4. ASSUME NEW j \in Jobs, PublishPage(j) PROVE revs' = revs
  BY <1>4 DEF PublishPage, PublishRead, PublishVersion, PublishInsert, ReadVersion, InsertRevision,
       PruneSelect, PruneDelete
<1>5. ASSUME NEW j \in Jobs, AutosavePage(j) PROVE Publishes \subseteq Publishes'
  BY <1>1, <1>2, <1>5 DEF AutosavePage, AutosaveRead, AutosaveSelect, AutosaveVersion,
       AutosaveInsert, AutosaveReuse, AutosaveCommit, ReadVersion, InsertRevision
<1>6. ASSUME NEW j \in Jobs, Statement(j) \/ RestoreRevision(j) \/ Rollback(j) PROVE revs' = revs
  BY <1>6 DEF Statement, UpdatePage, UnpublishPage, DeletePage, L!Stored, RestoreRevision,
       RestoreRead, RestoreSelect, RestoreUpdate, Rollback
<1>7. ASSUME NEW j \in Jobs, DiscardSelect(j) PROVE revs' = revs
  BY <1>7 DEF DiscardSelect
<1> QED BY <1>1, <1>3, <1>4, <1>5, <1>6, <1>7 DEF Next, vars, CreatePage, DiscardRevision

LEMMA NewestQuiet ==
  ASSUME NewestInv, UNCHANGED may, Publishes' \subseteq Publishes, LiveKept,
         L!Stored(page)' => Publishes \subseteq Publishes',
         \A k \in Jobs : NotReached(k, InsertedPcs)
  PROVE  NewestInv'
<1>1. OneAtATime("publish")' => OneAtATime("publish")
  BY DEF OneAtATime
<1>2. ASSUME OneAtATime("publish"), NEW k \in Jobs
      PROVE  /\ job'[k].pc = "publishInsert" => \A r \in Publishes' : r.version < job'[k].version
             /\ job'[k].pc = "pruneSelect" =>
                  \A r \in Publishes', s \in job'[k].ins : r.version < s.version
             /\ job'[k].pc = "pruneDelete" => \A s \in job'[k].ins : s.id \notin job'[k].seen
             /\ job'[k].pc = "publishCommit" => job'[k].ins # {}
  BY <1>2 DEF NewestInv, NotReached, InsertedPcs
<1>3. OneAtATime("publish") /\ L!Stored(page)' /\ page'.live # Nothing =>
        \E r \in Publishes' : r.data = page'.live
  BY DEF NewestInv, LiveKept
<1> QED BY <1>1, <1>2, <1>3 DEF NewestInv

\* A step of the publisher that is alone, the page and the revisions unchanged.
LEMMA NewestAdvances ==
  ASSUME Inv, TxInv, NewestInv, UNCHANGED <<may, page, revs>>, NEW j \in Jobs,
         \A k \in Jobs \ {j} : job'[k] = job[k],
         OneAtATime("publish") =>
           /\ job'[j].pc = "publishInsert" => \A r \in Publishes : r.version < job'[j].version
           /\ job'[j].pc = "pruneSelect" =>
                \A r \in Publishes, s \in job'[j].ins : r.version < s.version
           /\ job'[j].pc = "pruneDelete" => \A s \in job'[j].ins : s.id \notin job'[j].seen
           /\ job'[j].pc = "publishCommit" => job'[j].ins # {}
  PROVE  NewestInv'
<1>1. Publishes' = Publishes /\ (OneAtATime("publish")' <=> OneAtATime("publish"))
  BY DEF Publishes, OneAtATime
<1> QED BY <1>1 DEF NewestInv

LEMMA NewestKeepsOwn ==
  ASSUME Inv, TxInv, NewestInv, OneAtATime("publish"), NEW j \in Jobs, PruneSelect(j),
         NEW kept \in Newest(Prunable(j), Retention[job[j].data]), NEW s \in job[j].ins
  PROVE  s.id \notin Ids(Prunable(j) \ kept)
<1>1. job[j].pc = "pruneSelect"
  BY DEF PruneSelect
<1>2. \A r \in Publishes : r.version < s.version
  BY <1>1 DEF NewestInv
<1>3. /\ TxOK(job[j], revs, used) /\ job[j].data \in Contents
      /\ Prunable(j) = Publishes \cup job[j].ins /\ IsFiniteSet(Prunable(j))
  BY <1>1, PruneSees
<1>4. \A r \in job[j].ins : r = s
  BY <1>3 DEF TxOK
<1>5. \A r \in Publishes \cup {s} : r.version \in Nat
  BY <1>3 DEF TxInv, RowsOK, TxOK, Known, Rev, Publishes, OfKind
<1>6. kept # {}
  <2>1. Retention[job[j].data] \in Nat \ {0}
    BY <1>3, RetentionAssumption
  <2>2. Cardinality(Prunable(j)) \in Nat /\ Cardinality(Prunable(j)) # 0
    BY <1>3, FS_CardinalityType, FS_EmptySet
  <2>3. Cardinality(kept) # 0
    BY <2>1, <2>2 DEF Newest
  <2> QED BY <2>3, FS_EmptySet
<1>7. s \in kept
  <2>1. ASSUME s \notin kept PROVE FALSE
    <3>1. PICK r \in kept : TRUE
      BY <1>6
    <3>2. kept \subseteq Prunable(j) /\ s \in Prunable(j) \ kept
      BY <1>3, <2>1 DEF Newest
    <3>3. r.version >= s.version
      BY <3>1, <3>2 DEF Newest
    <3>4. r \in Publishes
      BY <1>3, <1>4, <2>1, <3>1, <3>2
    <3> QED BY <1>2, <1>5, <3>3, <3>4
  <2> QED BY <2>1
<1>8. \A p \in Prunable(j) \ kept : p.id # s.id
  BY <1>3, <1>4, <1>7 DEF TxOK, Publishes, OfKind
<1> QED BY <1>8 DEF Ids

LEMMA NewestNext ==
  ASSUME Inv, TxInv, DiscardOK, NewestInv, [Next]_vars PROVE NewestInv'
<1>1. UNCHANGED may
  BY DEF Next, vars
<1>2. ASSUME NEW j \in Jobs, PublishVersion(j) PROVE NewestInv'
  <2>1. Becomes(j, "publishInsert", {}, {}, job[j].seen, NextRevisionVersion(revs))
    BY <1>1, <1>2, TxVersion DEF PublishVersion
  <2>2. \A r \in revs : r.version < NextRevisionVersion(revs)
    BY NextVersion DEF TxInv, RowsOK
  <2>3. \A r \in Publishes : r.version < job'[j].version
    BY <2>1, <2>2 DEF Becomes, Publishes, OfKind
  <2> QED BY <1>1, <1>2, <2>1, <2>3, NewestAdvances DEF Becomes, PublishVersion, ReadVersion
<1>3. ASSUME NEW j \in Jobs, PublishInsert(j) PROVE NewestInv'
  <2>1. /\ UNCHANGED <<page, revs>>
        /\ \E id : Becomes(j, "pruneSelect", {Inserted(j, "publish", id)}, {}, job[j].seen,
                           job[j].version)
    BY <1>1, <1>3, TxInsert DEF PublishInsert
  <2>2. job[j].pc = "publishInsert"
    BY <1>3 DEF PublishInsert, InsertRevision
  <2>3. \A s \in job'[j].ins : s.version = job[j].version
    BY <2>1 DEF Becomes, Inserted
  <2>4. job'[j].pc = "pruneSelect" /\ \A k \in Jobs \ {j} : job'[k] = job[k]
    BY <2>1 DEF Becomes
  <2>5. OneAtATime("publish") => \A r \in Publishes, s \in job'[j].ins : r.version < s.version
    BY <2>2, <2>3 DEF NewestInv
  <2> QED BY <1>1, <2>1, <2>4, <2>5, NewestAdvances
<1>4. ASSUME NEW j \in Jobs, PruneSelect(j) PROVE NewestInv'
  <2>1. PICK kept \in Newest(Prunable(j), Retention[job[j].data]) :
          Becomes(j, "pruneDelete", job[j].ins, job[j].dels, Ids(Prunable(j) \ kept),
                  job[j].version)
    BY <1>4, PruneSelectBecomes
  <2>2. OneAtATime("publish") => \A s \in job'[j].ins : s.id \notin job'[j].seen
    BY <1>4, <2>1, NewestKeepsOwn DEF Becomes
  <2> QED BY <1>1, <1>4, <2>1, <2>2, NewestAdvances DEF Becomes, PruneSelect
<1>5. ASSUME NEW j \in Jobs, PruneDelete(j) PROVE NewestInv'
  <2>1. /\ job[j].pc = "pruneDelete" /\ UNCHANGED <<page, revs>>
        /\ \A k \in Jobs \ {j} : job'[k] = job[k]
        /\ job'[j].pc = "publishCommit"
        /\ job'[j].ins = {r \in job[j].ins : r.id \notin job[j].seen}
    BY <1>5, PruneDeleteBecomes DEF PruneDelete, Becomes
  <2>2. job[j].ins # {}
    BY <2>1 DEF TxInv, InTx, TxOK, PublishPcs
  <2>3. OneAtATime("publish") => job'[j].ins # {}
    BY <2>1, <2>2 DEF NewestInv
  <2> QED BY <1>1, <2>1, <2>3, NewestAdvances
<1>6. ASSUME NEW j \in Jobs, PublishCommit(j) PROVE NewestInv'
  <2>1. /\ job[j].pc = "publishCommit"
        /\ page' = [status |-> "published", draft |-> job[j].data, live |-> job[j].data]
        /\ job[j].ins \subseteq revs'
        /\ job'[j] = Idle /\ \A k \in Jobs \ {j} : job'[k] = job[k]
    BY <1>6, Moves DEF PublishCommit, Commit
  <2>2. /\ j \in may["publish"]
        /\ \A r \in job[j].ins : r.kind = "publish" /\ r.data = job[j].data
    BY <2>1 DEF TxInv, InRole, InTx, TxOK, KindOf, PublishPcs
  <2>3. ASSUME OneAtATime("publish"), NEW k \in Jobs PROVE job'[k].pc \notin InsertedPcs
    <3>1. CASE k = j
      BY <2>1, <3>1 DEF Idle, InsertedPcs
    <3>2. CASE k # j
      BY <2>1, <2>2, <2>3, <3>2 DEF TxInv, InRole, OneAtATime, InsertedPcs, PublishPcs
    <3> QED BY <3>1, <3>2
  <2>4. OneAtATime("publish") => job[j].ins # {}
    BY <2>1 DEF NewestInv
  <2>5. OneAtATime("publish") => \E r \in Publishes' : r.data = page'.live
    BY <2>1, <2>2, <2>4 DEF Publishes, OfKind
  <2>6. OneAtATime("publish")' => OneAtATime("publish")
    BY <1>1 DEF OneAtATime
  <2> QED BY <2>3, <2>5, <2>6 DEF NewestInv, InsertedPcs
<1>7. ASSUME NEW j \in Jobs, PublishRead(j) PROVE NewestInv'
  <2>1. \A k \in Jobs \ {j} : job'[k] = job[k]
    BY <1>7, ReadBecomes DEF PublishRead
  <2>2. job'[j].pc = "publishVersion"
    BY <1>7, ReadBecomes DEF PublishRead
  <2> QED BY <1>1, <1>7, <2>1, <2>2, NewestAdvances DEF PublishRead
<1>8. CASE \A j \in Jobs : ~PublishPage(j)
  <2>1. /\ Publishes' \subseteq Publishes /\ LiveKept
    BY <1>8, QuietSteps DEF PublishPage
  <2>2. L!Stored(page)' => Publishes \subseteq Publishes'
    BY <1>8, PublishesStay DEF PublishPage
  <2>3. \A k \in Jobs : NotReached(k, InsertedPcs)
    <3>1. CASE (CreatePage \/ \E j \in Jobs : Statement(j)) \/ UNCHANGED vars
      BY <3>1, RowSteps DEF NotReached, vars
    <3>2. ASSUME NEW j \in Jobs, RestoreRevision(j) \/ DiscardRevision(j) \/ Rollback(j)
          PROVE  \A k \in Jobs : NotReached(k, InsertedPcs)
      BY <3>2, OtherSteps DEF NotReached, InTx, PublishPcs, InsertedPcs
    <3>3. ASSUME NEW j \in Jobs, AutosavePage(j) PROVE \A k \in Jobs : NotReached(k, InsertedPcs)
      <4>1. CASE AutosaveRead(j)
        BY <4>1, ReadBecomes DEF AutosaveRead, NotReached, InsertedPcs
      <4>2. CASE AutosaveSelect(j)
        BY <4>2, AutosaveSelectBecomes DEF NotReached, InsertedPcs, Becomes
      <4>3. CASE AutosaveVersion(j)
        <5>1. Becomes(j, "autosaveInsert", job[j].ins, job[j].dels, job[j].seen,
                      NextRevisionVersion(Visible(j)))
          BY <4>3, VersionBecomes DEF AutosaveVersion, TxPcs, AutosavePcs
        <5> QED BY <5>1 DEF NotReached, InsertedPcs, Becomes
      <4>4. CASE AutosaveInsert(j)
        <5>1. \E id : Becomes(j, "autosaveCommit", {Inserted(j, "autosave", id)}, job[j].dels,
                              job[j].seen, job[j].version)
          BY <4>4, InsertBecomes DEF AutosaveInsert, TxPcs, AutosavePcs
        <5> QED BY <5>1 DEF NotReached, InsertedPcs, Becomes
      <4>5. CASE AutosaveReuse(j) \/ AutosaveCommit(j)
        BY <4>5, Moves
          DEF AutosaveReuse, AutosaveCommit, AutosaveDone, NotReached, InsertedPcs, Idle
      <4> QED BY <3>3, <4>1, <4>2, <4>3, <4>4, <4>5 DEF AutosavePage
    <3> QED BY <1>8, <3>1, <3>2, <3>3 DEF Next
  <2> QED BY <1>1, <2>1, <2>2, <2>3, NewestQuiet
<1> QED BY <1>2, <1>3, <1>4, <1>5, <1>6, <1>7, <1>8 DEF PublishPage

\* When publishes come one at a time what visitors see can be restored: whatever the
\* prunes, autosaves and discards remove, a publish revision holds the live document.
THEOREM LiveIsRecoverable == Spec => []PublishedHasRevision
<1>1. Init => DiscardOK /\ NewestInv
  BY DEF Init, DiscardOK, NewestInv, Idle, L!Stored
<1>2. Init => Inv /\ TxInv
  BY InitInv, TxInit
<1>3. Inv /\ TxInv /\ DiscardOK /\ NewestInv /\ [Next]_vars
        => Inv' /\ TxInv' /\ DiscardOK' /\ NewestInv'
  BY NextInv, TxNext, DiscardNext, NewestNext
<1>4. NewestInv => PublishedHasRevision
  BY DEF NewestInv, PublishedHasRevision
<1> QED BY <1>1, <1>2, <1>3, <1>4, PTL DEF Spec

=============================================================================
