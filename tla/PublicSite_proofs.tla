-------------------------- MODULE PublicSite_proofs --------------------------
(***************************************************************************)
(* Proofs about PublicSite: its type invariant, the bound on the age of    *)
(* what visitors are served, the validity of the nonce in a served page,   *)
(* for one process that a publish or unpublish leaves no stale entry       *)
(* behind, and that each process's cache does what LossyCache allows.      *)
(*                                                                         *)
(* Proofs about SiteCache, the list behind those caches: it is well        *)
(* formed, keeps the keys in the order in which they were used, and        *)
(* implements LossyCache.                                                  *)
(***************************************************************************)
EXTENDS PublicSite, SiteCache, Counting

-----------------------------------------------------------------------------
(* Requests by the step they are at *)

Early == [pc : {"configure", "home", "slug"}, proc : Procs, path : Paths, ttl : Ttls]
Targeted == [pc : {"page"}, proc : Procs, path : Paths, ttl : Ttls, page : Pages]
Rendered == [pc : {"mint", "fill"}, proc : Procs, path : Paths, ttl : Ttls, page : Pages,
             html : Contents, readAt : Nat, minted : Nat]

\* The step a request is at says which local variables it has.
LEMMA ReqShapes ==
  ASSUME TypeOK, NEW r \in Reqs
  PROVE  /\ req[r] # Idle => req[r] \in Early \cup Targeted \cup Rendered
         /\ req[r].pc \in {"configure", "home", "slug"} => req[r] \in Early
         /\ req[r].pc = "page" => req[r] \in Targeted
         /\ req[r].pc \in {"mint", "fill"} => req[r] \in Rendered
         /\ req[r].pc # "idle" => req[r] # Idle
<1>1. req[r] \in {Idle} \cup Early \cup Targeted \cup Rendered
  BY DEF TypeOK, Req, Early, Targeted, Rendered
<1>2. CASE req[r] = Idle
  BY <1>2 DEF Idle
<1>3. CASE req[r] \in Early
  BY <1>3 DEF Early, Idle
<1>4. CASE req[r] \in Targeted
  BY <1>4 DEF Targeted, Idle
<1>5. CASE req[r] \in Rendered
  BY <1>5 DEF Rendered, Idle
<1> QED
  BY <1>1, <1>2, <1>3, <1>4, <1>5

\* The same for the admin calls that still have to invalidate.
LEMMA AdminShapes ==
  ASSUME TypeOK, NEW a \in Admins
  PROVE  admin[a].pc \in {"dropSlug", "dropHome"} =>
           admin[a] \in [pc : {"dropSlug", "dropHome"}, proc : Procs, page : Pages, path : Paths]
BY DEF TypeOK, Admin, Idle

\* A TTL never exceeds the maximum the settings accept.
LEMMA TtlBounds == \A t \in Ttls : t \in Nat /\ t <= MaxTtl
<1> SUFFICES ASSUME NEW t \in Ttls PROVE t \in Nat /\ t <= MaxTtl
  OBVIOUS
<1>1. t \in 0..MaxTtl
  BY TtlAssumption
<1> QED
  BY <1>1, BoundsAssumption

\* The live document of a typed row is a document or null.
LEMMA LiveOfTyped ==
  ASSUME NEW row \in PageRow \cup {Unborn, Deleted}
  PROVE  LiveOf(row) \in Contents \cup {Nothing}
BY DEF LiveOf, PageRow, Stored, Unborn, Deleted

-----------------------------------------------------------------------------
(* Types *)

LEMMA InitTyped == Init => TypeOK
<1> SUFFICES ASSUME Init PROVE TypeOK
  OBVIOUS
<1> USE DEF Init, TypeOK
<1>1. cache \in [Procs -> [Paths -> Entry \cup {Miss}]]
  BY DEF Empty
<1>2. /\ pages \in [Pages -> PageRow \cup {Unborn, Deleted}]
      /\ slug \in [Pages -> Paths \cup {Nothing}]
  OBVIOUS
<1>6. \A p \in Pages : ~Stored(pages[p])
  BY DEF Stored
<1>3. req \in [Reqs -> Req] /\ admin \in [Admins -> Admin]
  BY DEF Req, Admin
<1>4. lastLive \in [Pages -> [Contents -> Nat]]
  OBVIOUS
<1>5. cachedTtl \in [Procs -> Ttls] /\ ttl \in Ttls /\ home \in Pages \cup {Nothing} /\ now \in Nat
  BY TtlAssumption
<1> QED
  BY <1>1, <1>2, <1>3, <1>4, <1>5, <1>6

\* Recording what is live keeps the history typed.
LEMMA ObserveTyped ==
  ASSUME TypeOK, NEW rows, NEW time \in Nat, Observe(rows, time)
  PROVE  lastLive' \in [Pages -> [Contents -> Nat]]
BY DEF TypeOK, Observe

LEMMA WriteTyped ==
  ASSUME TypeOK, NEW p \in Pages, NEW row \in PageRow \cup {Unborn, Deleted}, Write(p, row)
  PROVE  /\ pages' \in [Pages -> PageRow \cup {Unborn, Deleted}]
         /\ lastLive' \in [Pages -> [Contents -> Nat]]
<1>1. pages' \in [Pages -> PageRow \cup {Unborn, Deleted}]
  BY DEF TypeOK, Write
<1>2. lastLive' \in [Pages -> [Contents -> Nat]]
  BY ObserveTyped DEF TypeOK, Write
<1> QED
  BY <1>1, <1>2

LEMMA DatabaseTyped == TypeOK /\ Database => TypeOK'
<1> SUFFICES ASSUME TypeOK, Database PROVE TypeOK'
  OBVIOUS
<1>1. ASSUME NEW p \in Pages, CreatePage(p) PROVE TypeOK'
  <2>1. PICK c \in Contents : Write(p, [status |-> "draft", draft |-> c, live |-> Nothing])
    BY <1>1 DEF CreatePage
  <2>2. [status |-> "draft", draft |-> c, live |-> Nothing] \in PageRow
    BY DEF PageRow
  <2>3. /\ slug' \in [Pages -> Paths \cup {Nothing}]
        /\ \A q \in Pages : Stored(pages'[q]) => slug'[q] \in Paths
    BY <1>1, <2>1 DEF CreatePage, Write, TypeOK
  <2> QED
    BY <1>1, <2>1, <2>2, <2>3, WriteTyped DEF CreatePage, TypeOK
<1>2. ASSUME NEW p \in Pages, UpdatePage(p) PROVE TypeOK'
  <2>1. PICK c \in Contents : Write(p, [pages[p] EXCEPT !.draft = c])
    BY <1>2 DEF UpdatePage
  <2>2. [pages[p] EXCEPT !.draft = c] \in PageRow
    BY <1>2 DEF UpdatePage, Stored, TypeOK, PageRow
  <2>3. /\ slug' \in [Pages -> Paths \cup {Nothing}]
        /\ \A q \in Pages : Stored(pages'[q]) => slug'[q] \in Paths
    BY <1>2, <2>1 DEF UpdatePage, Write, TypeOK
  <2> QED
    BY <1>2, <2>1, <2>2, <2>3, WriteTyped DEF UpdatePage, TypeOK
<1>3. ASSUME NEW p \in Pages, RestoreRevision(p) PROVE TypeOK'
  <2>1. PICK c \in Contents : Write(p, [pages[p] EXCEPT !.status = "draft", !.draft = c])
    BY <1>3 DEF RestoreRevision
  <2>2. [pages[p] EXCEPT !.status = "draft", !.draft = c] \in PageRow
    BY <1>3 DEF RestoreRevision, Stored, TypeOK, PageRow
  <2>3. /\ slug' \in [Pages -> Paths \cup {Nothing}]
        /\ \A q \in Pages : Stored(pages'[q]) => slug'[q] \in Paths
    BY <1>3, <2>1 DEF RestoreRevision, Write, TypeOK
  <2> QED
    BY <1>3, <2>1, <2>2, <2>3, WriteTyped DEF RestoreRevision, TypeOK
<1>4. ASSUME NEW p \in Pages, DeletePage(p) PROVE TypeOK'
  <2>1. /\ slug' \in [Pages -> Paths \cup {Nothing}]
        /\ \A q \in Pages : Stored(pages'[q]) => slug'[q] \in Paths
    BY <1>4 DEF DeletePage, Write, Stored, TypeOK
  <2> QED
    BY <1>4, <2>1, WriteTyped DEF DeletePage, TypeOK
<1>5. ASSUME NEW a \in Admins, NEW s \in Procs, NEW p \in Pages, NEW row \in PageRow,
             Change(a, s, p, row)
      PROVE  TypeOK'
  <2>1. slug[p] \in Paths
    BY <1>5 DEF Change, TypeOK
  <2>2. admin' \in [Admins -> Admin]
    BY <1>5, <2>1 DEF Change, TypeOK, Admin
  <2>3. \A q \in Pages : Stored(pages'[q]) => slug'[q] \in Paths
    BY <1>5, <2>1 DEF Change, Write, TypeOK
  <2> QED
    BY <1>5, <2>2, <2>3, WriteTyped DEF Change, TypeOK
<1>6. ASSUME NEW a \in Admins, NEW s \in Procs, NEW p \in Pages,
             PublishPage(a, s, p) \/ UnpublishPage(a, s, p)
      PROVE  TypeOK'
  <2>1. ASSUME NEW c \in Contents
        PROVE  [status |-> "published", draft |-> c, live |-> c] \in PageRow
    BY DEF PageRow
  <2>2. Stored(pages[p]) => [pages[p] EXCEPT !.status = "draft", !.live = Nothing] \in PageRow
    BY DEF Stored, TypeOK, PageRow
  <2> QED
    BY <1>5, <1>6, <2>1, <2>2 DEF PublishPage, UnpublishPage, Change
<1>7. CASE SetHome \/ SetTtl
  BY <1>7 DEF SetHome, SetTtl, TypeOK
<1> QED
  BY <1>1, <1>2, <1>3, <1>4, <1>6, <1>7 DEF Database

LEMMA InvalidateTyped ==
  ASSUME TypeOK, NEW a \in Admins, Invalidate(a) PROVE TypeOK'
<1>1. CASE InvalidateSlug(a)
  <2>1. cache' \in [Procs -> [Paths -> Entry \cup {Miss}]]
    BY <1>1, AdminShapes DEF InvalidateSlug, InvalidatePath, TypeOK
  <2>2. [admin[a] EXCEPT !.pc = "dropHome"] \in Admin
    BY <1>1, AdminShapes DEF InvalidateSlug, Admin
  <2> QED
    BY <1>1, <2>1, <2>2 DEF InvalidateSlug, TypeOK, db
<1>2. CASE InvalidateHome(a)
  <2>3. admin[a].proc \in Procs
    BY <1>2, AdminShapes DEF InvalidateHome
  <2>4. ASSUME home = admin[a].page
        PROVE  cache' \in [Procs -> [Paths -> Entry \cup {Miss}]]
    <3>1. InvalidatePath(admin[a].proc, Root)
      BY <1>2, <2>4 DEF InvalidateHome
    <3>2. Root \in Paths /\ Miss \in Entry \cup {Miss}
      BY PathsAssumption
    <3> QED
      BY <2>3, <3>1, <3>2 DEF InvalidatePath, TypeOK
  <2>5. ASSUME home # admin[a].page
        PROVE  cache' \in [Procs -> [Paths -> Entry \cup {Miss}]]
    BY <1>2, <2>5 DEF InvalidateHome, TypeOK
  <2>1. cache' \in [Procs -> [Paths -> Entry \cup {Miss}]]
    BY <2>4, <2>5
  <2>2. Idle \in Admin
    BY DEF Admin
  <2> QED
    BY <1>2, <2>1, <2>2 DEF InvalidateHome, TypeOK, db
<1> QED
  BY <1>1, <1>2 DEF Invalidate

\* A step of a request that leaves the cache alone is typed when the request is.
LEMMA GotoTyped ==
  ASSUME TypeOK, NEW r \in Reqs, NEW next \in Req, Goto(r, next),
         UNCHANGED <<now, db, cache, cachedTtl, admin, lastLive>>
  PROVE  TypeOK'
BY DEF TypeOK, Goto, db

\* What a request does once it has its page: a 404, or a typed render.
LEMMA RenderingTyped ==
  ASSUME TypeOK, NEW r \in Reqs, NEW p \in Pages, req[r] \in Early \cup Targeted
  PROVE  Rendering(r, p) \in Req /\ (Rendering(r, p) # Idle => Rendering(r, p) \in Rendered)
<1>1. LiveOf(pages[p]) \in Contents \cup {Nothing}
  BY LiveOfTyped DEF TypeOK
<1>2. req[r].proc \in Procs /\ req[r].path \in Paths /\ req[r].ttl \in Ttls
  BY DEF Early, Targeted
<1>3. Rendering(r, p) # Idle => Rendering(r, p) \in Rendered
  BY <1>1, <1>2 DEF Rendering, Rendered, TypeOK
<1> QED
  BY <1>3 DEF Req, Rendered

LEMMA ServeTyped ==
  ASSUME TypeOK, NEW r \in Reqs, Serve(r) PROVE TypeOK'
<1>1. CASE ReadTtl(r)
  <2>1. PICK s \in Procs, path \in Paths :
          Goto(r, [pc |-> "configure", proc |-> s, path |-> path, ttl |-> ttl])
    BY <1>1 DEF ReadTtl
  <2>2. [pc |-> "configure", proc |-> s, path |-> path, ttl |-> ttl] \in Req
    BY DEF Req, TypeOK
  <2> QED
    BY <1>1, <2>1, <2>2, GotoTyped DEF ReadTtl
<1>2. CASE Lookup(r)
  <2>1. req[r] \in Early
    BY <1>2, ReqShapes DEF Lookup
  <2>2. /\ req[r].proc \in Procs /\ req[r].path \in Paths /\ req[r].ttl \in Ttls
    BY <2>1 DEF Early
  <2>3. Configured(req[r].proc, req[r].ttl) \in [Paths -> Entry \cup {Miss}]
    BY <2>2 DEF Configured, Empty, TypeOK
  <2>4. cache' \in [Procs -> [Paths -> Entry \cup {Miss}]]
    BY <1>2, <2>2, <2>3 DEF Lookup, TypeOK
  <2>5. cachedTtl' \in [Procs -> Ttls]
    BY <1>2, <2>2 DEF Lookup, TypeOK
  <2>6. /\ [req[r] EXCEPT !.pc = "home"] \in Req
        /\ [req[r] EXCEPT !.pc = "slug"] \in Req
    BY <2>1 DEF Early, Req
  <2>7. req' \in [Reqs -> Req]
    BY <1>2, <2>6 DEF Lookup, Goto, TypeOK, Req
  <2> QED
    BY <1>2, <2>4, <2>5, <2>7 DEF Lookup, TypeOK, db
<1>3. CASE ReadHome(r)
  <2>1. req[r] \in Early
    BY <1>3, ReqShapes DEF ReadHome
  <2>2. [req[r] EXCEPT !.pc = "slug"] \in Req
    BY <2>1 DEF Early, Req
  <2>3. home # Nothing => [pc |-> "page", proc |-> req[r].proc, path |-> req[r].path,
                           ttl |-> req[r].ttl, page |-> home] \in Req
    BY <2>1 DEF Early, Req, TypeOK
  <2> QED
    BY <1>3, <2>2, <2>3, GotoTyped DEF ReadHome
<1>4. CASE ReadPage(r)
  <2>1. req[r] \in Targeted
    BY <1>4, ReqShapes DEF ReadPage
  <2>2. req[r].page \in Pages
    BY <2>1 DEF Targeted
  <2> QED
    BY <1>4, <2>1, <2>2, RenderingTyped, GotoTyped DEF ReadPage
<1>5. CASE ReadSlug(r)
  <2>1. req[r] \in Early
    BY <1>5, ReqShapes DEF ReadSlug
  <2>2. Idle \in Req
    BY DEF Req
  <2> QED
    BY <1>5, <2>1, <2>2, RenderingTyped, GotoTyped DEF ReadSlug
<1>6. CASE Mint(r)
  <2>1. req[r] \in Rendered
    BY <1>6, ReqShapes DEF Mint
  <2>2. [req[r] EXCEPT !.pc = "fill", !.minted = now] \in Req
    BY <2>1 DEF Rendered, Req, TypeOK
  <2> QED
    BY <1>6, <2>2, GotoTyped DEF Mint
<1>7. CASE Fill(r)
  <2>1. req[r] \in Rendered
    BY <1>7, ReqShapes DEF Fill
  <2>2. ASSUME req[r].ttl # 0 PROVE FilledEntry(r) \in Entry
    <3>1. now + req[r].ttl \in Nat \ {0}
      <4>1. req[r].ttl \in Ttls /\ now \in Nat
        BY <2>1 DEF Rendered, TypeOK
      <4>2. req[r].ttl \in Nat
        BY <4>1, TtlBounds
      <4> QED
        BY <2>2, <4>1, <4>2
    <3>2. (LiveOf(pages[req[r].page]) # req[r].html) \in BOOLEAN
      OBVIOUS
    <3> QED
      BY <2>1, <3>1, <3>2 DEF FilledEntry, Rendered, Entry
  <2>3. ASSUME req[r].ttl # 0,
               NEW entries \in Put(req[r].proc, req[r].path, FilledEntry(r))
        PROVE  entries \in [Paths -> Entry \cup {Miss}]
    BY <2>1, <2>2, <2>3 DEF Put, Rendered, TypeOK
  <2>4. cache' \in [Procs -> [Paths -> Entry \cup {Miss}]]
    BY <1>7, <2>1, <2>3 DEF Fill, Rendered, TypeOK
  <2>5. req' \in [Reqs -> Req]
    BY <1>7 DEF Fill, Goto, TypeOK, Req
  <2> QED
    BY <1>7, <2>4, <2>5 DEF Fill, TypeOK, db
<1> QED
  BY <1>1, <1>2, <1>3, <1>4, <1>5, <1>6, <1>7 DEF Serve

LEMMA NextTyped == TypeOK /\ [Next]_vars => TypeOK'
<1> SUFFICES ASSUME TypeOK, [Next]_vars PROVE TypeOK'
  OBVIOUS
<1>1. CASE Database
  BY <1>1, DatabaseTyped
<1>2. ASSUME NEW a \in Admins, Invalidate(a) PROVE TypeOK'
  BY <1>2, InvalidateTyped
<1>3. ASSUME NEW r \in Reqs, Serve(r) PROVE TypeOK'
  BY <1>3, ServeTyped
<1>4. ASSUME NEW s \in Procs, Crash(s) PROVE TypeOK'
  BY <1>4, TtlAssumption DEF Crash, TypeOK, db, Empty, Req, Admin
<1>5. CASE Tick
  <2>1. lastLive' \in [Pages -> [Contents -> Nat]]
    BY <1>5, ObserveTyped DEF Tick, TypeOK
  <2> QED
    BY <1>5, <2>1 DEF Tick, TypeOK, db
<1>6. CASE UNCHANGED vars
  BY <1>6 DEF vars, db, TypeOK
<1> QED
  BY <1>1, <1>2, <1>3, <1>4, <1>5, <1>6 DEF Next

\* Rows, cache entries and the local variables of requests and admin calls keep
\* their types, however many processes, requests, pages and paths there are.
THEOREM SiteTypeCorrect == Spec => []TypeOK
<1> QED
  BY InitTyped, NextTyped, PTL DEF Spec

-----------------------------------------------------------------------------
(* Staleness *)

\* The history is never ahead of the clock, and up to date for what is live.
LiveSeen ==
  \A p \in Pages, c \in Contents :
    /\ lastLive[p][c] <= now
    /\ LiveOf(pages[p]) = c => lastLive[p][c] = now

\* A render works on a document that was live when it was read, not longer ago
\* than a render takes.
RenderFresh ==
  \A r \in Reqs : InRender(r) =>
    /\ 0 < req[r].readAt /\ req[r].readAt <= lastLive[req[r].page][req[r].html]
    /\ now <= req[r].readAt + MaxRender
    /\ req[r].pc = "fill" => req[r].readAt <= req[r].minted

FreshEntry(entry, last) ==
  /\ 0 < last /\ entry.exp <= last + (MaxRender + MaxTtl)
  /\ entry.exp <= entry.minted + NonceTtl

\* An entry expires within the longest TTL and one render of the time its
\* document was last live, and before its nonce does.
EntryFresh ==
  \A s \in Procs, path \in Paths : cache[s][path] # Miss =>
    FreshEntry(cache[s][path], lastLive[cache[s][path].page][cache[s][path].html])

Fresh == now > 0 /\ LiveSeen /\ RenderFresh /\ EntryFresh

\* A document's last live time only moves forward.
LEMMA LastLiveGrows ==
  ASSUME TypeOK, LiveSeen, NEW rows, NEW time \in Nat, now <= time, Observe(rows, time)
  PROVE  \A p \in Pages, c \in Contents : lastLive[p][c] <= lastLive'[p][c]
<1> SUFFICES ASSUME NEW p \in Pages, NEW c \in Contents
             PROVE  lastLive[p][c] <= lastLive'[p][c]
  OBVIOUS
<1>1. lastLive[p][c] \in Nat /\ now \in Nat /\ lastLive[p][c] <= now
  BY DEF TypeOK, LiveSeen
<1>2. lastLive'[p][c] = IF LiveOf(rows[p]) = c THEN time ELSE lastLive[p][c]
  BY DEF Observe
<1> QED
  BY <1>1, <1>2

\* Entries and renders stay fresh when the history moves forward.
LEMMA EntryStays ==
  ASSUME TypeOK, TypeOK', EntryFresh,
         \A p \in Pages, c \in Contents : lastLive[p][c] <= lastLive'[p][c],
         \A s \in Procs, path \in Paths : cache'[s][path] \in {cache[s][path], Miss}
  PROVE  EntryFresh'
<1> SUFFICES ASSUME NEW s \in Procs, NEW path \in Paths, cache'[s][path] # Miss
             PROVE  FreshEntry(cache'[s][path],
                               lastLive'[cache'[s][path].page][cache'[s][path].html])
  BY DEF EntryFresh, FreshEntry, Miss
<1> DEFINE entry == cache[s][path]
<1>1. cache'[s][path] = entry /\ entry # Miss /\ entry \in Entry
  BY DEF TypeOK
<1>2. entry.page \in Pages /\ entry.html \in Contents /\ entry.exp \in Nat
  BY <1>1 DEF Entry
<1>3. /\ lastLive[entry.page][entry.html] \in Nat
      /\ lastLive'[entry.page][entry.html] \in Nat
      /\ lastLive[entry.page][entry.html] <= lastLive'[entry.page][entry.html]
  BY <1>2 DEF TypeOK
<1>4. FreshEntry(entry, lastLive[entry.page][entry.html])
  BY <1>1 DEF EntryFresh
<1>5. ASSUME NEW l \in Nat, NEW m \in Nat, l <= m, FreshEntry(entry, l)
      PROVE  FreshEntry(entry, m)
  BY <1>2, <1>5, BoundsAssumption DEF FreshEntry
<1> QED
  BY <1>1, <1>3, <1>4, <1>5

LEMMA RenderStays ==
  ASSUME TypeOK, TypeOK', RenderFresh,
         \A p \in Pages, c \in Contents : lastLive[p][c] <= lastLive'[p][c],
         now' = now,
         \A r \in Reqs : InRender(r)' => req'[r] = req[r]
  PROVE  RenderFresh'
<1> SUFFICES ASSUME NEW r \in Reqs, InRender(r)'
             PROVE  /\ 0 < req'[r].readAt
                    /\ req'[r].readAt <= lastLive'[req'[r].page][req'[r].html]
                    /\ now' <= req'[r].readAt + MaxRender
                    /\ req'[r].pc = "fill" => req'[r].readAt <= req'[r].minted
  BY DEF RenderFresh
<1>1. req'[r] = req[r] /\ InRender(r)
  BY DEF InRender
<1>2. req[r] \in Rendered
  BY <1>1, ReqShapes DEF InRender
<1>3. req[r].page \in Pages /\ req[r].html \in Contents /\ req[r].readAt \in Nat
  BY <1>2 DEF Rendered
<1>4. /\ lastLive[req[r].page][req[r].html] \in Nat
      /\ lastLive'[req[r].page][req[r].html] \in Nat
      /\ lastLive[req[r].page][req[r].html] <= lastLive'[req[r].page][req[r].html]
  BY <1>3 DEF TypeOK
<1>5. /\ 0 < req[r].readAt /\ req[r].readAt <= lastLive[req[r].page][req[r].html]
      /\ now <= req[r].readAt + MaxRender
      /\ req[r].pc = "fill" => req[r].readAt <= req[r].minted
  BY <1>1 DEF RenderFresh
<1> QED
  BY <1>1, <1>3, <1>4, <1>5

\* A write of the pages table keeps everything fresh.
LEMMA WriteFresh ==
  ASSUME TypeOK, TypeOK', Fresh, NEW p \in Pages, NEW row, Write(p, row),
         now' = now, cache' = cache, req' = req
  PROVE  Fresh'
<1>1. Observe(pages', now) /\ now \in Nat
  BY DEF Write, TypeOK
<1>2. \A q \in Pages, c \in Contents : lastLive[q][c] <= lastLive'[q][c]
  BY <1>1, LastLiveGrows DEF Fresh
<1>3. LiveSeen'
  BY <1>1 DEF Fresh, LiveSeen, Observe
<1>4. EntryFresh'
  BY <1>2, EntryStays DEF Fresh
<1>5. RenderFresh'
  BY <1>2, RenderStays DEF Fresh
<1> QED
  BY <1>3, <1>4, <1>5 DEF Fresh

\* A step that leaves the pages and the clock alone keeps everything fresh when
\* it starts no render and adds no entry.
LEMMA QuietFresh ==
  ASSUME TypeOK, TypeOK', Fresh, UNCHANGED <<now, pages, lastLive>>,
         \A r \in Reqs : InRender(r)' => req'[r] = req[r],
         \A s \in Procs, path \in Paths : cache'[s][path] \in {cache[s][path], Miss}
  PROVE  Fresh'
<1>1. \A q \in Pages, c \in Contents : lastLive[q][c] <= lastLive'[q][c]
  BY DEF TypeOK
<1>2. LiveSeen'
  BY DEF Fresh, LiveSeen
<1>3. EntryFresh'
  BY <1>1, EntryStays DEF Fresh
<1>4. RenderFresh'
  BY <1>1, RenderStays DEF Fresh
<1> QED
  BY <1>2, <1>3, <1>4 DEF Fresh

LEMMA InitFresh == Init => Fresh
<1> SUFFICES ASSUME Init PROVE Fresh
  OBVIOUS
<1>1. \A p \in Pages : LiveOf(pages[p]) = Nothing
  BY DEF Init, LiveOf, Stored
<1>2. LiveSeen
  BY <1>1, PathsAssumption DEF Init, LiveSeen
<1>3. RenderFresh
  BY DEF Init, RenderFresh, InRender, Idle
<1>4. EntryFresh
  BY DEF Init, EntryFresh, Empty
<1> QED
  BY <1>2, <1>3, <1>4 DEF Fresh, Init

LEMMA DatabaseFresh == TypeOK /\ TypeOK' /\ Fresh /\ Database => Fresh'
<1> SUFFICES ASSUME TypeOK, TypeOK', Fresh, Database PROVE Fresh'
  OBVIOUS
<1>1. ASSUME NEW p \in Pages, CreatePage(p) PROVE Fresh'
  BY <1>1, WriteFresh DEF CreatePage
<1>2. ASSUME NEW p \in Pages, UpdatePage(p) PROVE Fresh'
  BY <1>2, WriteFresh DEF UpdatePage
<1>3. ASSUME NEW p \in Pages, RestoreRevision(p) PROVE Fresh'
  BY <1>3, WriteFresh DEF RestoreRevision
<1>4. ASSUME NEW p \in Pages, DeletePage(p) PROVE Fresh'
  BY <1>4, WriteFresh DEF DeletePage
<1>5. ASSUME NEW a \in Admins, NEW s \in Procs, NEW p \in Pages,
             PublishPage(a, s, p) \/ UnpublishPage(a, s, p)
      PROVE  Fresh'
  <2>1. PICK row : Change(a, s, p, row)
    BY <1>5 DEF PublishPage, UnpublishPage
  <2> QED
    BY <2>1, WriteFresh DEF Change
<1>6. CASE SetHome \/ SetTtl
  BY <1>6, QuietFresh DEF SetHome, SetTtl
<1> QED
  BY <1>1, <1>2, <1>3, <1>4, <1>5, <1>6 DEF Database

LEMMA DropDrops ==
  ASSUME TypeOK, NEW t \in Procs, NEW gone \in Paths, InvalidatePath(t, gone),
         NEW s \in Procs, NEW path \in Paths
  PROVE  cache'[s][path] = IF s = t /\ path = gone THEN Miss ELSE cache[s][path]
BY DEF InvalidatePath, TypeOK

\* An invalidation drops entries.
LEMMA InvalidateDrops ==
  ASSUME TypeOK, NEW a \in Admins, Invalidate(a)
  PROVE  \A s \in Procs, path \in Paths : cache'[s][path] \in {cache[s][path], Miss}
<1>1. ASSUME NEW t \in Procs, NEW gone \in Paths, InvalidatePath(t, gone)
      PROVE  \A s \in Procs, path \in Paths : cache'[s][path] \in {cache[s][path], Miss}
  BY <1>1, DropDrops
<1>2. CASE InvalidateSlug(a)
  <2>1. admin[a].proc \in Procs /\ admin[a].path \in Paths
    BY <1>2, AdminShapes DEF InvalidateSlug
  <2> QED
    BY <1>1, <1>2, <2>1 DEF InvalidateSlug
<1>3. CASE InvalidateHome(a)
  <2>1. admin[a].proc \in Procs /\ Root \in Paths
    BY <1>3, AdminShapes, PathsAssumption DEF InvalidateHome
  <2> QED
    BY <1>1, <1>3, <2>1 DEF InvalidateHome
<1> QED
  BY <1>2, <1>3 DEF Invalidate

LEMMA InvalidateFresh ==
  ASSUME TypeOK, TypeOK', Fresh, NEW a \in Admins, Invalidate(a) PROVE Fresh'
BY InvalidateDrops, QuietFresh DEF Invalidate, InvalidateSlug, InvalidateHome, db

\* A request moves and nothing else does.
LEMMA GotoFresh ==
  ASSUME TypeOK, TypeOK', Fresh, NEW r \in Reqs, NEW next, Goto(r, next),
         next.pc \notin {"mint", "fill"},
         UNCHANGED <<now, db, cache, cachedTtl, admin, lastLive>>
  PROVE  Fresh'
<1>1. \A q \in Reqs : InRender(q)' => req'[q] = req[q]
  BY DEF Goto, InRender, TypeOK
<1>2. UNCHANGED <<now, pages, lastLive, cache>>
  BY DEF db
<1> QED
  BY <1>1, <1>2, QuietFresh

\* A render starts on a document that is live at this moment.
LEMMA RenderingFresh ==
  ASSUME TypeOK, TypeOK', Fresh, NEW r \in Reqs, NEW p \in Pages,
         req[r] \in Early \cup Targeted, Goto(r, Rendering(r, p)),
         UNCHANGED <<now, db, cache, cachedTtl, admin, lastLive>>
  PROVE  Fresh'
<1>1. CASE Rendering(r, p) = Idle
  BY <1>1, GotoFresh DEF Idle
<1>2. CASE Rendering(r, p) # Idle
  <2> DEFINE next == Rendering(r, p)
  <2>1. /\ next.page = p /\ next.html = LiveOf(pages[p]) /\ next.readAt = now /\ next.pc = "mint"
        /\ LiveOf(pages[p]) # Nothing
    BY <1>2 DEF Rendering
  <2>2. LiveOf(pages[p]) \in Contents
    BY <2>1, LiveOfTyped DEF TypeOK
  <2>3. lastLive[p][LiveOf(pages[p])] = now
    BY <2>2 DEF Fresh, LiveSeen
  <2>4. UNCHANGED <<now, pages, lastLive, cache>>
    BY DEF db
  <2>5. req' = [req EXCEPT ![r] = next]
    BY DEF Goto
  <2>6. RenderFresh'
    <3> SUFFICES ASSUME NEW q \in Reqs, InRender(q)'
                 PROVE  /\ 0 < req'[q].readAt
                        /\ req'[q].readAt <= lastLive'[req'[q].page][req'[q].html]
                        /\ now' <= req'[q].readAt + MaxRender
                        /\ req'[q].pc = "fill" => req'[q].readAt <= req'[q].minted
      BY DEF RenderFresh
    <3>1. CASE q = r
      <4>1. req'[q] = next
        BY <2>5, <3>1 DEF TypeOK
      <4>2. now \in Nat /\ now > 0 /\ MaxRender \in Nat
        BY BoundsAssumption DEF TypeOK, Fresh
      <4> HIDE DEF next
      <4> QED
        BY <2>1, <2>3, <2>4, <4>1, <4>2
    <3>2. CASE q # r
      BY <2>4, <2>5, <3>2 DEF Fresh, RenderFresh, InRender, TypeOK
    <3> QED
      BY <3>1, <3>2
  <2>7. LiveSeen' /\ EntryFresh'
    BY <2>4 DEF Fresh, LiveSeen, EntryFresh
  <2> QED
    BY <2>4, <2>6, <2>7 DEF Fresh
<1> QED
  BY <1>1, <1>2

LEMMA MintFresh ==
  ASSUME TypeOK, TypeOK', Fresh, NEW r \in Reqs, Mint(r) PROVE Fresh'
<1>1. req[r] \in Rendered /\ InRender(r)
  BY ReqShapes DEF Mint, InRender
<1>2. UNCHANGED <<now, pages, lastLive, cache>>
  BY DEF Mint, db
<1>3. req[r].page \in Pages /\ req[r].html \in Contents /\ req[r].readAt \in Nat
  BY <1>1 DEF Rendered
<1>4. req[r].readAt <= now
  <2>1. lastLive[req[r].page][req[r].html] <= now /\ lastLive[req[r].page][req[r].html] \in Nat
    BY <1>3 DEF Fresh, LiveSeen, TypeOK
  <2> QED
    BY <1>1, <1>3, <2>1 DEF Fresh, RenderFresh, TypeOK
<1>5. /\ req'[r].readAt = req[r].readAt /\ req'[r].page = req[r].page
      /\ req'[r].html = req[r].html /\ req'[r].minted = now /\ req'[r].pc = "fill"
  BY <1>1 DEF Mint, Goto, TypeOK, Rendered
<1>6. RenderFresh'
  <2> SUFFICES ASSUME NEW q \in Reqs, InRender(q)'
               PROVE  /\ 0 < req'[q].readAt
                      /\ req'[q].readAt <= lastLive'[req'[q].page][req'[q].html]
                      /\ now' <= req'[q].readAt + MaxRender
                      /\ req'[q].pc = "fill" => req'[q].readAt <= req'[q].minted
    BY DEF RenderFresh
  <2>1. CASE q = r
    BY <1>1, <1>2, <1>4, <1>5, <2>1 DEF Fresh, RenderFresh
  <2>2. CASE q # r
    BY <1>2, <2>2 DEF Mint, Goto, Fresh, RenderFresh, InRender, TypeOK
  <2> QED
    BY <2>1, <2>2
<1> QED
  BY <1>2, <1>6 DEF Fresh, LiveSeen, EntryFresh

\* A fill stores the entry it built, or nothing, and evicts at most.
LEMMA FillStores ==
  ASSUME TypeOK, NEW r \in Reqs, Fill(r), NEW s \in Procs, NEW path \in Paths
  PROVE  \/ cache'[s][path] \in {cache[s][path], Miss}
         \/ path = req[r].path /\ cache'[s][path] = FilledEntry(r)
<1>1. req[r].proc \in Procs /\ req[r].path \in Paths
  BY ReqShapes DEF Fill, Rendered
<1> DEFINE new == FilledEntry(r)
<1>2. CASE req[r].ttl = 0
  BY <1>2 DEF Fill
<1>3. CASE req[r].ttl # 0
  <2>1. PICK entries \in Put(req[r].proc, req[r].path, new) :
          cache' = [cache EXCEPT ![req[r].proc] = entries]
    BY <1>3 DEF Fill
  <2>2. \/ entries[path] \in {cache[req[r].proc][path], Miss}
        \/ path = req[r].path /\ entries[path] = new
    <3> DEFINE stored == [cache[req[r].proc] EXCEPT ![req[r].path] = new]
    <3> HIDE DEF new
    <3>1. /\ DOMAIN stored = Paths
          /\ stored[path] = IF path = req[r].path THEN new ELSE cache[req[r].proc][path]
      BY <1>1 DEF TypeOK
    <3>2. entries \in {[stored EXCEPT ![old] = Miss] : old \in Holds(req[r].proc) \ {req[r].path}}
            \/ entries = stored
      BY <2>1 DEF Put
    <3> HIDE DEF stored
    <3>3. CASE entries = stored
      BY <3>1, <3>3
    <3>4. ASSUME NEW old \in Holds(req[r].proc) \ {req[r].path},
                 entries = [stored EXCEPT ![old] = Miss]
          PROVE  entries[path] \in {stored[path], Miss}
      BY <3>1, <3>4
    <3> QED
      BY <3>1, <3>2, <3>3, <3>4
  <2> HIDE DEF new
  <2>3. \/ cache'[s][path] \in {cache[s][path], Miss}
        \/ path = req[r].path /\ cache'[s][path] = new
    BY <1>1, <2>1, <2>2 DEF TypeOK
  <2> QED
    BY <2>3 DEF new
<1> QED
  BY <1>2, <1>3

LEMMA FillFresh ==
  ASSUME TypeOK, TypeOK', Fresh, NEW r \in Reqs, Fill(r) PROVE Fresh'
<1>1. req[r] \in Rendered /\ InRender(r)
  BY ReqShapes DEF Fill, InRender
<1>2. UNCHANGED <<now, pages, lastLive>>
  BY DEF Fill, db
<1>3. \A q \in Reqs : InRender(q)' => req'[q] = req[q]
  BY DEF Fill, Goto, InRender, Idle, TypeOK
<1>4. /\ req[r].page \in Pages /\ req[r].html \in Contents /\ req[r].readAt \in Nat
      /\ req[r].proc \in Procs /\ req[r].path \in Paths /\ req[r].minted \in Nat
      /\ req[r].ttl \in Nat /\ req[r].ttl <= MaxTtl
  BY <1>1, TtlBounds DEF Rendered
<1> DEFINE new == FilledEntry(r)
           last == lastLive[req[r].page][req[r].html]
<1>5. FreshEntry(new, last)
  <2>1. /\ last \in Nat /\ now \in Nat /\ MaxRender \in Nat /\ MaxTtl \in Nat /\ NonceTtl \in Nat
        /\ MaxTtl + MaxRender <= NonceTtl
    BY <1>4, BoundsAssumption, NonceAssumption DEF TypeOK
  <2>2. /\ 0 < req[r].readAt /\ req[r].readAt <= last
        /\ now <= req[r].readAt + MaxRender /\ req[r].readAt <= req[r].minted
    BY <1>1 DEF Fresh, RenderFresh, Fill
  <2>3. new.exp = now + req[r].ttl /\ new.minted = req[r].minted
    BY DEF FilledEntry
  <2> HIDE DEF new, last
  <2> QED
    BY <1>4, <2>1, <2>2, <2>3 DEF FreshEntry
<1>6. EntryFresh'
  <2>1. ASSUME NEW s \in Procs, NEW path \in Paths
        PROVE  cache'[s][path] \in {cache[s][path], Miss, new}
    BY FillStores
  <2>3. ASSUME NEW s \in Procs, NEW path \in Paths, cache'[s][path] # Miss,
               cache'[s][path] = cache[s][path]
        PROVE  FreshEntry(cache'[s][path], lastLive[cache'[s][path].page][cache'[s][path].html])
    BY <2>3 DEF Fresh, EntryFresh
  <2>4. new.page = req[r].page /\ new.html = req[r].html
    BY DEF FilledEntry
  <2> HIDE DEF new
  <2>5. ASSUME NEW s \in Procs, NEW path \in Paths, cache'[s][path] # Miss
        PROVE  FreshEntry(cache'[s][path], lastLive[cache'[s][path].page][cache'[s][path].html])
    BY <1>5, <2>1, <2>3, <2>4, <2>5
  <2> QED
    BY <1>2, <2>5 DEF EntryFresh, FreshEntry, Miss
<1>7. RenderFresh'
  <2>1. \A q \in Pages, c \in Contents : lastLive[q][c] <= lastLive'[q][c]
    BY <1>2 DEF TypeOK
  <2> QED
    BY <1>2, <1>3, <2>1, RenderStays DEF Fresh
<1> QED
  BY <1>2, <1>6, <1>7 DEF Fresh, LiveSeen

\* A lookup drops entries, and starts no render.
LEMMA LookupDrops ==
  ASSUME TypeOK, NEW r \in Reqs, Lookup(r)
  PROVE  \A s \in Procs, path \in Paths : cache'[s][path] \in {cache[s][path], Miss}
<1>1. req[r].proc \in Procs /\ req[r].path \in Paths
  BY ReqShapes DEF Lookup, Early
<1> DEFINE entries == Configured(req[r].proc, req[r].ttl)
<1>2. /\ DOMAIN entries = Paths
      /\ \A path \in Paths : entries[path] \in {cache[req[r].proc][path], Miss}
  BY <1>1 DEF Configured, Empty, TypeOK
<1>3. \/ cache' = [cache EXCEPT ![req[r].proc] = entries]
      \/ cache' = [cache EXCEPT ![req[r].proc] = [entries EXCEPT ![req[r].path] = entries[req[r].path]]]
      \/ cache' = [cache EXCEPT ![req[r].proc] = [entries EXCEPT ![req[r].path] = Miss]]
  BY DEF Lookup
<1> HIDE DEF entries
<1>4. ASSUME NEW kept, \A path \in Paths : kept[path] \in {entries[path], Miss},
             cache' = [cache EXCEPT ![req[r].proc] = kept],
             NEW s \in Procs, NEW path \in Paths
      PROVE  cache'[s][path] \in {cache[s][path], Miss}
  BY <1>1, <1>2, <1>4 DEF TypeOK
<1>5. ASSUME NEW new, new \in {entries[req[r].path], Miss}, NEW path \in Paths
      PROVE  [entries EXCEPT ![req[r].path] = new][path] \in {entries[path], Miss}
  BY <1>1, <1>2, <1>5
<1> QED
  BY <1>3, <1>4, <1>5

LEMMA LookupMoves ==
  ASSUME TypeOK, NEW r \in Reqs, Lookup(r)
  PROVE  /\ req'[r].pc \in {"idle", "home", "slug"} /\ (req'[r].pc = "home" => req'[r].path = Root)
         /\ \A q \in Reqs \ {r} : req'[q] = req[q]
  BY ReqShapes DEF Lookup, Goto, TypeOK, Idle, Early

LEMMA LookupFresh ==
  ASSUME TypeOK, TypeOK', Fresh, NEW r \in Reqs, Lookup(r) PROVE Fresh'
<1>1. UNCHANGED <<now, pages, lastLive>>
  BY DEF Lookup, db
<1>2. \A q \in Reqs : InRender(q)' => req'[q] = req[q]
  BY LookupMoves DEF InRender
<1> QED
  BY <1>1, <1>2, LookupDrops, QuietFresh

LEMMA ServeFresh ==
  ASSUME TypeOK, TypeOK', Fresh, NEW r \in Reqs, Serve(r) PROVE Fresh'
<1>1. CASE ReadTtl(r)
  BY <1>1, GotoFresh DEF ReadTtl
<1>2. CASE Lookup(r)
  BY <1>2, LookupFresh
<1>3. CASE ReadHome(r)
  <2>1. req[r] \in Early
    BY <1>3, ReqShapes DEF ReadHome
  <2>2. [req[r] EXCEPT !.pc = "slug"].pc = "slug"
    BY <2>1 DEF Early
  <2> QED
    BY <1>3, <2>2, GotoFresh DEF ReadHome
<1>4. CASE ReadPage(r)
  <2>1. req[r] \in Targeted /\ req[r].page \in Pages
    BY <1>4, ReqShapes DEF ReadPage, Targeted
  <2> QED
    BY <1>4, <2>1, RenderingFresh DEF ReadPage
<1>5. CASE ReadSlug(r)
  <2>1. req[r] \in Early
    BY <1>5, ReqShapes DEF ReadSlug
  <2>2. Idle.pc \notin {"mint", "fill"}
    BY DEF Idle
  <2> QED
    BY <1>5, <2>1, <2>2, RenderingFresh, GotoFresh DEF ReadSlug
<1>6. CASE Mint(r)
  BY <1>6, MintFresh
<1>7. CASE Fill(r)
  BY <1>7, FillFresh
<1> QED
  BY <1>1, <1>2, <1>3, <1>4, <1>5, <1>6, <1>7 DEF Serve

LEMMA CrashFresh ==
  ASSUME TypeOK, TypeOK', Fresh, NEW s \in Procs, Crash(s) PROVE Fresh'
<1>1. UNCHANGED <<now, pages, lastLive>>
  BY DEF Crash, db
<1>2. \A t \in Procs, path \in Paths : cache'[t][path] \in {cache[t][path], Miss}
  BY DEF Crash, Empty, TypeOK
<1>3. \A q \in Reqs : InRender(q)' => req'[q] = req[q]
  BY DEF Crash, InRender, Idle
<1> QED
  BY <1>1, <1>2, <1>3, QuietFresh

\* Time passes: what is live is seen again, and no render outlives its bound.
LEMMA TickFresh == TypeOK /\ TypeOK' /\ Fresh /\ Tick => Fresh'
<1> SUFFICES ASSUME TypeOK, TypeOK', Fresh, Tick PROVE Fresh'
  OBVIOUS
<1>1. /\ now \in Nat /\ now' = now + 1 /\ Observe(pages, now + 1)
      /\ pages' = pages /\ cache' = cache /\ req' = req
  BY DEF Tick, TypeOK, db
<1>2. \A p \in Pages, c \in Contents : lastLive[p][c] <= lastLive'[p][c]
  BY <1>1, LastLiveGrows DEF Fresh
<1>3. LiveSeen'
  <2> SUFFICES ASSUME NEW p \in Pages, NEW c \in Contents
               PROVE  /\ lastLive'[p][c] <= now'
                      /\ LiveOf(pages'[p]) = c => lastLive'[p][c] = now'
    BY DEF LiveSeen
  <2>1. lastLive'[p][c] = IF LiveOf(pages[p]) = c THEN now + 1 ELSE lastLive[p][c]
    BY <1>1 DEF Observe
  <2>2. lastLive[p][c] <= now /\ lastLive[p][c] \in Nat
    BY DEF Fresh, LiveSeen, TypeOK
  <2> QED
    BY <1>1, <2>1, <2>2
<1>4. EntryFresh'
  BY <1>1, <1>2, EntryStays DEF Fresh
<1>5. RenderFresh'
  <2> SUFFICES ASSUME NEW r \in Reqs, InRender(r)
               PROVE  /\ 0 < req[r].readAt
                      /\ req[r].readAt <= lastLive'[req[r].page][req[r].html]
                      /\ now + 1 <= req[r].readAt + MaxRender
                      /\ req[r].pc = "fill" => req[r].readAt <= req[r].minted
    BY <1>1 DEF RenderFresh, InRender
  <2>1. req[r].page \in Pages /\ req[r].html \in Contents /\ req[r].readAt \in Nat
    BY ReqShapes DEF InRender, Rendered
  <2>2. /\ lastLive[req[r].page][req[r].html] \in Nat
        /\ lastLive'[req[r].page][req[r].html] \in Nat
        /\ lastLive[req[r].page][req[r].html] <= lastLive'[req[r].page][req[r].html]
    BY <1>2, <2>1 DEF TypeOK
  <2>3. /\ 0 < req[r].readAt /\ req[r].readAt <= lastLive[req[r].page][req[r].html]
        /\ req[r].pc = "fill" => req[r].readAt <= req[r].minted
    BY DEF Fresh, RenderFresh
  <2>4. now < req[r].readAt + MaxRender /\ MaxRender \in Nat
    BY BoundsAssumption DEF Tick
  <2> QED
    BY <1>1, <2>1, <2>2, <2>3, <2>4
<1> QED
  BY <1>1, <1>3, <1>4, <1>5 DEF Fresh

LEMMA NextFresh == TypeOK /\ TypeOK' /\ Fresh /\ [Next]_vars => Fresh'
<1> SUFFICES ASSUME TypeOK, TypeOK', Fresh, [Next]_vars PROVE Fresh'
  OBVIOUS
<1>1. CASE Database
  BY <1>1, DatabaseFresh
<1>2. ASSUME NEW a \in Admins, Invalidate(a) PROVE Fresh'
  BY <1>2, InvalidateFresh
<1>3. ASSUME NEW r \in Reqs, Serve(r) PROVE Fresh'
  BY <1>3, ServeFresh
<1>4. ASSUME NEW s \in Procs, Crash(s) PROVE Fresh'
  BY <1>4, CrashFresh
<1>5. CASE Tick
  BY <1>5, TickFresh
<1>6. CASE UNCHANGED vars
  BY <1>6, QuietFresh DEF vars, db
<1> QED
  BY <1>1, <1>2, <1>3, <1>4, <1>5, <1>6 DEF Next

\* What a visitor gets was live within the last TTL and one render: for any
\* number of processes, requests and admin calls, in any order.
THEOREM ServedIsFresh == Spec => []BoundedStaleness
<1>1. TypeOK /\ Fresh => BoundedStaleness
  <2> SUFFICES ASSUME TypeOK, Fresh, NEW s \in Procs, NEW path \in Paths, Servable(s, path)
               PROVE  /\ lastLive[cache[s][path].page][cache[s][path].html] > 0
                      /\ now < lastLive[cache[s][path].page][cache[s][path].html]
                                 + MaxRender + MaxTtl
    BY DEF BoundedStaleness
  <2> DEFINE entry == cache[s][path]
             last == lastLive[entry.page][entry.html]
  <2>1. now \in Nat /\ entry.exp > now
    BY DEF TypeOK, Servable, Hit
  <2>2. entry # Miss /\ entry \in Entry
    BY <2>1 DEF TypeOK, Miss
  <2>3. last \in Nat /\ entry.exp \in Nat
    BY <2>2 DEF Entry, TypeOK
  <2>4. 0 < last /\ entry.exp <= last + (MaxRender + MaxTtl)
    BY <2>2 DEF Fresh, EntryFresh, FreshEntry
  <2> HIDE DEF entry, last
  <2>5. last > 0 /\ now < last + MaxRender + MaxTtl
    BY <2>1, <2>3, <2>4, BoundsAssumption
  <2> QED
    BY <2>5 DEF entry, last
<1> QED
  BY <1>1, InitTyped, NextTyped, InitFresh, NextFresh, PTL DEF Spec

\* A page served from a cache never carries a nonce that has expired.
THEOREM NoncesOutliveEntries == Spec => []NonceOutlivesEntry
<1>1. Fresh => NonceOutlivesEntry
  BY DEF Fresh, EntryFresh, FreshEntry, NonceOutlivesEntry
<1> QED
  BY <1>1, InitTyped, NextTyped, InitFresh, NextFresh, PTL DEF Spec

-----------------------------------------------------------------------------
(* Invalidation *)

\* Where p can be found, and where its entries are: under its slug, and under "/" when it
\* is the homepage.
Place(path, p, rows, sl) == Stored(rows[p]) /\ (path = sl[p] \/ (path = Root /\ p = home))

\* The call x has still to drop what lies at path for p.
Drops(x, path, p) ==
  /\ x # Idle /\ x.page = p
  /\ \/ x.pc = "dropSlug" /\ path = x.path
     \/ path = Root /\ p = home

ReqPlaced(x, rows, sl) ==
  /\ x.pc \in {"mint", "fill"} => Place(x.path, x.page, rows, sl)
  /\ x.pc = "home" => x.path = Root
  /\ x.pc = "page" => x.path = Root /\ x.page = home

AdminPlaced(x, rows, sl) ==
  x # Idle => Stored(rows[x.page]) /\ (x.pc = "dropSlug" => x.path = sl[x.page])

\* An entry lies where its page is, and if it was right when it was stored and no longer
\* is, then somebody has still to drop it.
EntryPlaced(e, path, rows, sl, calls) ==
  e # Miss =>
    /\ Place(path, e.page, rows, sl)
    /\ ~e.raced /\ e.html # LiveOf(rows[e.page]) => \E a \in Admins : Drops(calls[a], path, e.page)

PlaceInv ==
  /\ \A r \in Reqs : ReqPlaced(req[r], pages, slug)
  /\ \A a \in Admins : AdminPlaced(admin[a], pages, slug)
  /\ \A s \in Procs, path \in Paths : EntryPlaced(cache[s][path], path, pages, slug, admin)

\* Pages stay where they are, and only publishing changes what is live.
Settled == Allowed \cap {"rename", "restore", "delete", "home"} = {}

Stay == \A p \in Pages : Stored(pages[p]) => Stored(pages'[p]) /\ slug'[p] = slug[p]

LEMMA ReqStays ==
  ASSUME TypeOK, NEW r \in Reqs, Stay, ReqPlaced(req[r], pages, slug)
  PROVE  ReqPlaced(req[r], pages', slug')
<1>1. req[r].pc \in {"mint", "fill"} => req[r].page \in Pages
  BY ReqShapes DEF Rendered
<1> QED
  BY <1>1 DEF ReqPlaced, Place, Stay

LEMMA AdminStays ==
  ASSUME TypeOK, NEW a \in Admins, Stay, AdminPlaced(admin[a], pages, slug)
  PROVE  AdminPlaced(admin[a], pages', slug')
<1>1. admin[a] # Idle => admin[a].page \in Pages
  BY DEF TypeOK, Admin
<1> QED
  BY <1>1 DEF AdminPlaced, Stay

\* A step that moves no page and publishes nothing.
LEMMA QuietPlaced ==
  ASSUME TypeOK, PlaceInv, UNCHANGED <<pages, slug, home, admin>>,
         \A r \in Reqs : req'[r] = req[r] \/ ReqPlaced(req'[r], pages, slug),
         \A s \in Procs, path \in Paths :
           \/ cache'[s][path] \in {cache[s][path], Miss}
           \/ EntryPlaced(cache'[s][path], path, pages, slug, admin)
  PROVE  PlaceInv'
<1>1. \A r \in Reqs : ReqPlaced(req'[r], pages, slug)
  BY DEF PlaceInv
<1>2. \A s \in Procs, path \in Paths : EntryPlaced(cache'[s][path], path, pages, slug, admin)
  BY DEF PlaceInv, EntryPlaced
<1>3. \A a \in Admins : AdminPlaced(admin[a], pages, slug)
  BY DEF PlaceInv
<1> QED
  BY <1>1, <1>2, <1>3 DEF PlaceInv, ReqPlaced, AdminPlaced, EntryPlaced, Place, Drops

\* A write that leaves the live documents alone.
LEMMA SavePlaced ==
  ASSUME TypeOK, PlaceInv, Stay, UNCHANGED <<home, req, admin, cache>>,
         \A p \in Pages : Stored(pages[p]) => LiveOf(pages'[p]) = LiveOf(pages[p])
  PROVE  PlaceInv'
<1>1. \A r \in Reqs : ReqPlaced(req[r], pages', slug')
  BY ReqStays DEF PlaceInv
<1>2. \A a \in Admins : AdminPlaced(admin[a], pages', slug')
  BY AdminStays DEF PlaceInv
<1>3. ASSUME NEW s \in Procs, NEW path \in Paths
      PROVE  EntryPlaced(cache[s][path], path, pages', slug', admin)
  <2>1. cache[s][path] # Miss => cache[s][path].page \in Pages
    BY DEF TypeOK, Entry
  <2> QED
    BY <2>1 DEF PlaceInv, EntryPlaced, Place, Stay
<1> QED
  BY <1>1, <1>2, <1>3 DEF PlaceInv, ReqPlaced, AdminPlaced, EntryPlaced, Place, Drops

\* A publish or unpublish: the call has still to drop every place of the page.
LEMMA ChangePlaced ==
  ASSUME TypeOK, PlaceInv, NEW a \in Admins, NEW s \in Procs, NEW p \in Pages, NEW row,
         Change(a, s, p, row), Stored(row)
  PROVE  PlaceInv'
<1> DEFINE call == [pc |-> "dropSlug", proc |-> s, page |-> p, path |-> slug[p]]
<1>1. /\ UNCHANGED <<slug, home, cache, req>> /\ admin[a] = Idle
      /\ pages'[p] = row /\ \A q \in Pages \ {p} : pages'[q] = pages[q]
      /\ admin'[a] = call /\ \A b \in Admins \ {a} : admin'[b] = admin[b]
      /\ Stored(pages[p])
  BY DEF Change, Write, TypeOK
<1>2. Stay
  BY <1>1 DEF Stay
<1>3. \A r \in Reqs : ReqPlaced(req[r], pages', slug')
  BY <1>2, ReqStays DEF PlaceInv
<1>4. \A b \in Admins : AdminPlaced(admin'[b], pages', slug')
  <2> SUFFICES ASSUME NEW b \in Admins PROVE AdminPlaced(admin'[b], pages', slug')
    OBVIOUS
  <2>1. CASE b = a
    BY <1>1, <2>1 DEF AdminPlaced
  <2>2. CASE b # a
    BY <1>1, <1>2, <2>2, AdminStays DEF PlaceInv
  <2> QED
    BY <2>1, <2>2
<1>5. ASSUME NEW t \in Procs, NEW path \in Paths
      PROVE  EntryPlaced(cache[t][path], path, pages', slug', admin')
  <2> DEFINE e == cache[t][path]
  <2>1. SUFFICES ASSUME e # Miss PROVE EntryPlaced(e, path, pages', slug', admin')
    BY DEF EntryPlaced
  <2>2. e.page \in Pages
    BY <2>1 DEF TypeOK, Entry
  <2>3. Place(path, e.page, pages, slug)
    BY <2>1 DEF PlaceInv, EntryPlaced
  <2>4. Place(path, e.page, pages', slug')
    BY <1>2, <2>2, <2>3 DEF Place, Stay
  <2>5. CASE e.page = p
    <3>1. call.pc = "dropSlug" /\ call.page = p /\ call.path = slug[p] /\ call # Idle
      BY DEF Idle
    <3>2. path = slug[p] \/ (path = Root /\ p = home)
      BY <2>3, <2>5 DEF Place
    <3> HIDE DEF call
    <3>3. Drops(admin'[a], path, p)
      BY <1>1, <3>1, <3>2 DEF Drops
    <3> HIDE DEF e
    <3> QED
      BY <2>4, <2>5, <3>3 DEF EntryPlaced
  <2>6. CASE e.page # p
    <3>1. ASSUME ~e.raced, e.html # LiveOf(pages[e.page])
          PROVE  \E b \in Admins : Drops(admin'[b], path, e.page)
      <4>1. PICK b \in Admins : Drops(admin[b], path, e.page)
        BY <2>1, <3>1 DEF PlaceInv, EntryPlaced
      <4>2. b # a
        BY <1>1, <4>1 DEF Drops
      <4> QED
        BY <1>1, <4>1, <4>2
    <3> HIDE DEF e
    <3> QED
      BY <1>1, <2>2, <2>4, <2>6, <3>1 DEF EntryPlaced
  <2> QED
    BY <2>5, <2>6
<1> QED
  BY <1>1, <1>3, <1>4, <1>5 DEF PlaceInv, ReqPlaced, EntryPlaced, Place, Drops

LEMMA DatabasePlaced ==
  ASSUME Settled, TypeOK, PlaceInv, Database PROVE PlaceInv'
<1>1. ASSUME NEW p \in Pages, CreatePage(p) PROVE PlaceInv'
  <2>1. /\ ~Stored(pages[p]) /\ \A q \in Pages \ {p} : pages'[q] = pages[q] /\ slug'[q] = slug[q]
        /\ UNCHANGED <<home, req, admin, cache>>
    BY <1>1 DEF CreatePage, Write, Stored, TypeOK
  <2> QED
    BY <2>1, SavePlaced DEF Stay
<1>2. ASSUME NEW p \in Pages, UpdatePage(p) PROVE PlaceInv'
  <2>1. PICK c \in Contents : Write(p, [pages[p] EXCEPT !.draft = c])
    BY <1>2 DEF UpdatePage
  <2>2. /\ Stored(pages[p]) /\ slug' = slug /\ UNCHANGED <<home, req, admin, cache>>
    BY <1>2 DEF UpdatePage, Settled, TypeOK
  <2>3. pages[p] \in PageRow
    BY <2>2 DEF TypeOK, Stored
  <2>4. /\ [pages[p] EXCEPT !.draft = c] \in PageRow
        /\ LiveOf([pages[p] EXCEPT !.draft = c]) = LiveOf(pages[p])
    BY <2>2, <2>3 DEF PageRow, LiveOf, Stored, Unborn, Deleted
  <2>5. Stored([pages[p] EXCEPT !.draft = c])
    BY <2>4 DEF PageRow, Stored, Unborn, Deleted
  <2>6. pages'[p] = [pages[p] EXCEPT !.draft = c] /\ \A q \in Pages \ {p} : pages'[q] = pages[q]
    BY <2>1 DEF Write, TypeOK
  <2> QED
    BY <2>2, <2>4, <2>5, <2>6, SavePlaced DEF Stay
<1>3. ASSUME NEW p \in Pages, RestoreRevision(p) \/ DeletePage(p) PROVE FALSE
  BY <1>3 DEF RestoreRevision, DeletePage, Settled
<1>4. ASSUME NEW a \in Admins, NEW s \in Procs, NEW p \in Pages,
             PublishPage(a, s, p) \/ UnpublishPage(a, s, p)
      PROVE  PlaceInv'
  <2>1. PICK row \in PageRow : Change(a, s, p, row)
    <3>1. ASSUME PublishPage(a, s, p) PROVE \E row \in PageRow : Change(a, s, p, row)
      BY <3>1 DEF PublishPage, PageRow
    <3>2. ASSUME UnpublishPage(a, s, p) PROVE \E row \in PageRow : Change(a, s, p, row)
      <4>1. pages[p] \in PageRow
        BY <3>2 DEF UnpublishPage, Change, Stored, TypeOK
      <4>2. [pages[p] EXCEPT !.status = "draft", !.live = Nothing] \in PageRow
        BY <4>1 DEF PageRow
      <4> QED
        BY <3>2, <4>2 DEF UnpublishPage
    <3> QED
      BY <1>4, <3>1, <3>2
  <2>2. Stored(row)
    BY DEF PageRow, Stored, Unborn, Deleted
  <2> QED
    BY <2>1, <2>2, ChangePlaced
<1>5. ASSUME SetHome PROVE FALSE
  BY <1>5 DEF SetHome, Settled
<1>6. CASE SetTtl
  BY <1>6, QuietPlaced DEF SetTtl
<1> QED
  BY <1>1, <1>2, <1>3, <1>4, <1>5, <1>6 DEF Database

\* A call drops an entry before it stops answering for it.
LEMMA InvalidatePlaced ==
  ASSUME \A s, t \in Procs : s = t, TypeOK, PlaceInv, NEW a \in Admins, Invalidate(a)
  PROVE  PlaceInv'
<1>1. /\ admin[a] \in [pc : {"dropSlug", "dropHome"}, proc : Procs, page : Pages, path : Paths]
      /\ admin[a] # Idle
  BY AdminShapes DEF Invalidate, InvalidateSlug, InvalidateHome, Idle
<1>2. /\ UNCHANGED <<pages, slug, home, req>>
      /\ \A b \in Admins \ {a} : admin'[b] = admin[b]
  BY DEF Invalidate, InvalidateSlug, InvalidateHome, TypeOK, db
<1>3. \/ admin'[a] = Idle
      \/ admin'[a].pc = "dropHome" /\ admin'[a].page = admin[a].page
  <2>1. CASE InvalidateSlug(a)
    BY <1>1, <2>1 DEF InvalidateSlug, TypeOK
  <2>2. CASE InvalidateHome(a)
    BY <2>2 DEF InvalidateHome, TypeOK
  <2> QED
    BY <2>1, <2>2 DEF Invalidate
<1>4. \A b \in Admins : AdminPlaced(admin'[b], pages, slug)
  BY <1>1, <1>2, <1>3 DEF PlaceInv, AdminPlaced
<1>5. ASSUME NEW s \in Procs, NEW path \in Paths, cache'[s][path] # Miss
      PROVE  /\ cache'[s][path] = cache[s][path]
             /\ Drops(admin[a], path, cache[s][path].page) => Drops(admin'[a], path, cache[s][path].page)
  <2>1. CASE InvalidateSlug(a)
    <3>1. InvalidatePath(admin[a].proc, admin[a].path) /\ admin[a].proc = s
      BY <1>1, <2>1 DEF InvalidateSlug
    <3>2. cache'[s][path] = cache[s][path] /\ path # admin[a].path
      BY <1>1, <1>5, <3>1, DropDrops
    <3>3. admin'[a].pc = "dropHome" /\ admin'[a].page = admin[a].page /\ admin'[a] # Idle
      BY <1>1, <2>1 DEF InvalidateSlug, TypeOK, Idle
    <3> QED
      BY <1>2, <3>2, <3>3 DEF Drops
  <2>2. CASE InvalidateHome(a)
    <3>1. CASE home = admin[a].page
      <4>1. InvalidatePath(admin[a].proc, Root) /\ admin[a].proc = s /\ admin[a].pc = "dropHome"
        BY <1>1, <2>2, <3>1 DEF InvalidateHome
      <4>2. cache'[s][path] = cache[s][path] /\ path # Root
        BY <1>1, <1>5, <4>1, DropDrops, PathsAssumption
      <4> QED
        BY <4>1, <4>2 DEF Drops
    <3>2. CASE home # admin[a].page
      BY <2>2, <3>2 DEF InvalidateHome, Drops
    <3> QED
      BY <3>1, <3>2
  <2> QED
    BY <2>1, <2>2 DEF Invalidate
<1>6. ASSUME NEW s \in Procs, NEW path \in Paths
      PROVE  EntryPlaced(cache'[s][path], path, pages, slug, admin')
  <2> DEFINE e == cache[s][path]
  <2>1. SUFFICES ASSUME cache'[s][path] # Miss PROVE EntryPlaced(e, path, pages, slug, admin')
    BY <1>5 DEF EntryPlaced
  <2>2. EntryPlaced(e, path, pages, slug, admin) /\ e # Miss
    BY <1>5, <2>1 DEF PlaceInv
  <2>3. \A b \in Admins : Drops(admin[b], path, e.page) => Drops(admin'[b], path, e.page)
    BY <1>2, <1>5, <2>1
  <2> HIDE DEF e
  <2> QED
    BY <2>2, <2>3 DEF EntryPlaced
<1> QED
  BY <1>2, <1>4, <1>6 DEF PlaceInv, ReqPlaced, AdminPlaced, EntryPlaced, Place, Drops

\* A request that moves to a step before its render.
LEMMA GotoPlaced ==
  ASSUME TypeOK, PlaceInv, NEW r \in Reqs, NEW next, Goto(r, next), ReqPlaced(next, pages, slug),
         UNCHANGED <<now, db, cache, cachedTtl, admin, lastLive>>
  PROVE  PlaceInv'
<1>1. req'[r] = next /\ \A q \in Reqs \ {r} : req'[q] = req[q]
  BY DEF Goto, TypeOK
<1> QED
  BY <1>1, QuietPlaced DEF db

LEMMA RenderingPlaced ==
  ASSUME TypeOK, PlaceInv, NEW r \in Reqs, NEW p \in Pages, Goto(r, Rendering(r, p)),
         req[r].path = slug[p] \/ (req[r].path = Root /\ p = home),
         UNCHANGED <<now, db, cache, cachedTtl, admin, lastLive>>
  PROVE  PlaceInv'
<1> DEFINE next == Rendering(r, p)
<1>1. \/ next.pc = "idle"
      \/ next.pc = "mint" /\ next.page = p /\ next.path = req[r].path /\ LiveOf(pages[p]) # Nothing
  BY DEF Rendering, Idle
<1>2. LiveOf(pages[p]) # Nothing => Stored(pages[p])
  BY DEF LiveOf
<1>3. Goto(r, next)
  OBVIOUS
<1> HIDE DEF next
<1>4. ReqPlaced(next, pages, slug)
  BY <1>1, <1>2 DEF ReqPlaced, Place
<1> QED
  BY <1>3, <1>4, GotoPlaced

LEMMA ServePlaced ==
  ASSUME TypeOK, PlaceInv, NEW r \in Reqs, Serve(r) PROVE PlaceInv'
<1>0. ReqPlaced(req[r], pages, slug)
  BY DEF PlaceInv
<1>1. CASE ReadTtl(r)
  <2>1. PICK s \in Procs, path \in Paths :
          Goto(r, [pc |-> "configure", proc |-> s, path |-> path, ttl |-> ttl])
    BY <1>1 DEF ReadTtl
  <2>2. ReqPlaced([pc |-> "configure", proc |-> s, path |-> path, ttl |-> ttl], pages, slug)
    BY DEF ReqPlaced
  <2> QED
    BY <1>1, <2>1, <2>2, GotoPlaced DEF ReadTtl
<1>2. CASE Lookup(r)
  <2>1. \A q \in Reqs : req'[q] = req[q] \/ ReqPlaced(req'[q], pages, slug)
    BY <1>2, LookupMoves DEF ReqPlaced
  <2>2. UNCHANGED <<pages, slug, home, admin>>
    BY <1>2 DEF Lookup, db
  <2> QED
    BY <1>2, <2>1, <2>2, LookupDrops, QuietPlaced
<1>3. CASE ReadHome(r)
  <2>1. req[r] \in Early /\ req[r].pc = "home" /\ req[r].path = Root
    BY <1>0, <1>3, ReqShapes DEF ReadHome, ReqPlaced
  <2>2. ReqPlaced([req[r] EXCEPT !.pc = "slug"], pages, slug)
    BY <2>1 DEF Early, ReqPlaced
  <2>3. ReqPlaced([pc |-> "page", proc |-> req[r].proc, path |-> req[r].path,
                   ttl |-> req[r].ttl, page |-> home], pages, slug)
    BY <2>1 DEF ReqPlaced
  <2> QED
    BY <1>3, <2>2, <2>3, GotoPlaced DEF ReadHome
<1>4. CASE ReadPage(r)
  <2>1. req[r] \in Targeted /\ req[r].page \in Pages
    BY <1>4, ReqShapes DEF ReadPage, Targeted
  <2>2. req[r].path = Root /\ req[r].page = home
    BY <1>0, <1>4 DEF ReadPage, ReqPlaced
  <2> QED
    BY <1>4, <2>1, <2>2, RenderingPlaced DEF ReadPage
<1>5. CASE ReadSlug(r)
  <2>1. Idle.pc = "idle"
    BY DEF Idle
  <2>2. ReqPlaced(Idle, pages, slug)
    BY <2>1 DEF ReqPlaced
  <2> QED
    BY <1>5, <2>2, RenderingPlaced, GotoPlaced DEF ReadSlug
<1>6. CASE Mint(r)
  <2>1. req[r] \in Rendered /\ req[r].pc = "mint"
    BY <1>6, ReqShapes DEF Mint
  <2> DEFINE next == [req[r] EXCEPT !.pc = "fill", !.minted = now]
  <2>2. next.pc = "fill" /\ next.path = req[r].path /\ next.page = req[r].page
    BY <2>1 DEF Rendered
  <2>3. Goto(r, next) /\ UNCHANGED <<now, db, cache, cachedTtl, admin, lastLive>>
    BY <1>6 DEF Mint
  <2> HIDE DEF next
  <2>4. ReqPlaced(next, pages, slug)
    BY <1>0, <2>1, <2>2 DEF ReqPlaced
  <2> QED
    BY <2>3, <2>4, GotoPlaced
<1>7. CASE Fill(r)
  <2>1. req[r].pc = "fill" /\ Goto(r, Idle) /\ UNCHANGED <<pages, slug, home, admin>>
    BY <1>7 DEF Fill, db
  <2>2. \A q \in Reqs : req'[q] = req[q] \/ ReqPlaced(req'[q], pages, slug)
    BY <2>1 DEF Goto, TypeOK, Idle, ReqPlaced
  <2> DEFINE new == FilledEntry(r)
  <2>3. /\ new.page = req[r].page /\ new.html = req[r].html
        /\ new.raced = (LiveOf(pages[req[r].page]) # req[r].html)
    BY DEF FilledEntry
  <2>4. \A s \in Procs, path \in Paths :
          cache'[s][path] \in {cache[s][path], Miss} \/ (path = req[r].path /\ cache'[s][path] = new)
    BY <1>7, FillStores
  <2> HIDE DEF new
  <2>5. EntryPlaced(new, req[r].path, pages, slug, admin)
    BY <1>0, <2>1, <2>3 DEF ReqPlaced, EntryPlaced
  <2> QED
    BY <2>1, <2>2, <2>4, <2>5, QuietPlaced
<1> QED
  BY <1>1, <1>2, <1>3, <1>4, <1>5, <1>6, <1>7 DEF Serve

\* With the process goes its cache, and what its calls had still to drop.
LEMMA CrashPlaced ==
  ASSUME \A s, t \in Procs : s = t, TypeOK, PlaceInv, NEW s \in Procs, Crash(s) PROVE PlaceInv'
<1>1. UNCHANGED <<pages, slug, home>>
  BY DEF Crash, db
<1>2. \A t \in Procs, path \in Paths : cache'[t][path] = Miss
  BY DEF Crash, Empty, TypeOK
<1>3. \A r \in Reqs : req'[r] \in {req[r], Idle}
  BY DEF Crash
<1>4. \A a \in Admins : admin'[a] \in {admin[a], Idle}
  BY DEF Crash
<1>5. \A r \in Reqs : ReqPlaced(req'[r], pages, slug)
  BY <1>3 DEF PlaceInv, ReqPlaced, Idle
<1>6. \A a \in Admins : AdminPlaced(admin'[a], pages, slug)
  BY <1>4 DEF PlaceInv, AdminPlaced
<1>7. \A t \in Procs, path \in Paths : EntryPlaced(cache'[t][path], path, pages, slug, admin')
  BY <1>2 DEF EntryPlaced
<1> QED
  BY <1>1, <1>5, <1>6, <1>7 DEF PlaceInv, ReqPlaced, AdminPlaced, EntryPlaced, Place, Drops

LEMMA InitPlaced == Init => PlaceInv
  BY DEF Init, PlaceInv, Empty, Idle, ReqPlaced, AdminPlaced, EntryPlaced

LEMMA NextPlaced ==
  ASSUME Settled, \A s, t \in Procs : s = t, TypeOK, PlaceInv, [Next]_vars PROVE PlaceInv'
<1>1. CASE Tick \/ UNCHANGED vars
  <2>1. UNCHANGED <<pages, slug, home, admin, req, cache>>
    BY <1>1 DEF Tick, vars, db
  <2> QED
    BY <2>1, QuietPlaced
<1> QED
  BY <1>1, DatabasePlaced, InvalidatePlaced, ServePlaced, CrashPlaced DEF Next

\* In one process, where pages keep their slugs and the site its homepage, an entry that
\* was right when it was stored is right until a publish or unpublish begins, and is gone
\* when it ends, whatever renders, saves, changes of the TTL and crashes come between.
THEOREM ChangesInvalidate ==
  ASSUME Settled, \A s, t \in Procs : s = t
  PROVE  Spec => []InvalidationComplete
<1>1. PlaceInv => InvalidationComplete
  <2> SUFFICES ASSUME PlaceInv, NEW s \in Procs, NEW path \in Paths,
                      cache[s][path] # Miss, ~cache[s][path].raced,
                      cache[s][path].html # LiveOf(pages[cache[s][path].page])
               PROVE  Pending(cache[s][path].page)
    BY DEF InvalidationComplete
  <2>1. \E a \in Admins : Drops(admin[a], path, cache[s][path].page)
    BY DEF PlaceInv, EntryPlaced
  <2> QED
    BY <2>1 DEF Drops, Pending
<1>2. TypeOK /\ PlaceInv /\ [Next]_vars => PlaceInv'
  BY NextPlaced
<1> QED
  BY <1>1, <1>2, InitTyped, NextTyped, InitPlaced, PTL DEF Spec

-----------------------------------------------------------------------------
(* The cache of a process does what LossyCache promises *)

Served(e) == IF e = Miss THEN Miss
             ELSE [exp |-> e.exp,
                   value |-> [page |-> e.page, html |-> e.html, minted |-> e.minted,
                              raced |-> e.raced]]

\* The entries as LossyCache sees them.
LEMMA ServedFacts ==
  ASSUME NEW e \in Entry \cup {Miss}
  PROVE  Served(e) = Miss <=> e = Miss
BY DEF Served, Entry, Miss

\* Some entries go.
LEMMA DropIsLossy ==
  ASSUME TypeOK, TypeOK', NEW s \in Procs, UNCHANGED now,
         \A path \in Paths : cache'[s][path] \in {cache[s][path], Miss}
  PROVE  OfProcess(s)!Next
<1> DEFINE gone == {path \in Paths : cache'[s][path] = Miss}
<1>1. gone \in SUBSET Paths
  OBVIOUS
<1>2. OfProcess(s)!Drop
  BY <1>1 DEF OfProcess!Drop, OfProcess!Miss, Miss
<1> QED BY <1>2 DEF OfProcess!Next

\* A new entry, in the place of one other at most.
LEMMA FillIsLossy ==
  ASSUME TypeOK, TypeOK', NEW r \in Reqs, Fill(r), req[r].ttl # 0,
         NEW s \in Procs, req[r].proc = s
  PROVE  OfProcess(s)!Next
<1> DEFINE new == FilledEntry(r)
<1>1. /\ req[r] \in Rendered /\ req[r].ttl \in Ttls \ {0}
      /\ UNCHANGED now
  BY ReqShapes DEF Fill, Rendered
<1> PICK path \in Paths : path = req[r].path
  BY <1>1 DEF Rendered
<1>2. PICK entries \in Put(s, path, new) : cache' = [cache EXCEPT ![s] = entries]
  BY DEF Fill
<1>3. cache'[s] = entries
  BY <1>1, <1>2 DEF TypeOK
<1>4. Served(new) \in [exp : {now + ttl_1 : ttl_1 \in Ttls \ {0}},
                       value : [page : Pages, html : Contents, minted : Nat, raced : BOOLEAN]]
  <2>1. new.exp = now + req[r].ttl /\ new.page \in Pages /\ new.html \in Contents
        /\ new.minted \in Nat /\ new.raced \in BOOLEAN
    BY <1>1 DEF FilledEntry, Rendered
  <2>2. new # Miss
    BY DEF FilledEntry, Miss
  <2> HIDE DEF new
  <2> QED BY <1>1, <2>1, <2>2 DEF Served
<1> HIDE DEF new
<1>5. \A x \in Paths : cache[s][x] \in Entry \cup {Miss}
  BY <1>1 DEF TypeOK
<1>6. /\ DOMAIN cache[s] = Paths
      /\ Holds(s) = {x \in Paths : Served(cache[s][x]) # Miss}
  BY <1>1, <1>5, ServedFacts DEF TypeOK, Holds
<1>7. ASSUME NEW lost \in SUBSET (Holds(s) \ {path}),
             Cardinality(lost) = IF Cardinality(Holds(s) \cup {path}) > MaxEntries THEN 1 ELSE 0,
             \A x \in Paths : cache'[s][x] = IF x = path THEN new
                                             ELSE IF x \in lost THEN Miss ELSE cache[s][x]
      PROVE  OfProcess(s)!Next
  <2> DEFINE bar == [x \in Paths |-> Served(cache[s][x])]
             barNext == [x \in Paths |-> Served(cache'[s][x])]
  <2>1. barNext[path] = Served(new)
    BY <1>1, <1>7
  <2>2. \A x \in Paths : Served(cache'[s][x]) =
                           IF x = path THEN barNext[path] ELSE IF x \in lost THEN Miss ELSE bar[x]
    BY <1>7, <2>1 DEF Served
  <2>3. barNext = [x \in Paths |-> IF x = path THEN barNext[path]
                                   ELSE IF x \in lost THEN Miss ELSE bar[x]]
    BY <2>2
  <2>4. {x \in Paths : bar[x] # Miss} = Holds(s)
    BY <1>6
  <2>5. OfProcess(s)!Held = Holds(s)
    BY <2>4 DEF OfProcess!Held, OfProcess!Miss, Miss, Served
  <2>6. \A S : OfProcess(s)!Cardinality(S) = Cardinality(S)
    BY DEF OfProcess!Cardinality, Cardinality
  <2>7. /\ barNext[path] \in
              [exp : {now + ttl_1 : ttl_1 \in Ttls \ {0}},
               value : [page : Pages, html : Contents, minted : Nat, raced : BOOLEAN]]
        /\ \E gone \in SUBSET (OfProcess(s)!Held \ {path}) :
             /\ barNext = [x \in Paths |-> IF x = path THEN barNext[path]
                                          ELSE IF x \in gone THEN OfProcess(s)!Miss ELSE bar[x]]
             /\ OfProcess(s)!Cardinality(gone) =
                  IF OfProcess(s)!Cardinality(OfProcess(s)!Held \cup {path}) > MaxEntries
                  THEN 1 ELSE 0
        /\ UNCHANGED now
    <3>1. OfProcess(s)!Miss = Miss
      BY DEF OfProcess!Miss, Miss
    <3> HIDE DEF bar, barNext
    <3> QED BY <1>1, <1>4, <1>7, <2>1, <2>3, <2>5, <2>6, <3>1
  <2>8. OfProcess(s)!Set(path)
    BY <2>7 DEF OfProcess!Set, Served
  <2> QED BY <2>8 DEF OfProcess!Next
<1> DEFINE stored == [cache[s] EXCEPT ![path] = new]
           full == Cardinality(Holds(s) \cup {path}) > MaxEntries
<1>8. /\ DOMAIN stored = Paths
      /\ \A x \in Paths : stored[x] = IF x = path THEN new ELSE cache[s][x]
  BY <1>1, <1>6
<1>9. \/ ~full /\ entries = stored
      \/ full /\ \E old \in Holds(s) \ {path} : entries = [stored EXCEPT ![old] = Miss]
  BY <1>2 DEF Put
<1> HIDE DEF stored, full
<1>10. CASE ~full /\ entries = stored
  <2>1. {} \in SUBSET (Holds(s) \ {path}) /\ Cardinality({}) = 0
    BY FS_EmptySet
  <2>2. \A x \in Paths : cache'[s][x] = IF x = path THEN new
                                        ELSE IF x \in {} THEN Miss ELSE cache[s][x]
    BY <1>3, <1>8, <1>10
  <2>3. ~(Cardinality(Holds(s) \cup {path}) > MaxEntries)
    BY <1>10 DEF full
  <2> QED BY <1>7, <2>1, <2>2, <2>3
<1>11. ASSUME full, NEW old \in Holds(s) \ {path}, entries = [stored EXCEPT ![old] = Miss]
       PROVE  OfProcess(s)!Next
  <2>1. {old} \in SUBSET (Holds(s) \ {path}) /\ Cardinality({old}) = 1
    BY FS_Singleton
  <2>2. \A x \in Paths : cache'[s][x] = IF x = path THEN new
                                        ELSE IF x \in {old} THEN Miss ELSE cache[s][x]
    BY <1>3, <1>8, <1>11
  <2>3. Cardinality(Holds(s) \cup {path}) > MaxEntries
    BY <1>11 DEF full
  <2> QED BY <1>7, <2>1, <2>2, <2>3
<1> QED BY <1>9, <1>10, <1>11

LEMMA SiteIsLossy ==
  ASSUME TypeOK, TypeOK', [Next]_vars, NEW s \in Procs
  PROVE  UNCHANGED <<now, cache[s]>> \/ OfProcess(s)!Next
<1>1. CASE Database
  BY <1>1 DEF Database, CreatePage, UpdatePage, RestoreRevision, DeletePage, PublishPage,
              UnpublishPage, Change, SetHome, SetTtl
<1>2. ASSUME NEW a \in Admins, Invalidate(a) PROVE OfProcess(s)!Next
  <2>1. UNCHANGED now
    BY <1>2 DEF Invalidate, InvalidateSlug, InvalidateHome
  <2>2. \A path \in Paths : cache'[s][path] \in {cache[s][path], Miss}
    BY <1>2, InvalidateDrops
  <2> QED BY <2>1, <2>2, DropIsLossy
<1>3. ASSUME NEW r \in Reqs, Lookup(r) PROVE OfProcess(s)!Next
  <2>1. UNCHANGED now
    BY <1>3 DEF Lookup
  <2> QED BY <1>3, <2>1, LookupDrops, DropIsLossy
<1>4. ASSUME NEW r \in Reqs, Fill(r)
      PROVE  UNCHANGED <<now, cache[s]>> \/ OfProcess(s)!Next
  <2>1. CASE req[r].ttl = 0
    BY <1>4, <2>1 DEF Fill
  <2>2. CASE req[r].ttl # 0 /\ req[r].proc = s
    BY <1>4, <2>2, FillIsLossy
  <2>3. CASE req[r].ttl # 0 /\ req[r].proc # s
    BY <1>4, <2>3 DEF Fill, TypeOK
  <2> QED BY <2>1, <2>2, <2>3
<1>5. ASSUME NEW r \in Reqs, ReadTtl(r) \/ ReadHome(r) \/ ReadPage(r) \/ ReadSlug(r) \/ Mint(r)
      PROVE  UNCHANGED <<now, cache[s]>>
  BY <1>5 DEF ReadTtl, ReadHome, ReadPage, ReadSlug, Mint
<1>6. ASSUME NEW t \in Procs, Crash(t) PROVE OfProcess(s)!Next
  <2>1. UNCHANGED now
    BY <1>6 DEF Crash
  <2>2. \A path \in Paths : cache'[s][path] \in {cache[s][path], Miss}
    BY <1>6 DEF Crash, Empty, TypeOK
  <2> QED BY <2>1, <2>2, DropIsLossy
<1>7. CASE Tick
  <2>1. now' = now + 1 /\ UNCHANGED cache
    BY <1>7 DEF Tick
  <2>2. OfProcess(s)!Tick
    BY <2>1 DEF OfProcess!Tick
  <2> QED BY <2>2 DEF OfProcess!Next
<1>8. CASE UNCHANGED vars
  BY <1>8 DEF vars
<1> QED BY <1>1, <1>2, <1>3, <1>4, <1>5, <1>6, <1>7, <1>8 DEF Next, Serve

\* The cache of each process is a LossyCache, whatever the others do.
THEOREM SiteCachesAreLossy == Spec => CachesAreLossy
<1>1. Init => \A s \in Procs : OfProcess(s)!Init
  BY DEF Init, Empty, OfProcess!Init, OfProcess!Miss, Miss
<1>2. TypeOK /\ TypeOK' /\ [Next]_vars =>
        [\A s \in Procs : UNCHANGED <<now, cache[s]>> \/ OfProcess(s)!Next]_vars
  BY SiteIsLossy
<1> QED BY <1>1, <1>2, SiteTypeCorrect, PTL DEF Spec, CachesAreLossy

-----------------------------------------------------------------------------
(* The list of SiteCache *)

KeysOf(list) == {e.key : e \in Range(list)}
Row == [key : ListKeys, value : Renders, exp : Nat \ {0}]

\* A list of entries, at most one for a key.
Rows(list) ==
  /\ list \in Seq(Row) /\ IsInjective(list)
  /\ \A e, f \in Range(list) : e.key = f.key => e = f

\* The entries stand in the order in which their keys were used.
InOrder(list, order) ==
  /\ KeysOf(list) \subseteq Range(order)
  /\ \A e, f \in Range(list) : Before(list, e, f) => Before(order, e.key, f.key)

ListInv == ListTypeOK /\ InOrder(store, uses)

LEMMA StoreIsRows ==
  ASSUME ListTypeOK
  PROVE  Rows(store) /\ Listed = KeysOf(store)
<1>1. store \in Seq(Row) /\ \A i, j \in DOMAIN store : store[i].key = store[j].key => i = j
  BY DEF ListTypeOK, Row
<1> QED BY <1>1 DEF Rows, Listed, KeysOf, Range, IsInjective

\* ... and back.
LEMMA RowsAreStore ==
  ASSUME NEW list, Rows(list)
  PROVE  \A i, j \in DOMAIN list : list[i].key = list[j].key => i = j
<1> SUFFICES ASSUME NEW i \in DOMAIN list, NEW j \in DOMAIN list, list[i].key = list[j].key
             PROVE  i = j
  OBVIOUS
<1>1. list[i] \in Range(list) /\ list[j] \in Range(list)
  BY DEF Range
<1>2. list[i] = list[j]
  BY <1>1 DEF Rows
<1> QED BY <1>2 DEF Rows, IsInjective

\* Removing keys.
LEMMA WithoutRows ==
  ASSUME NEW list, Rows(list), NEW keys
  PROVE  LET w == Without(list, {e \in Range(list) : e.key \in keys})
         IN  /\ Rows(w)
             /\ Range(w) = {e \in Range(list) : e.key \notin keys}
             /\ KeysOf(w) = KeysOf(list) \ keys
             /\ Len(w) <= Len(list)
             /\ KeysOf(list) \cap keys # {} => Len(w) < Len(list)
             /\ \A e, f \in Range(w) : Before(w, e, f) => Before(list, e, f)
<1> DEFINE gone == {e \in Range(list) : e.key \in keys}
           w == Without(list, gone)
<1>1. list \in Seq(Row)
  BY DEF Rows
<1>2. /\ w \in Seq(Row)
      /\ Range(w) = Range(list) \ gone
      /\ IsInjective(list) => IsInjective(w)
      /\ Len(w) <= Len(list)
      /\ Range(list) \cap gone # {} => Len(w) < Len(list)
      /\ \A x, y : x \notin gone /\ y \notin gone => (Before(w, x, y) <=> Before(list, x, y))
  BY <1>1, WithoutFacts
<1> HIDE DEF w
<1>3. Range(w) = {e \in Range(list) : e.key \notin keys}
  BY <1>2
<1>4. Rows(w)
  BY <1>2, <1>3 DEF Rows
<1>5. KeysOf(w) = KeysOf(list) \ keys
  BY <1>3 DEF KeysOf
<1>6. KeysOf(list) \cap keys # {} => Len(w) < Len(list)
  BY <1>2 DEF KeysOf
<1>7. \A e, f \in Range(w) : Before(w, e, f) => Before(list, e, f)
  BY <1>2
<1> QED BY <1>2, <1>3, <1>4, <1>5, <1>6, <1>7 DEF w

\* Adding an entry of a key the list does not have.
LEMMA AppendRows ==
  ASSUME NEW list, Rows(list), NEW entry \in Row, entry.key \notin KeysOf(list)
  PROVE  LET w == Append(list, entry)
         IN  /\ Rows(w)
             /\ Range(w) = Range(list) \cup {entry}
             /\ Len(w) = Len(list) + 1
             /\ w[Len(w)] = entry
             /\ \A e, f : Before(w, e, f) => Before(list, e, f) \/ (e \in Range(list) /\ f = entry)
<1> DEFINE w == Append(list, entry)
<1>1. list \in Seq(Row) /\ entry \notin Range(list)
  BY DEF Rows, KeysOf
<1>2. /\ w \in Seq(Row)
      /\ Range(w) = Range(list) \cup {entry}
      /\ IsInjective(list) /\ entry \notin Range(list) => IsInjective(w)
      /\ Len(w) = Len(list) + 1
      /\ \A x, y : Before(w, x, y) => Before(list, x, y) \/ (x \in Range(list) /\ y = entry)
      /\ w[Len(w)] = entry
  BY <1>1, AppendFacts
<1> HIDE DEF w
<1>3. Rows(w)
  BY <1>1, <1>2 DEF Rows, KeysOf
<1> QED BY <1>2, <1>3 DEF w

\* Removing the first entry.
LEMMA TailRows ==
  ASSUME NEW list, Rows(list), list # << >>
  PROVE  /\ Head(list) \in Range(list)
         /\ Rows(Tail(list))
         /\ Range(Tail(list)) = {e \in Range(list) : e.key \notin {Head(list).key}}
         /\ Len(Tail(list)) = Len(list) - 1
         /\ \A e, f : Before(Tail(list), e, f) => Before(list, e, f)
         /\ \A f \in Range(Tail(list)) : Before(list, Head(list), f)
<1>1. list \in Seq(Row) /\ IsInjective(list)
  BY DEF Rows
<1>2. /\ Head(list) \in Range(list)
      /\ Tail(list) \in Seq(Row)
      /\ Range(Tail(list)) = Range(list) \ {Head(list)}
      /\ IsInjective(Tail(list))
      /\ Len(Tail(list)) = Len(list) - 1
      /\ \A x, y : Before(Tail(list), x, y) => Before(list, x, y)
      /\ \A y \in Range(Tail(list)) : Before(list, Head(list), y)
  BY <1>1, TailFacts
<1>3. Range(Tail(list)) = {e \in Range(list) : e.key \notin {Head(list).key}}
  BY <1>2 DEF Rows
<1>4. Rows(Tail(list))
  BY <1>2 DEF Rows
<1> QED BY <1>2, <1>3, <1>4

\* As many keys as entries.
LEMMA KeysCount ==
  ASSUME NEW list, Rows(list)
  PROVE  IsFiniteSet(KeysOf(list)) /\ Cardinality(KeysOf(list)) = Len(list)
<1>1. list \in Seq(Row) /\ IsInjective(list)
  BY DEF Rows
<1>2. IsFiniteSet(Range(list)) /\ Cardinality(Range(list)) = Len(list)
  BY <1>1, DistinctLength
<1> DEFINE f == [e \in Range(list) |-> e.key]
<1>3. f \in Bijection(Range(list), KeysOf(list))
  BY DEF Bijection, Injection, Surjection, IsInjective, KeysOf, Rows
<1> HIDE DEF f
<1>4. ExistsBijection(Range(list), KeysOf(list))
  BY <1>3 DEF ExistsBijection
<1> QED BY <1>2, <1>4, FS_Bijection

\* A key moves to the end of the history when it is used.
LEMMA UsedFacts ==
  ASSUME uses \in Seq(ListKeys), IsInjective(uses), NEW k \in ListKeys
  PROVE  /\ Used(k) \in Seq(ListKeys) /\ IsInjective(Used(k))
         /\ Range(Used(k)) = Range(uses) \cup {k}
         /\ \A x, y : x # k /\ y # k /\ Before(uses, x, y) => Before(Used(k), x, y)
         /\ \A x \in Range(uses) : x # k => Before(Used(k), x, k)
<1> DEFINE w == Without(uses, {k})
<1>1. /\ w \in Seq(ListKeys)
      /\ Range(w) = Range(uses) \ {k}
      /\ IsInjective(w)
      /\ \A x, y : x \notin {k} /\ y \notin {k} => (Before(w, x, y) <=> Before(uses, x, y))
  BY WithoutFacts
<1>2. Used(k) = Append(w, k)
  BY DEF Used
<1> HIDE DEF w
<1>3. /\ Append(w, k) \in Seq(ListKeys)
      /\ Range(Append(w, k)) = Range(w) \cup {k}
      /\ IsInjective(w) /\ k \notin Range(w) => IsInjective(Append(w, k))
      /\ \A x, y : Before(w, x, y) => Before(Append(w, k), x, y)
      /\ \A x \in Range(w) : Before(Append(w, k), x, k)
  BY <1>1, AppendFacts
<1> QED BY <1>1, <1>2, <1>3

\* The list with an entry of k as its last.
LEMMA InsertedFacts ==
  ASSUME ListInv, NEW k \in ListKeys, NEW entry \in Row, entry.key = k
  PROVE  LET w == Inserted(k, entry)
         IN  /\ Rows(w) /\ InOrder(w, Used(k))
             /\ Range(w) = {e \in Range(store) : e.key # k} \cup {entry}
             /\ Len(w) <= Len(store) + 1
             /\ k \in Listed => Len(w) <= Len(store)
             /\ w[Len(w)] = entry
<1> DEFINE v == WithoutKeys({k})
           w == Inserted(k, entry)
<1>1. Rows(store) /\ Listed = KeysOf(store) /\ InOrder(store, uses)
  BY StoreIsRows DEF ListInv
<1>2. /\ Rows(v)
      /\ Range(v) = {e \in Range(store) : e.key \notin {k}}
      /\ KeysOf(v) = KeysOf(store) \ {k}
      /\ Len(v) <= Len(store)
      /\ KeysOf(store) \cap {k} # {} => Len(v) < Len(store)
      /\ \A e, f \in Range(v) : Before(v, e, f) => Before(store, e, f)
  BY <1>1, WithoutRows DEF WithoutKeys
<1>3. w = Append(v, entry)
  BY DEF Inserted
<1> HIDE DEF v, w
<1>4. /\ Rows(w)
      /\ Range(w) = Range(v) \cup {entry}
      /\ Len(w) = Len(v) + 1
      /\ w[Len(w)] = entry
      /\ \A e, f : Before(w, e, f) => Before(v, e, f) \/ (e \in Range(v) /\ f = entry)
  BY <1>2, <1>3, AppendRows
<1>5. Len(v) \in Nat /\ Len(store) \in Nat
  BY <1>1, <1>2, LenProperties DEF Rows
<1>6. /\ Range(Used(k)) = Range(uses) \cup {k}
      /\ \A x, y : x # k /\ y # k /\ Before(uses, x, y) => Before(Used(k), x, y)
      /\ \A x \in Range(uses) : x # k => Before(Used(k), x, k)
  BY UsedFacts DEF ListInv, ListTypeOK
<1>7. InOrder(w, Used(k))
  <2>1. \A e \in Range(v) : e \in Range(store) /\ e.key # k /\ e.key \in Range(uses)
    BY <1>1, <1>2 DEF InOrder, KeysOf
  <2>2. KeysOf(w) \subseteq Range(Used(k))
    BY <1>4, <1>6, <2>1 DEF KeysOf
  <2>3. ASSUME NEW e \in Range(w), NEW f \in Range(w), Before(w, e, f)
        PROVE  Before(Used(k), e.key, f.key)
    <3>1. CASE e \in Range(v) /\ f = entry
      BY <1>6, <2>1, <3>1
    <3>2. CASE Before(v, e, f)
      <4>1. e \in Range(v) /\ f \in Range(v)
        BY <3>2 DEF Before, Range
      <4>2. Before(uses, e.key, f.key)
        BY <1>1, <1>2, <2>1, <3>2, <4>1 DEF InOrder
      <4> QED BY <1>6, <2>1, <4>1, <4>2
    <3> QED BY <1>4, <2>3, <3>1, <3>2
  <2> QED BY <2>2, <2>3 DEF InOrder
<1>8. k \in Listed => Len(w) <= Len(store)
  BY <1>1, <1>2, <1>4, <1>5
<1>9. Len(w) <= Len(store) + 1
  BY <1>2, <1>4, <1>5
<1>10. Range(w) = {e \in Range(store) : e.key # k} \cup {entry}
  BY <1>2, <1>4
<1> QED BY <1>4, <1>7, <1>8, <1>9, <1>10 DEF w

\* An entry that is stored, under a key that is used.
LEMMA StoredKeys ==
  ASSUME ListTypeOK, NEW k \in Listed
  PROVE  EntryOf(k) \in Range(store) /\ EntryOf(k) \in Row /\ EntryOf(k).key = k /\ k \in ListKeys
<1>1. Rows(store) /\ Listed = KeysOf(store)
  BY StoreIsRows
<1>2. \E e \in Range(store) : e.key = k
  BY <1>1 DEF KeysOf
<1>3. EntryOf(k) \in Range(store) /\ EntryOf(k).key = k
  BY <1>2 DEF EntryOf
<1>4. EntryOf(k) \in Row
  BY <1>1, <1>3, InRange DEF Rows
<1> QED BY <1>3, <1>4 DEF Row

LEMMA StoreTtlsAreNat == StoreTtls \subseteq Nat
BY ListAssumption DEF StoreTtls

LEMMA ListInvInit == ListInit => ListInv
<1> SUFFICES ASSUME ListInit PROVE ListInv
  OBVIOUS
<1>1. store = << >> /\ uses = << >> /\ listNow = 1 /\ listTtl = ShortTtl
  BY DEF ListInit
<1>2. << >> \in Seq([key : ListKeys, value : Renders, exp : Nat \ {0}]) /\ << >> \in Seq(ListKeys)
  BY EmptySeq
<1>3. Len(<< >>) = 0 /\ DOMAIN << >> = {} /\ Range(<< >>) = {} /\ IsInjective(<< >>)
  BY DEF Range, IsInjective
<1>4. ListTypeOK
  BY <1>1, <1>2, <1>3, ListAssumption DEF ListTypeOK
<1>5. InOrder(<< >>, << >>)
  BY <1>3 DEF InOrder, KeysOf
<1> QED BY <1>1, <1>4, <1>5 DEF ListInv

\* A step that leaves a list of rows, in the order of the uses, keeps the invariant.
LEMMA ListInvNext ==
  ASSUME ListInv, listNow' \in Nat \ {0}, listTtl' \in ListTtls, Rows(store'),
         Len(store') <= ListSize, InOrder(store', uses'),
         UNCHANGED uses \/ \E k \in ListKeys : uses' = Used(k)
  PROVE  ListInv'
<1>1. uses \in Seq(ListKeys) /\ IsInjective(uses)
  BY DEF ListInv, ListTypeOK
<1>2. uses' \in Seq(ListKeys) /\ IsInjective(uses')
  BY <1>1, UsedFacts
<1>3. \A i, j \in DOMAIN store' : store'[i].key = store'[j].key => i = j
  BY RowsAreStore
<1>4. store' \in Seq([key : ListKeys, value : Renders, exp : Nat \ {0}])
  BY DEF Rows, Row
<1>5. ListTypeOK'
  BY <1>2, <1>3, <1>4 DEF ListTypeOK
<1> QED BY <1>5 DEF ListInv

\* The entries that are left stand in the order they stood in.
LEMMA WithoutInOrder ==
  ASSUME ListInv, NEW keys
  PROVE  /\ Rows(WithoutKeys(keys)) /\ InOrder(WithoutKeys(keys), uses)
         /\ Len(WithoutKeys(keys)) <= ListSize
<1>1. Rows(store) /\ InOrder(store, uses) /\ Len(store) <= ListSize
  BY StoreIsRows DEF ListInv, ListTypeOK
<1> DEFINE w == WithoutKeys(keys)
<1>2. /\ Rows(w)
      /\ Range(w) = {e \in Range(store) : e.key \notin keys}
      /\ Len(w) <= Len(store)
      /\ \A e, f \in Range(w) : Before(w, e, f) => Before(store, e, f)
  BY <1>1, WithoutRows DEF WithoutKeys
<1> HIDE DEF w
<1>3. InOrder(w, uses)
  BY <1>1, <1>2 DEF InOrder, KeysOf
<1>4. Len(w) <= ListSize
  <2>1. Len(w) \in Nat /\ Len(store) \in Nat
    BY <1>1, <1>2, LenProperties DEF Rows
  <2> QED BY <1>1, <1>2, <2>1, ListAssumption
<1> QED BY <1>2, <1>3, <1>4 DEF w

\* What room is made in.
LEMMA TrimmedFacts ==
  ASSUME ListInv, NEW k \in ListKeys, NEW entry \in Row, entry.key = k
  PROVE  LET w == Inserted(k, entry)
         IN  /\ Rows(Trimmed(w)) /\ InOrder(Trimmed(w), Used(k)) /\ Len(Trimmed(w)) <= ListSize
             /\ \/ Trimmed(w) = w /\ Len(w) <= ListSize
                \/ /\ Trimmed(w) = Tail(w) /\ w # << >> /\ Len(w) = ListSize + 1
                   /\ Head(w) \in Range(store) /\ Head(w).key # k
<1> DEFINE w == Inserted(k, entry)
<1>1. /\ Rows(w) /\ InOrder(w, Used(k)) /\ w[Len(w)] = entry
      /\ Range(w) = {e \in Range(store) : e.key # k} \cup {entry}
      /\ Len(w) <= Len(store) + 1
  BY InsertedFacts
<1> HIDE DEF w
<1>2. /\ Len(w) \in Nat /\ Len(store) \in Nat /\ Len(store) <= ListSize
      /\ ListSize \in Nat \ {0} /\ DOMAIN w = 1..Len(w)
  BY <1>1, LenProperties, ListAssumption DEF Rows, ListInv, ListTypeOK
<1>9. Len(w) \in Nat /\ ListSize \in Nat /\ Len(w) <= ListSize + 1
  <2>1. \A m, n, z \in Nat : m <= n + 1 /\ n <= z => m <= z + 1
    OBVIOUS
  <2> QED BY <1>1, <1>2, <2>1
<1>3. CASE Len(w) <= ListSize
  <2>1. Trimmed(w) = w
    <3>1. ~(Len(w) > ListSize)
      BY <1>3, <1>9
    <3> QED BY <3>1 DEF Trimmed
  <2> QED BY <1>1, <1>3, <2>1 DEF w
<1>4. CASE ~(Len(w) <= ListSize)
  <2>1. Len(w) = ListSize + 1 /\ Len(w) > ListSize
    BY <1>4, <1>9
  <2>2. Trimmed(w) = Tail(w)
    BY <2>1 DEF Trimmed
  <2>3. w # << >> /\ Head(w) = w[1] /\ 1 \in DOMAIN w /\ Len(w) \in DOMAIN w /\ Len(w) # 1
    BY <1>2, <2>1
  <2>4. Head(w).key # k
    <3> SUFFICES ASSUME Head(w).key = k PROVE FALSE
      OBVIOUS
    <3>1. w[1] = w[Len(w)]
      BY <1>1, <2>3 DEF Rows, Range
    <3> QED BY <1>1, <2>3, <3>1 DEF Rows, IsInjective
  <2>5. /\ Head(w) \in Range(w)
        /\ Rows(Tail(w))
        /\ Range(Tail(w)) = {e \in Range(w) : e.key \notin {Head(w).key}}
        /\ Len(Tail(w)) = Len(w) - 1
        /\ \A e, f : Before(Tail(w), e, f) => Before(w, e, f)
    BY <1>1, <2>3, TailRows
  <2>6. Head(w) \in Range(store)
    BY <1>1, <2>4, <2>5
  <2>7. InOrder(Tail(w), Used(k))
    BY <1>1, <2>5 DEF InOrder, KeysOf
  <2>8. Len(Tail(w)) <= ListSize
    BY <1>2, <2>1, <2>5
  <2> QED BY <2>1, <2>2, <2>3, <2>4, <2>5, <2>6, <2>7, <2>8 DEF w
<1> QED BY <1>3, <1>4

\* The invariant is inductive.
LEMMA ListInvStep == ListInv /\ [ListNext]_listVars => ListInv'
<1> SUFFICES ASSUME ListInv, [ListNext]_listVars PROVE ListInv'
  OBVIOUS
<1>1. /\ ListTypeOK /\ InOrder(store, uses) /\ Rows(store) /\ Listed = KeysOf(store)
      /\ listNow \in Nat \ {0} /\ listTtl \in ListTtls /\ Len(store) <= ListSize
  BY StoreIsRows DEF ListInv, ListTypeOK
<1>2. ASSUME NEW k \in ListKeys, GetSiteCacheEntry(k) PROVE ListInv'
  <2>1. k \in Listed /\ UNCHANGED <<listNow, listTtl>>
    BY <1>2 DEF GetSiteCacheEntry
  <2>2. CASE EntryOf(k).exp <= listNow
    <3>1. store' = WithoutKeys({k}) /\ UNCHANGED uses
      BY <1>2, <2>2 DEF GetSiteCacheEntry
    <3> QED BY <1>1, <2>1, <3>1, WithoutInOrder, ListInvNext
  <2>3. CASE ~(EntryOf(k).exp <= listNow)
    <3>1. store' = Inserted(k, EntryOf(k)) /\ uses' = Used(k)
      BY <1>2, <2>3 DEF GetSiteCacheEntry, Touched, Inserted
    <3>2. EntryOf(k) \in Row /\ EntryOf(k).key = k
      BY <1>1, <2>1, StoredKeys
    <3>3. Rows(store') /\ InOrder(store', uses') /\ Len(store') <= Len(store)
      BY <2>1, <3>1, <3>2, InsertedFacts
    <3>4. Len(store') <= ListSize
      <4>1. Len(store) \in Nat /\ Len(store') \in Nat
        BY <1>1, <3>3, LenProperties DEF Rows
      <4> QED BY <1>1, <3>3, <4>1, ListAssumption
    <3> QED BY <1>1, <2>1, <3>1, <3>3, <3>4, ListInvNext
  <2> QED BY <2>2, <2>3
<1>3. ASSUME NEW k \in ListKeys, SetSiteCacheEntry(k) PROVE ListInv'
  <2>1. PICK value \in Renders, time \in StoreTtls \ {0} :
          store' = Trimmed(Inserted(k, [key |-> k, value |-> value, exp |-> listNow + time]))
    BY <1>3 DEF SetSiteCacheEntry
  <2> DEFINE entry == [key |-> k, value |-> value, exp |-> listNow + time]
  <2>2. entry \in Row /\ entry.key = k
    BY <1>1, StoreTtlsAreNat DEF Row
  <2> HIDE DEF entry
  <2>3. Rows(store') /\ InOrder(store', Used(k)) /\ Len(store') <= ListSize
    BY <2>1, <2>2, TrimmedFacts DEF entry
  <2>4. uses' = Used(k) /\ UNCHANGED <<listNow, listTtl>>
    BY <1>3 DEF SetSiteCacheEntry
  <2> QED BY <1>1, <2>3, <2>4, ListInvNext
<1>4. ASSUME store' = << >>, listTtl' \in ListTtls, UNCHANGED <<listNow, uses>> PROVE ListInv'
  <2>1. Rows(<< >>) /\ InOrder(<< >>, uses) /\ Len(<< >>) <= ListSize
    <3>1. Range(<< >>) = {} /\ IsInjective(<< >>)
      BY DEF Range, IsInjective
    <3> QED BY <3>1, EmptySeq, ListAssumption DEF Rows, InOrder, KeysOf
  <2> QED BY <1>1, <1>4, <2>1, ListInvNext
<1>5. ASSUME NEW time \in ListTtls, ConfigureSiteCache(time) PROVE ListInv'
  BY <1>4, <1>5 DEF ConfigureSiteCache
<1>6. ASSUME ClearSiteCache PROVE ListInv'
  BY <1>1, <1>4, <1>6 DEF ClearSiteCache
<1>7. ASSUME NEW path \in ListPaths, InvalidateSiteCachePath(path) PROVE ListInv'
  BY <1>1, <1>7, WithoutInOrder, ListInvNext DEF InvalidateSiteCachePath
<1>8. ASSUME ListTick PROVE ListInv'
  BY <1>1, <1>8, ListInvNext DEF ListTick
<1>9. CASE UNCHANGED listVars
  BY <1>9 DEF listVars, ListInv, ListTypeOK, InOrder, KeysOf
<1> QED BY <1>2, <1>3, <1>5, <1>6, <1>7, <1>8, <1>9 DEF ListNext

LEMMA ListInvAlways == ListSpec => []ListInv
BY ListInvInit, ListInvStep, PTL DEF ListSpec

\* The list is well formed, at most one entry for a key and ListSize at most.
THEOREM ListTypeCorrect == ListSpec => []ListTypeOK
<1>1. ListInv => ListTypeOK
  BY DEF ListInv
<1> QED BY <1>1, ListInvAlways, PTL

\* A new entry removes one whose key was followed by ListSize others.
LEMMA RemovedIsOld ==
  ASSUME ListInv, NEW x \in ListKeys, SetSiteCacheEntry(x),
         NEW k \in ListKeys, k \in Listed, k \notin Listed'
  PROVE  Cardinality(After(k)') >= ListSize
<1>1. PICK value \in Renders, time \in StoreTtls \ {0} :
        store' = Trimmed(Inserted(x, [key |-> x, value |-> value, exp |-> listNow + time]))
  BY DEF SetSiteCacheEntry
<1> DEFINE entry == [key |-> x, value |-> value, exp |-> listNow + time]
           w == Inserted(x, entry)
<1>2. entry \in Row /\ entry.key = x
  BY StoreTtlsAreNat DEF Row, ListInv, ListTypeOK
<1> HIDE DEF entry
<1>3. /\ Rows(Trimmed(w))
      /\ \/ Trimmed(w) = w /\ Len(w) <= ListSize
         \/ /\ Trimmed(w) = Tail(w) /\ w # << >> /\ Len(w) = ListSize + 1
            /\ Head(w) \in Range(store) /\ Head(w).key # x
  BY <1>2, TrimmedFacts
<1>4. /\ Rows(w) /\ InOrder(w, Used(x))
      /\ Range(w) = {e \in Range(store) : e.key # x} \cup {entry}
  BY <1>2, InsertedFacts
<1>5. store' = Trimmed(w) /\ uses' = Used(x)
  BY <1>1 DEF entry, SetSiteCacheEntry
<1> HIDE DEF w
<1>6. Listed' = KeysOf(store')
  BY <1>3, <1>5 DEF Listed, KeysOf, Range
<1>7. PICK e \in Range(store) : e.key = k
  BY StoreIsRows DEF ListInv, KeysOf
<1>8. k # x
  <2>1. x \in KeysOf(w)
    BY <1>2, <1>4 DEF KeysOf
  <2>2. CASE Trimmed(w) = w
    BY <1>5, <1>6, <2>1, <2>2
  <2>3. CASE Trimmed(w) = Tail(w) /\ w # << >> /\ Head(w).key # x
    <3>1. Range(Tail(w)) = {f \in Range(w) : f.key \notin {Head(w).key}}
      BY <1>4, <2>3, TailRows
    <3>2. entry \in Range(Tail(w))
      BY <1>2, <1>4, <2>3, <3>1
    <3> QED BY <1>2, <1>5, <1>6, <2>3, <3>2 DEF KeysOf
  <2> QED BY <1>3, <2>2, <2>3
<1>9. e \in Range(w)
  BY <1>4, <1>7, <1>8
<1>10. /\ Trimmed(w) = Tail(w) /\ w # << >> /\ Len(w) = ListSize + 1
  BY <1>3, <1>5, <1>6, <1>7, <1>9 DEF KeysOf
<1>11. /\ Rows(Tail(w)) /\ Len(Tail(w)) = Len(w) - 1
       /\ Range(Tail(w)) = {f \in Range(w) : f.key \notin {Head(w).key}}
       /\ \A f \in Range(Tail(w)) : Before(w, Head(w), f)
       /\ Head(w) \in Range(w)
  BY <1>4, <1>10, TailRows
<1>12. e = Head(w)
  BY <1>4, <1>5, <1>6, <1>7, <1>9, <1>10, <1>11 DEF KeysOf, Rows
<1>13. KeysOf(Tail(w)) \subseteq After(k)'
  <2> SUFFICES ASSUME NEW f \in Range(Tail(w)) PROVE f.key \in After(k)'
    BY DEF KeysOf
  <2>1. f \in Range(w) /\ Before(w, e, f)
    BY <1>11, <1>12
  <2>2. Before(uses', k, f.key) /\ f.key \in Range(uses')
    BY <1>4, <1>5, <1>7, <1>9, <2>1 DEF InOrder, KeysOf
  <2> QED BY <2>2 DEF After
<1>14. IsFiniteSet(KeysOf(Tail(w))) /\ Cardinality(KeysOf(Tail(w))) = ListSize
  <2>1. Cardinality(KeysOf(Tail(w))) = Len(Tail(w)) /\ IsFiniteSet(KeysOf(Tail(w)))
    BY <1>11, KeysCount
  <2> QED BY <1>10, <1>11, <2>1, ListAssumption
<1>15. IsFiniteSet(After(k)')
  <2>1. uses' \in Seq(ListKeys) /\ IsInjective(uses')
    BY <1>5, UsedFacts DEF ListInv, ListTypeOK
  <2>2. IsFiniteSet(Range(uses'))
    BY <2>1, DistinctLength
  <2>3. After(k)' \in SUBSET Range(uses')
    BY DEF After
  <2> QED BY <2>2, <2>3, FS_Subset
<1>16. Cardinality(KeysOf(Tail(w))) <= Cardinality(After(k)')
  BY <1>13, <1>15, FS_Subset
<1>17. Cardinality(After(k)') \in Nat
  BY <1>15, FS_CardinalityType
<1> QED BY <1>14, <1>16, <1>17, ListAssumption

\* An entry makes room only after ListSize other keys were used since it was.
THEOREM BusyEntriesStayCorrect == ListSpec => BusyEntriesStay
<1>1. ListInv /\ [ListNext]_listVars =>
        [\A k \in ListKeys :
           k \in Listed /\ k \notin Listed' /\ (\E x \in ListKeys : SetSiteCacheEntry(x))
             => Cardinality(After(k)') >= ListSize]_listVars
  BY RemovedIsOld
<1> QED BY <1>1, ListInvAlways, PTL DEF ListSpec, BusyEntriesStay

-----------------------------------------------------------------------------
(* The list implements LossyCache *)

\* The map a list of entries stands for.
Value(e) == [exp |-> e.exp, value |-> e.value]
Vacant == [exp |-> 0]
MapOf(list) ==
  [k \in ListKeys |-> IF k \in KeysOf(list)
                      THEN Value(CHOOSE e \in Range(list) : e.key = k) ELSE Vacant]

LEMMA MapFacts ==
  ASSUME NEW list, Rows(list)
  PROVE  /\ \A e \in Range(list) : e.key \in ListKeys /\ MapOf(list)[e.key] = Value(e)
         /\ \A k \in ListKeys : MapOf(list)[k] # Vacant <=> k \in KeysOf(list)
         /\ KeysOf(list) \subseteq ListKeys
<1>1. \A e \in Range(list) : e \in Row
  BY InRange DEF Rows
<1>2. ASSUME NEW e \in Range(list)
      PROVE  e.key \in ListKeys /\ MapOf(list)[e.key] = Value(e)
  <2>1. e.key \in ListKeys /\ e.key \in KeysOf(list)
    BY <1>1 DEF Row, KeysOf
  <2>2. (CHOOSE f \in Range(list) : f.key = e.key) = e
    BY DEF Rows
  <2> QED BY <2>1, <2>2 DEF MapOf
<1>3. \A e \in Range(list) : Value(e) # Vacant
  BY <1>1 DEF Value, Vacant, Row
<1>4. \A k \in ListKeys : k \notin KeysOf(list) => MapOf(list)[k] = Vacant
  BY DEF MapOf
<1>5. \A k \in KeysOf(list) : MapOf(list)[k] # Vacant /\ k \in ListKeys
  BY <1>2, <1>3 DEF KeysOf
<1> QED BY <1>2, <1>4, <1>5

\* The list without some keys; with one entry more, or a new one.
Lacks(sub, list, keys) == Range(sub) = {e \in Range(list) : e.key \notin keys}
Gains(more, list, entry) ==
  Range(more) = {e \in Range(list) : e.key # entry.key} \cup {entry}

LEMMA MapWithout ==
  ASSUME NEW list, NEW sub, NEW keys, Rows(list), Rows(sub), Lacks(sub, list, keys)
  PROVE  MapOf(sub) = [k \in ListKeys |-> IF k \in keys THEN Vacant ELSE MapOf(list)[k]]
<1> SUFFICES ASSUME NEW k \in ListKeys
             PROVE  MapOf(sub)[k] = IF k \in keys THEN Vacant ELSE MapOf(list)[k]
  BY DEF MapOf
<1>1. CASE k \in KeysOf(list) /\ k \notin keys
  <2>1. PICK e \in Range(list) : e.key = k
    BY <1>1 DEF KeysOf
  <2>2. e \in Range(sub)
    BY <1>1, <2>1 DEF Lacks
  <2> QED BY <1>1, <2>1, <2>2, MapFacts
<1>2. CASE ~(k \in KeysOf(list) /\ k \notin keys)
  <2>1. k \notin KeysOf(sub)
    BY <1>2 DEF KeysOf, Lacks
  <2> QED BY <1>2, <2>1, MapFacts
<1> QED BY <1>1, <1>2

LEMMA MapWith ==
  ASSUME NEW list, NEW more, NEW entry \in Row, Rows(list), Rows(more),
         Gains(more, list, entry)
  PROVE  MapOf(more) =
           [k \in ListKeys |-> IF k = entry.key THEN Value(entry) ELSE MapOf(list)[k]]
<1> SUFFICES ASSUME NEW k \in ListKeys
             PROVE  MapOf(more)[k] = IF k = entry.key THEN Value(entry) ELSE MapOf(list)[k]
  BY DEF MapOf
<1>1. CASE k = entry.key
  BY <1>1, MapFacts DEF Gains
<1>2. CASE k # entry.key /\ k \in KeysOf(list)
  <2>1. PICK e \in Range(list) : e.key = k
    BY <1>2 DEF KeysOf
  <2>2. e \in Range(more)
    BY <1>2, <2>1 DEF Gains
  <2> QED BY <1>2, <2>1, <2>2, MapFacts
<1>3. CASE k # entry.key /\ k \notin KeysOf(list)
  <2>1. k \notin KeysOf(more)
    BY <1>3 DEF KeysOf, Gains
  <2> QED BY <1>3, <2>1, MapFacts
<1> QED BY <1>1, <1>2, <1>3

ListBar == [k \in ListKeys |-> IF k \in Listed
                               THEN [exp |-> EntryOf(k).exp, value |-> EntryOf(k).value]
                               ELSE [exp |-> 0]]

LEMMA BarIsMap ==
  /\ ListTypeOK => ListBar = MapOf(store)
  /\ ListTypeOK' => ListBar' = MapOf(store')
<1>1. ListTypeOK => ListBar = MapOf(store)
  <2> SUFFICES ASSUME ListTypeOK PROVE ListBar = MapOf(store)
    OBVIOUS
  <2>1. Listed = KeysOf(store)
    BY StoreIsRows
  <2> QED BY <2>1 DEF ListBar, MapOf, EntryOf, Value, Vacant
<1>2. ListTypeOK' => ListBar' = MapOf(store')
  <2> SUFFICES ASSUME ListTypeOK' PROVE ListBar' = MapOf(store')
    OBVIOUS
  <2>1. Listed' = KeysOf(store')
    BY StoreIsRows DEF Listed, KeysOf, Range
  <2> QED BY <2>1 DEF ListBar, MapOf, EntryOf, Value, Vacant
<1> QED BY <1>1, <1>2

LEMMA ListRefinesInit == ListInit => Lossy!Init
<1> SUFFICES ASSUME ListInit PROVE Lossy!Init
  OBVIOUS
<1>1. listNow = 1 /\ Listed = {}
  BY DEF ListInit, Listed
<1> QED BY <1>1 DEF Lossy!Init, Lossy!Miss

LEMMA ListRefinesStep ==
  ASSUME ListInv, ListInv', [ListNext]_listVars
  PROVE  [Lossy!Next]_<<listNow, ListBar>>
<1>1. /\ ListTypeOK /\ Rows(store) /\ Listed = KeysOf(store) /\ ListBar = MapOf(store)
      /\ listNow \in Nat \ {0} /\ Len(store) <= ListSize
  BY StoreIsRows, BarIsMap DEF ListInv, ListTypeOK
<1>2. Rows(store') /\ ListBar' = MapOf(store')
  <2>1. ListTypeOK'
    BY DEF ListInv
  <2>2. store' \in Seq(Row) /\ \A i, j \in DOMAIN store' : store'[i].key = store'[j].key => i = j
    BY <2>1 DEF ListTypeOK, Row
  <2>3. Rows(store')
    BY <2>2 DEF Rows, Range, IsInjective
  <2> QED BY <2>1, <2>3, BarIsMap
<1>3. ASSUME NEW gone \in SUBSET ListKeys, UNCHANGED listNow,
             ListBar' = [k \in ListKeys |-> IF k \in gone THEN Vacant ELSE ListBar[k]]
      PROVE  Lossy!Next
  BY <1>3 DEF Lossy!Next, Lossy!Drop, Lossy!Miss, Vacant, ListBar
<1>4. ASSUME NEW keys \in SUBSET ListKeys, UNCHANGED listNow, store' = WithoutKeys(keys)
      PROVE  Lossy!Next
  <2>1. Lacks(store', store, keys)
    BY <1>1, <1>4, WithoutRows DEF WithoutKeys, Lacks
  <2>2. ListBar' = [k \in ListKeys |-> IF k \in keys THEN Vacant ELSE ListBar[k]]
    BY <1>1, <1>2, <2>1, MapWithout
  <2> QED BY <1>3, <1>4, <2>2
<1>5. ASSUME UNCHANGED listNow, store' = << >> PROVE Lossy!Next
  <2>1. Range(<< >>) = {}
    BY DEF Range
  <2>2. Lacks(store', store, ListKeys)
    BY <1>1, <1>5, <2>1, MapFacts DEF Lacks
  <2>3. ListBar' = [k \in ListKeys |-> IF k \in ListKeys THEN Vacant ELSE ListBar[k]]
    BY <1>1, <1>2, <2>2, MapWithout
  <2> QED BY <1>3, <1>5, <2>3
<1>6. ASSUME NEW k \in ListKeys, GetSiteCacheEntry(k)
      PROVE  Lossy!Next \/ UNCHANGED <<listNow, ListBar>>
  <2>1. k \in Listed /\ UNCHANGED <<listNow, listTtl>>
    BY <1>6 DEF GetSiteCacheEntry
  <2>2. CASE EntryOf(k).exp <= listNow
    BY <1>4, <1>6, <2>1, <2>2 DEF GetSiteCacheEntry
  <2>3. CASE ~(EntryOf(k).exp <= listNow)
    <3>1. store' = Inserted(k, EntryOf(k))
      BY <1>6, <2>3 DEF GetSiteCacheEntry, Touched, Inserted
    <3>2. EntryOf(k) \in Range(store) /\ EntryOf(k) \in Row /\ EntryOf(k).key = k
      BY <1>1, <2>1, StoredKeys
    <3>3. Range(store') = {e \in Range(store) : e.key # k} \cup {EntryOf(k)}
      BY <3>1, <3>2, InsertedFacts
    <3>4. Lacks(store', store, {})
      BY <1>1, <3>2, <3>3 DEF Rows, Lacks
    <3>5. MapOf(store') = [x \in ListKeys |-> IF x \in {} THEN Vacant ELSE MapOf(store)[x]]
      BY <1>1, <1>2, <3>4, MapWithout
    <3>6. MapOf(store') = MapOf(store)
      BY <3>5 DEF MapOf
    <3> QED BY <1>1, <1>2, <2>1, <3>6
  <2> QED BY <2>2, <2>3
<1>7. ASSUME NEW k \in ListKeys, SetSiteCacheEntry(k) PROVE Lossy!Next
  <2>1. PICK value \in Renders, time \in StoreTtls \ {0} :
          store' = Trimmed(Inserted(k, [key |-> k, value |-> value, exp |-> listNow + time]))
    BY <1>7 DEF SetSiteCacheEntry
  <2> DEFINE entry == [key |-> k, value |-> value, exp |-> listNow + time]
             w == Inserted(k, entry)
  <2>2. entry \in Row /\ entry.key = k
    BY <1>1, StoreTtlsAreNat DEF Row
  <2>3. Value(entry) \in [exp : {listNow + t : t \in StoreTtls \ {0}}, value : Renders]
    BY DEF Value
  <2> HIDE DEF entry
  <2>4. /\ Rows(w)
        /\ Range(w) = {e \in Range(store) : e.key # k} \cup {entry}
    BY <2>2, InsertedFacts
  <2>5. \/ Trimmed(w) = w /\ Len(w) <= ListSize
        \/ /\ Trimmed(w) = Tail(w) /\ w # << >> /\ Len(w) = ListSize + 1
           /\ Head(w) \in Range(store) /\ Head(w).key # k
    BY <2>2, TrimmedFacts
  <2>6. store' = Trimmed(w) /\ UNCHANGED listNow
    BY <1>7, <2>1 DEF entry, SetSiteCacheEntry
  <2> HIDE DEF w
  <2>7. MapOf(w) = [x \in ListKeys |-> IF x = k THEN Value(entry) ELSE ListBar[x]]
    <3>1. Gains(w, store, entry)
      BY <2>2, <2>4 DEF Gains
    <3> QED BY <1>1, <2>2, <2>4, <3>1, MapWith
  <2>8. KeysOf(w) = Listed \cup {k} /\ Listed \subseteq ListKeys
    BY <1>1, <2>2, <2>4, MapFacts DEF KeysOf
  <2>9. Cardinality(Listed \cup {k}) = Len(w) /\ Len(w) \in Nat /\ ListSize \in Nat
    BY <2>4, <2>8, KeysCount, LenProperties, ListAssumption DEF Rows
  <2>10. {x \in ListKeys : ListBar[x] # Vacant} = Listed
    BY <1>1, <2>8, MapFacts
  <2>11. ASSUME NEW lost \in SUBSET (Listed \ {k}),
                Cardinality(lost) = IF Len(w) > ListSize THEN 1 ELSE 0,
                ListBar' = [x \in ListKeys |-> IF x = k THEN Value(entry)
                                               ELSE IF x \in lost THEN Vacant ELSE ListBar[x]]
         PROVE  Lossy!Next
    <3>1. ListBar'[k] = Value(entry)
      BY <2>11
    <3>2. ListBar' = [x \in ListKeys |-> IF x = k THEN ListBar'[k]
                                         ELSE IF x \in lost THEN Vacant ELSE ListBar[x]]
      BY <2>11, <3>1
    <3>3. Lossy!Held = Listed
      BY <2>10 DEF Lossy!Held, Lossy!Miss, Vacant, ListBar
    <3>4. Lossy!Set(k)
      <4>1. \A S : Lossy!Cardinality(S) = Cardinality(S)
        BY DEF Lossy!Cardinality, Cardinality
      <4> QED BY <4>1, <2>3, <2>6, <2>9, <2>11, <3>1, <3>2, <3>3 DEF Lossy!Set, Lossy!Miss, Vacant, ListBar
    <3> QED BY <3>4 DEF Lossy!Next
  <2>12. CASE Trimmed(w) = w /\ Len(w) <= ListSize
    <3>1. ~(Len(w) > ListSize) /\ Cardinality({}) = 0
      BY <2>9, <2>12, FS_EmptySet
    <3>2. ListBar' = [x \in ListKeys |-> IF x = k THEN Value(entry)
                                         ELSE IF x \in {} THEN Vacant ELSE ListBar[x]]
      BY <1>2, <2>6, <2>7, <2>12
    <3> QED BY <2>11, <3>1, <3>2
  <2>13. CASE /\ Trimmed(w) = Tail(w) /\ w # << >> /\ Len(w) = ListSize + 1
              /\ Head(w) \in Range(store) /\ Head(w).key # k
    <3> DEFINE old == Head(w).key
    <3>1. old \in Listed \ {k}
      BY <1>1, <2>13 DEF KeysOf
    <3>2. Lacks(store', w, {old})
      BY <2>4, <2>6, <2>13, TailRows DEF Lacks
    <3>3. MapOf(store') = [x \in ListKeys |-> IF x \in {old} THEN Vacant ELSE MapOf(w)[x]]
      BY <1>2, <2>4, <3>2, MapWithout
    <3>4. ListBar' = [x \in ListKeys |-> IF x = k THEN Value(entry)
                                         ELSE IF x \in {old} THEN Vacant ELSE ListBar[x]]
      BY <1>2, <2>7, <3>1, <3>3
    <3>5. Len(w) > ListSize /\ Cardinality({old}) = 1
      <4>1. Len(w) = ListSize + 1
        BY <2>13
      <4>2. Len(w) > ListSize
        BY <2>9, <4>1
      <4> QED BY <4>2, FS_Singleton
    <3> HIDE DEF old
    <3> QED BY <2>11, <3>1, <3>4, <3>5
  <2> QED BY <2>5, <2>12, <2>13
<1>8. ASSUME ListTick PROVE Lossy!Next
  <2>1. listNow' = listNow + 1 /\ UNCHANGED ListBar
    BY <1>1, <1>2, <1>8 DEF ListTick
  <2> QED BY <2>1 DEF Lossy!Next, Lossy!Tick, ListBar
<1>9. ASSUME NEW time \in ListTtls, ConfigureSiteCache(time) PROVE Lossy!Next
  BY <1>5, <1>9 DEF ConfigureSiteCache
<1>10. ASSUME ClearSiteCache PROVE Lossy!Next
  BY <1>5, <1>10 DEF ClearSiteCache
<1>11. ASSUME NEW path \in ListPaths, InvalidateSiteCachePath(path) PROVE Lossy!Next
  <2>1. OfPath(path) \in SUBSET ListKeys
    BY <1>1, MapFacts DEF OfPath
  <2> QED BY <1>4, <1>11, <2>1 DEF InvalidateSiteCachePath
<1>12. CASE UNCHANGED listVars
  BY <1>1, <1>2, <1>12 DEF listVars
<1> QED BY <1>6, <1>7, <1>8, <1>9, <1>10, <1>11, <1>12 DEF ListNext

\* The list behaves as a map with expiry that sometimes loses an entry.
THEOREM ListIsLossyCache == ListSpec => IsLossyCache
<1>1. ListInv /\ ListInv' /\ [ListNext]_listVars => [Lossy!Next]_<<listNow, ListBar>>
  BY ListRefinesStep
<1> QED
  BY <1>1, ListRefinesInit, ListInvAlways, PTL
  DEF ListSpec, IsLossyCache, Lossy!Spec, ListBar
==============================================================================
