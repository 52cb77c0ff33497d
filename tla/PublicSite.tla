----------------------------- MODULE PublicSite ------------------------------
(***************************************************************************)
(* The public site and its HTML cache, while admins publish, unpublish and *)
(* rename pages: the page branch of core/server/publicSite.tsx, the cache  *)
(* of core/site/cache/siteCache.ts, and the writes and invalidations of    *)
(* core/services/pages/pageService.ts.  Each server process has a cache of *)
(* its own.  A request and an admin call yield at each of their awaits.    *)
(*                                                                         *)
(* Each write of a row is one step here, the steps of PageLifecycle, which *)
(* PageRevisions shows the requests behind them to implement.  A key is a  *)
(* path: one theme profile, no query.                                      *)
(***************************************************************************)
EXTENDS Naturals, FiniteSets

CONSTANTS
  Procs,      \* server processes
  Reqs,       \* visitors' requests that may be in flight
  Admins,     \* admin calls that may be in flight
  Pages, Paths, Contents,
  Root,       \* the path "/"
  Nothing,    \* null
  Ttls,       \* values of site.cacheTtlSeconds, 0 included when it may be off
  DefaultTtl, \* DEFAULT_SITE_CACHE_TTL_SECONDS, what a new process starts with
  MaxTtl,     \* MAX_SITE_CACHE_TTL_SECONDS
  NonceTtl,   \* lifetime of the beacon nonce a rendered page carries
  MaxRender,  \* bound: a render takes at most this long
  MaxEntries, \* SITE_CACHE_MAX_ENTRIES
  Allowed,    \* what admins and operators may do: a subset of Doings
  MaxTime     \* bound: the clock stops here

Doings == {"publish", "unpublish", "save", "rename", "restore", "delete", "home", "ttl", "crash"}

ASSUME PathsAssumption == Root \in Paths /\ Nothing \notin Paths \cup Pages \cup Contents
ASSUME TtlAssumption == Ttls \subseteq 0..MaxTtl /\ DefaultTtl \in Ttls
ASSUME BoundsAssumption ==
  /\ MaxTtl \in Nat /\ NonceTtl \in Nat /\ MaxRender \in Nat
  /\ MaxEntries \in Nat \ {0} /\ MaxTime \in Nat \ {0}
ASSUME AllowedAssumption == Allowed \subseteq Doings

\* The margin between the cache and the nonce (600 s and 900 s) leaves room for
\* the slowest render.
ASSUME NonceAssumption == MaxTtl + MaxRender <= NonceTtl

VARIABLES
  now,       \* the clock; 0 is before everything
  pages,     \* rows of the pages table
  slug,      \* their slugs, normalized
  home,      \* site.homepageId
  ttl,       \* site.cacheTtlSeconds
  cache,     \* per process: path -> entry
  cachedTtl, \* per process: cachedTtlSeconds
  req,       \* visitors' requests
  admin,     \* admin calls that still have to invalidate
  lastLive   \* history: when a page last showed a document

db == <<pages, slug, home, ttl>>
vars == <<now, db, cache, cachedTtl, req, admin, lastLive>>

Unborn == [status |-> "unborn"]
Deleted == [status |-> "gone"]
PageRow == [status : {"draft", "published"}, draft : Contents, live : Contents \cup {Nothing}]
Stored(row) == row \notin {Unborn, Deleted}

\* page.status = "published" and page.publishedData: what a visitor may get.
LiveOf(row) == IF Stored(row) /\ row.status = "published" THEN row.live ELSE Nothing

Miss == [exp |-> 0]
\* "raced": the page had moved on when the entry was stored (history).
Entry == [exp : Nat \ {0}, page : Pages, html : Contents, minted : Nat, raced : BOOLEAN]

Idle == [pc |-> "idle"]
Req == {Idle}
  \cup [pc : {"configure", "home", "slug"}, proc : Procs, path : Paths, ttl : Ttls]
  \cup [pc : {"page"}, proc : Procs, path : Paths, ttl : Ttls, page : Pages]
  \cup [pc : {"mint", "fill"}, proc : Procs, path : Paths, ttl : Ttls, page : Pages,
        html : Contents, readAt : Nat, minted : Nat]

Admin == {Idle} \cup [pc : {"dropSlug", "dropHome"}, proc : Procs, page : Pages, path : Paths]

TypeOK ==
  /\ now \in Nat
  /\ pages \in [Pages -> PageRow \cup {Unborn, Deleted}]
  /\ slug \in [Pages -> Paths \cup {Nothing}]
  /\ \A p \in Pages : Stored(pages[p]) => slug[p] \in Paths
  /\ home \in Pages \cup {Nothing}
  /\ ttl \in Ttls
  /\ cache \in [Procs -> [Paths -> Entry \cup {Miss}]]
  /\ cachedTtl \in [Procs -> Ttls]
  /\ req \in [Reqs -> Req]
  /\ admin \in [Admins -> Admin]
  /\ lastLive \in [Pages -> [Contents -> Nat]]

Empty == [path \in Paths |-> Miss]

Init ==
  /\ now = 1
  /\ pages = [p \in Pages |-> Unborn]
  /\ slug = [p \in Pages |-> Nothing]
  /\ home \in Pages \cup {Nothing}
  /\ ttl \in Ttls
  /\ cache = [s \in Procs |-> Empty]
  /\ cachedTtl = [s \in Procs |-> DefaultTtl]
  /\ req = [r \in Reqs |-> Idle]
  /\ admin = [a \in Admins |-> Idle]
  /\ lastLive = [p \in Pages |-> [c \in Contents |-> 0]]

-----------------------------------------------------------------------------
(* The pages table *)

\* Records which documents are live from now on.
Observe(rows, time) ==
  lastLive' = [p \in Pages |-> [c \in Contents |->
                 IF LiveOf(rows[p]) = c THEN time ELSE lastLive[p][c]]]

Write(p, row) ==
  /\ pages' = [pages EXCEPT ![p] = row]
  /\ Observe([pages EXCEPT ![p] = row], now)

\* slug is unique.
FreeFor(p, path) == \A q \in Pages \ {p} : slug[q] # path

\* createPage and duplicatePage: a draft under a slug nobody has.
CreatePage(p) ==
  /\ pages[p] = Unborn
  /\ \E c \in Contents : Write(p, [status |-> "draft", draft |-> c, live |-> Nothing])
  /\ \E path \in Paths : FreeFor(p, path) /\ slug' = [slug EXCEPT ![p] = path]
  /\ UNCHANGED <<now, home, ttl, cache, cachedTtl, req, admin>>

\* updatePage with new data and, or, a new slug.  No path is invalidated.
UpdatePage(p) ==
  /\ "save" \in Allowed /\ Stored(pages[p])
  /\ \E c \in Contents : Write(p, [pages[p] EXCEPT !.draft = c])
  /\ \E path \in Paths :
       /\ FreeFor(p, path)
       /\ path = slug[p] \/ "rename" \in Allowed
       /\ slug' = [slug EXCEPT ![p] = path]
  /\ UNCHANGED <<now, home, ttl, cache, cachedTtl, req, admin>>

\* restoreRevision: the draft becomes an earlier document, under the slug it
\* had, and the row's status draft.  No path is invalidated.
RestoreRevision(p) ==
  /\ "restore" \in Allowed /\ Stored(pages[p])
  /\ \E c \in Contents : Write(p, [pages[p] EXCEPT !.status = "draft", !.draft = c])
  /\ \E path \in Paths : FreeFor(p, path) /\ slug' = [slug EXCEPT ![p] = path]
  /\ UNCHANGED <<now, home, ttl, cache, cachedTtl, req, admin>>

\* deletePage.  No path is invalidated.
DeletePage(p) ==
  /\ "delete" \in Allowed /\ Stored(pages[p])
  /\ Write(p, Deleted)
  /\ slug' = [slug EXCEPT ![p] = Nothing]
  /\ UNCHANGED <<now, home, ttl, cache, cachedTtl, req, admin>>

\* publishPage and unpublishPage up to their commit, on the process `s`.
Change(a, s, p, row) ==
  /\ admin[a] = Idle /\ Stored(pages[p])
  /\ Write(p, row)
  /\ admin' = [admin EXCEPT ![a] = [pc |-> "dropSlug", proc |-> s, page |-> p, path |-> slug[p]]]
  /\ UNCHANGED <<now, slug, home, ttl, cache, cachedTtl, req>>

PublishPage(a, s, p) ==
  /\ "publish" \in Allowed
  /\ \E c \in Contents :
       Change(a, s, p, [status |-> "published", draft |-> c, live |-> c])

UnpublishPage(a, s, p) ==
  /\ "unpublish" \in Allowed
  /\ Change(a, s, p, [pages[p] EXCEPT !.status = "draft", !.live = Nothing])

\* invalidateSiteCachePath in the process that handles the call.
InvalidatePath(s, path) == cache' = [cache EXCEPT ![s][path] = Miss]

InvalidateSlug(a) ==
  /\ admin[a].pc = "dropSlug"
  /\ InvalidatePath(admin[a].proc, admin[a].path)
  /\ admin' = [admin EXCEPT ![a].pc = "dropHome"]
  /\ UNCHANGED <<now, db, cachedTtl, req, lastLive>>

\* Mutant: only the page's own path is invalidated.
InvalidateHomeSkipped(a) ==
  /\ admin[a].pc = "dropHome"
  /\ admin' = [admin EXCEPT ![a] = Idle]
  /\ UNCHANGED <<now, db, cache, cachedTtl, req, lastLive>>

\* Reads site.homepageId and invalidates "/" when it is this page.
InvalidateHome(a) ==
  /\ admin[a].pc = "dropHome"
  /\ IF home = admin[a].page THEN InvalidatePath(admin[a].proc, Root) ELSE UNCHANGED cache
  /\ admin' = [admin EXCEPT ![a] = Idle]
  /\ UNCHANGED <<now, db, cachedTtl, req, lastLive>>

\* setSetting of site.homepageId and site.cacheTtlSeconds: neither clears the
\* cache.
SetHome ==
  /\ "home" \in Allowed
  /\ home' \in Pages \cup {Nothing}
  /\ UNCHANGED <<now, pages, slug, ttl, cache, cachedTtl, req, admin, lastLive>>

SetTtl ==
  /\ "ttl" \in Allowed
  /\ ttl' \in Ttls
  /\ UNCHANGED <<now, pages, slug, home, cache, cachedTtl, req, admin, lastLive>>

-----------------------------------------------------------------------------
(* A visitor's request *)

Goto(r, next) == req' = [req EXCEPT ![r] = next]
Holds(s) == {path \in Paths : cache[s][path] # Miss}

\* getSetting("site.cacheTtlSeconds"); the theme profile is read after it.
ReadTtl(r) ==
  /\ req[r] = Idle
  /\ \E s \in Procs, path \in Paths :
       Goto(r, [pc |-> "configure", proc |-> s, path |-> path, ttl |-> ttl])
  /\ UNCHANGED <<now, db, cache, cachedTtl, admin, lastLive>>

\* configureSiteCache: a TTL other than the last one clears the cache.
Configured(s, t) == IF t # cachedTtl[s] THEN Empty ELSE cache[s]

\* Mutant: an entry is served at its expiry instant.
HitAtExpiry(entry) == entry.exp >= now

Hit(entry) == entry.exp > now

\* configureSiteCache and the cache lookup, which drops an expired entry; a
\* hit makes the entry the most recently used one, its expiry stays.
Lookup(r) ==
  /\ req[r].pc = "configure"
  /\ LET s == req[r].proc
         path == req[r].path
         entries == Configured(s, req[r].ttl)
         hit == req[r].ttl > 0 /\ Hit(entries[path])
     IN  /\ cachedTtl' = [cachedTtl EXCEPT ![s] = req[r].ttl]
         /\ cache' = [cache EXCEPT ![s] =
                        IF req[r].ttl = 0 THEN entries
                        ELSE IF hit THEN entries
                        ELSE [entries EXCEPT ![path] = Miss]]
         /\ Goto(r, IF hit THEN Idle
                    ELSE [req[r] EXCEPT !.pc = IF path = Root THEN "home" ELSE "slug"])
  /\ UNCHANGED <<now, db, admin, lastLive>>

\* "/" with a homepage is that page, without one it is looked up by slug.
ReadHome(r) ==
  /\ req[r].pc = "home"
  /\ Goto(r, IF home = Nothing THEN [req[r] EXCEPT !.pc = "slug"]
             ELSE [pc |-> "page", proc |-> req[r].proc, path |-> req[r].path,
                   ttl |-> req[r].ttl, page |-> home])
  /\ UNCHANGED <<now, db, cache, cachedTtl, admin, lastLive>>

\* 404 unless the page is published; its document is rendered.
Rendering(r, p) ==
  IF LiveOf(pages[p]) = Nothing THEN Idle
  ELSE [pc |-> "mint", proc |-> req[r].proc, path |-> req[r].path, ttl |-> req[r].ttl,
        page |-> p, html |-> LiveOf(pages[p]), readAt |-> now, minted |-> 0]

\* getPage(homepageId)
ReadPage(r) ==
  /\ req[r].pc = "page"
  /\ Goto(r, Rendering(r, req[r].page))
  /\ UNCHANGED <<now, db, cache, cachedTtl, admin, lastLive>>

\* getPageBySlug
ReadSlug(r) ==
  /\ req[r].pc = "slug"
  /\ \/ \E p \in Pages : slug[p] = req[r].path /\ Goto(r, Rendering(r, p))
     \/ (\A p \in Pages : slug[p] # req[r].path) /\ Goto(r, Idle)
  /\ UNCHANGED <<now, db, cache, cachedTtl, admin, lastLive>>

\* Mutant: one nonce, minted at start, for every page.
MintOnce(r) ==
  /\ req[r].pc = "mint"
  /\ Goto(r, [req[r] EXCEPT !.pc = "fill", !.minted = 1])
  /\ UNCHANGED <<now, db, cache, cachedTtl, admin, lastLive>>

\* The render mints the beacon nonce on its way.
Mint(r) ==
  /\ req[r].pc = "mint"
  /\ Goto(r, [req[r] EXCEPT !.pc = "fill", !.minted = now])
  /\ UNCHANGED <<now, db, cache, cachedTtl, admin, lastLive>>

\* Mutant: no room is made.
PutBeyondLimit(s, path, entry) == {[cache[s] EXCEPT ![path] = entry]}

\* setSiteCacheEntry: stored under the TTL the request started with; the least
\* recently used entry goes when there are too many (any one here: SiteCache).
Put(s, path, entry) ==
  LET entries == [cache[s] EXCEPT ![path] = entry]
      full == Cardinality(Holds(s) \cup {path}) > MaxEntries
  IN  IF full THEN {[entries EXCEPT ![old] = Miss] : old \in Holds(s) \ {path}}
      ELSE {entries}

FilledEntry(r) ==
  [exp |-> now + req[r].ttl, page |-> req[r].page, html |-> req[r].html,
   minted |-> req[r].minted, raced |-> LiveOf(pages[req[r].page]) # req[r].html]

Fill(r) ==
  /\ req[r].pc = "fill"
  /\ IF req[r].ttl = 0 THEN UNCHANGED cache
     ELSE \E entries \in Put(req[r].proc, req[r].path, FilledEntry(r)) :
            cache' = [cache EXCEPT ![req[r].proc] = entries]
  /\ Goto(r, Idle)
  /\ UNCHANGED <<now, db, cachedTtl, admin, lastLive>>

-----------------------------------------------------------------------------
\* The process dies: its cache and its calls are gone.
Crash(s) ==
  /\ "crash" \in Allowed
  /\ cache' = [cache EXCEPT ![s] = Empty]
  /\ cachedTtl' = [cachedTtl EXCEPT ![s] = DefaultTtl]
  /\ req' = [r \in Reqs |-> IF req[r] # Idle /\ req[r].proc = s THEN Idle ELSE req[r]]
  /\ admin' = [a \in Admins |-> IF admin[a] # Idle /\ admin[a].proc = s THEN Idle ELSE admin[a]]
  /\ UNCHANGED <<now, db, lastLive>>

InRender(r) == req[r].pc \in {"mint", "fill"}

Tick ==
  /\ now < MaxTime
  /\ \A r \in Reqs : InRender(r) => now < req[r].readAt + MaxRender
  /\ now' = now + 1
  /\ Observe(pages, now + 1)
  /\ UNCHANGED <<db, cache, cachedTtl, req, admin>>

Database ==
  \/ \E p \in Pages : CreatePage(p) \/ UpdatePage(p) \/ RestoreRevision(p) \/ DeletePage(p)
  \/ \E a \in Admins, s \in Procs, p \in Pages : PublishPage(a, s, p) \/ UnpublishPage(a, s, p)
  \/ SetHome \/ SetTtl
Invalidate(a) == InvalidateSlug(a) \/ InvalidateHome(a)
Serve(r) ==
  ReadTtl(r) \/ Lookup(r) \/ ReadHome(r) \/ ReadPage(r) \/ ReadSlug(r) \/ Mint(r) \/ Fill(r)

Next ==
  \/ Database
  \/ \E a \in Admins : Invalidate(a)
  \/ \E r \in Reqs : Serve(r)
  \/ \E s \in Procs : Crash(s)
  \/ Tick

Spec == Init /\ [][Next]_vars

-----------------------------------------------------------------------------
(* Properties *)

\* Entries a lookup would serve.
Servable(s, path) == Hit(cache[s][path])

\* A visitor never gets a document that has not been live within the last TTL
\* and one render, whatever is renamed, restored, deleted or reconfigured and
\* whichever process answers; in particular never one that was only a draft.
BoundedStaleness ==
  \A s \in Procs, path \in Paths : Servable(s, path) =>
    LET entry == cache[s][path]
        last == lastLive[entry.page][entry.html]
    IN  last > 0 /\ now < last + MaxRender + MaxTtl

\* beaconTtl.ts: cache-served pages never carry an expired beacon nonce.
NonceOutlivesEntry ==
  \A s \in Procs, path \in Paths :
    cache[s][path] # Miss => cache[s][path].exp <= cache[s][path].minted + NonceTtl

Pending(p) == \E a \in Admins : admin[a] # Idle /\ admin[a].page = p

\* SITE_RUNTIME.md: the cache is cleared after a publish or an unpublish.
\* An entry that was right when it was stored does not survive the publish or
\* unpublish that makes it wrong, on "/" and on the page's own path.
InvalidationComplete ==
  \A s \in Procs, path \in Paths :
    LET entry == cache[s][path]
    IN  entry # Miss /\ ~entry.raced /\ ~Pending(entry.page)
          => entry.html = LiveOf(pages[entry.page])

\* The cache of a process does what LossyCache promises, as the list of SiteCache does:
\* an entry only goes, never changes and never comes back, whatever is invalidated or
\* configured in between, and a new one takes the place of one other at most.
OfProcess(s) == INSTANCE LossyCache WITH
  Keys <- Paths,
  Values <- [page : Pages, html : Contents, minted : Nat, raced : BOOLEAN],
  entries <- [path \in Paths |->
    LET e == cache[s][path]
    IN  IF e = Miss THEN Miss
        ELSE [exp |-> e.exp,
              value |-> [page |-> e.page, html |-> e.html, minted |-> e.minted,
                         raced |-> e.raced]]]
CachesAreLossy ==
  /\ \A s \in Procs : OfProcess(s)!Init
  /\ [][\A s \in Procs : UNCHANGED <<now, cache[s]>> \/ OfProcess(s)!Next]_vars
=============================================================================
