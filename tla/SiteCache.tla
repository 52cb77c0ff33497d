------------------------------ MODULE SiteCache ------------------------------
(***************************************************************************)
(* core/site/cache/siteCache.ts in one process: a Map in insertion order   *)
(* used as an LRU list, whose keys carry a theme profile, a path and a     *)
(* query signature, and whose entries have a TTL each.                     *)
(***************************************************************************)
EXTENDS Naturals, Sequences, FiniteSets, Functions, Lists

CONSTANTS
  ListKeys, ListPaths,
  PathOf,      \* the path segment of a key
  Renders,     \* rendered pages
  ListTtls,    \* values of site.cacheTtlSeconds
  ShortTtl,    \* DEFAULT_SITE_CACHE_TTL_SECONDS, also the cap for filtered variants
  ListSize,    \* SITE_CACHE_MAX_ENTRIES
  ListTime     \* bound: the clock stops here

ASSUME ListAssumption ==
  /\ PathOf \in [ListKeys -> ListPaths]
  /\ ListSize \in Nat \ {0} /\ ShortTtl \in Nat \ {0} /\ ListTime \in Nat
  /\ ListTtls \subseteq Nat /\ ShortTtl \in ListTtls

VARIABLES
  listNow,
  store,     \* the Map, oldest entry first
  listTtl,   \* cachedTtlSeconds
  uses       \* history: the keys ever stored or hit, the last used one last

listVars == <<listNow, store, listTtl, uses>>

Listed == {store[i].key : i \in DOMAIN store}
EntryOf(k) == CHOOSE e \in Range(store) : e.key = k
WithoutKeys(keys) == Without(store, {e \in Range(store) : e.key \in keys})
Used(k) == Append(Without(uses, {k}), k)

ListTypeOK ==
  /\ listNow \in Nat \ {0}
  /\ store \in Seq([key : ListKeys, value : Renders, exp : Nat \ {0}])
  /\ listTtl \in ListTtls
  /\ uses \in Seq(ListKeys) /\ IsInjective(uses)
  /\ \A i, j \in DOMAIN store : store[i].key = store[j].key => i = j
  /\ Len(store) <= ListSize

ListInit ==
  /\ listNow = 1
  /\ store = << >>
  /\ listTtl = ShortTtl
  /\ uses = << >>

\* Mutant: a hit leaves the entry where it is.
TouchedInPlace(k) == store

\* A hit deletes the entry and stores it again at the end.
Touched(k) == Append(WithoutKeys({k}), EntryOf(k))

GetSiteCacheEntry(k) ==
  /\ k \in Listed
  /\ IF EntryOf(k).exp <= listNow
     THEN store' = WithoutKeys({k}) /\ UNCHANGED uses
     ELSE store' = Touched(k) /\ uses' = Used(k)
  /\ UNCHANGED <<listNow, listTtl>>

Inserted(k, entry) == Append(WithoutKeys({k}), entry)

\* Mutant: room is made for every entry beyond, and at, the maximum.
TrimmedEarly(list) == IF Len(list) >= ListSize THEN Tail(list) ELSE list

Trimmed(list) == IF Len(list) > ListSize THEN Tail(list) ELSE list

\* A render stores under the TTL its request started with, capped at ShortTtl
\* for a filtered variant.  A TTL of zero stores nothing.
StoreTtls == ListTtls \cup {IF t < ShortTtl THEN t ELSE ShortTtl : t \in ListTtls}

SetSiteCacheEntry(k) ==
  /\ \E value \in Renders, time \in StoreTtls \ {0} :
       /\ store' = Trimmed(Inserted(k, [key |-> k, value |-> value, exp |-> listNow + time]))
       /\ uses' = Used(k)
  /\ UNCHANGED <<listNow, listTtl>>

\* configureSiteCache: a TTL other than the last one clears the cache.
ConfigureSiteCache(time) ==
  /\ time # listTtl
  /\ listTtl' = time
  /\ store' = << >>
  /\ UNCHANGED <<listNow, uses>>

ClearSiteCache ==
  /\ store' = << >>
  /\ UNCHANGED <<listNow, listTtl, uses>>

OfPath(path) == {k \in Listed : PathOf[k] = path}

\* Every profile's and every filtered variant of the path goes.
InvalidateSiteCachePath(path) ==
  /\ store' = WithoutKeys(OfPath(path))
  /\ UNCHANGED <<listNow, listTtl, uses>>

ListTick == listNow < ListTime /\ listNow' = listNow + 1 /\ UNCHANGED <<store, listTtl, uses>>

ListNext ==
  \/ \E k \in ListKeys : GetSiteCacheEntry(k) \/ SetSiteCacheEntry(k)
  \/ \E time \in ListTtls : ConfigureSiteCache(time)
  \/ ClearSiteCache
  \/ \E path \in ListPaths : InvalidateSiteCachePath(path)
  \/ ListTick

ListSpec == ListInit /\ [][ListNext]_listVars

-----------------------------------------------------------------------------
(* Properties *)

\* The keys used since k was.
After(k) == {x \in Range(uses) : Before(uses, k, x)}

\* An entry makes room only after ListSize other keys were used since it was
\* stored or hit last: readers of many other pages do not evict a busy one.
BusyEntriesStay ==
  [][\A k \in ListKeys :
       k \in Listed /\ k \notin Listed' /\ (\E x \in ListKeys : SetSiteCacheEntry(x))
         => Cardinality(After(k)') >= ListSize]_listVars

\* The list behaves as a map with expiry that sometimes loses an entry.
Lossy == INSTANCE LossyCache WITH
  Keys <- ListKeys, Values <- Renders, Ttls <- StoreTtls, MaxEntries <- ListSize, now <- listNow,
  entries <- [k \in ListKeys |-> IF k \in Listed
                                 THEN [exp |-> EntryOf(k).exp, value |-> EntryOf(k).value]
                                 ELSE [exp |-> 0]]
IsLossyCache == Lossy!Spec
=============================================================================
