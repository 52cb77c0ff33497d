------------------------------- MODULE CacheBus -------------------------------
(***************************************************************************)
(* The events that tell the admin's browser tabs that a cached list or     *)
(* record changed (core/admin/utils/cacheBus.ts), seen from one            *)
(* subscription.  Tabs post every event on two channels, one of them for   *)
(* tabs that still run the version before the rename; a subscriber counts  *)
(* what each channel brought to tell a second copy from a second event.    *)
(* An event is an identity: its source, time, key and action.              *)
(***************************************************************************)
EXTENDS Naturals, Sequences, FiniteSets, Functions, Lists

CONSTANTS
  Modern,         \* events of the other tabs
  Old,            \* events of tabs that only know the legacy channel
  Own,            \* events of the subscriber's own tab
  MaxIdentities,  \* MAX_REMOTE_IDENTITIES
  MaxBroadcasts   \* bound: times an identity is broadcast (within one millisecond)

Remote == Modern \cup Old
Events == Remote \cup Own
Transports == {"canonical", "legacy"}

ASSUME BusAssumption ==
  /\ Modern \cap Old = {} /\ Remote \cap Own = {}
  /\ MaxIdentities \in Nat \ {0} /\ MaxBroadcasts \in Nat

VARIABLES
  inbox,      \* per channel: the messages on their way to the subscriber
  counts,     \* remoteCounts: per identity; NoCounts when it is not in the map
  recent,     \* the identities in the map, the most recently counted last
  handled,    \* history: times the handler was called
  broadcasts, \* history: times the event was broadcast
  arrived,    \* history: per channel, copies taken
  evicted     \* history: identities that once had to leave the map

busVars == <<inbox, counts, recent, handled, broadcasts, arrived, evicted>>

NoCounts == [canonical |-> 0, legacy |-> 0, delivered |-> 0]
InMap(c) == c.canonical # 0 \/ c.legacy # 0

BusTypeOK ==
  /\ inbox \in [Transports -> Seq(Events)]
  /\ counts \in [Remote -> [canonical : Nat, legacy : Nat, delivered : Nat]]
  /\ recent \in Seq(Remote) /\ IsInjective(recent) /\ Len(recent) <= MaxIdentities
  /\ Range(recent) = {e \in Remote : InMap(counts[e])}
  /\ handled \in [Events -> Nat] /\ broadcasts \in [Events -> Nat]
  /\ arrived \in [Transports -> [Events -> Nat]]
  /\ evicted \subseteq Remote

BusInit ==
  /\ inbox = [t \in Transports |-> << >>]
  /\ counts = [e \in Remote |-> NoCounts] /\ recent = << >>
  /\ handled = [e \in Events |-> 0] /\ broadcasts = [e \in Events |-> 0]
  /\ arrived = [t \in Transports |-> [e \in Events |-> 0]] /\ evicted = {}

\* broadcastCacheEvent: both channels, and the handlers of the own tab at once.
Broadcast(e) ==
  /\ broadcasts[e] < MaxBroadcasts
  /\ broadcasts' = [broadcasts EXCEPT ![e] = @ + 1]
  /\ inbox' = [t \in Transports |->
       IF e \in Old /\ t = "canonical" THEN inbox[t] ELSE Append(inbox[t], e)]
  /\ handled' = IF e \in Own THEN [handled EXCEPT ![e] = @ + 1] ELSE handled
  /\ UNCHANGED <<counts, recent, arrived, evicted>>

Larger(m, n) == IF m > n THEN m ELSE n
Smaller(m, n) == IF m < n THEN m ELSE n

\* Mutant: every copy beyond those handled is a new event.
CallsForEveryCopy(c) == c.canonical + c.legacy > c.delivered

\* The channel that is ahead has brought an event nobody was told of.
CallsHandler(c) == Larger(c.canonical, c.legacy) > c.delivered

\* Mutant: what was handled stays counted when its two copies are paired off.
PairedKeepsDelivered(c) ==
  LET paired == Smaller(c.canonical, c.legacy)
  IN  [c EXCEPT !.canonical = @ - paired, !.legacy = @ - paired]

\* Copies that both channels brought need not be remembered.
Paired(c) ==
  LET paired == Smaller(c.canonical, c.legacy)
  IN  [canonical |-> c.canonical - paired, legacy |-> c.legacy - paired,
       delivered |-> c.delivered - paired]

Overflowing(list) == Len(list) > MaxIdentities

\* touchLruAndEvictOldestFailOpen, or the entry leaves the map.
Remember(e, c) ==
  LET others == Without(recent, {e})
      list == Append(others, e)
  IN  IF ~InMap(c)
      THEN /\ counts' = [counts EXCEPT ![e] = NoCounts] /\ recent' = others
           /\ UNCHANGED evicted
      ELSE IF Overflowing(list)
      THEN /\ counts' = [counts EXCEPT ![e] = c, ![Head(list)] = NoCounts]
           /\ recent' = Tail(list) /\ evicted' = evicted \cup {Head(list)}
      ELSE /\ counts' = [counts EXCEPT ![e] = c] /\ recent' = list /\ UNCHANGED evicted

\* deliverRemote
DeliverRemote(t) ==
  /\ inbox[t] # << >>
  /\ LET e == Head(inbox[t])
         seen == [counts[e] EXCEPT ![t] = @ + 1]
         calls == CallsHandler(seen)
     IN  IF e \in Own THEN UNCHANGED <<counts, recent, handled, evicted>>
         ELSE /\ Remember(e, Paired(IF calls THEN [seen EXCEPT !.delivered = @ + 1] ELSE seen))
              /\ handled' = IF calls THEN [handled EXCEPT ![e] = @ + 1] ELSE handled
  /\ arrived' = [arrived EXCEPT ![t][Head(inbox[t])] = @ + 1]
  /\ inbox' = [inbox EXCEPT ![t] = Tail(@)]
  /\ UNCHANGED broadcasts

BusNext == (\E e \in Events : Broadcast(e)) \/ (\E t \in Transports : DeliverRemote(t))
BusSpec == BusInit /\ [][BusNext]_busVars

-----------------------------------------------------------------------------
(* Properties *)

\* Whatever the order in which the channels bring the copies, the handler is called
\* with the first copy of an event and never with the second, though events of one
\* identity may be repeated; the own tab's events are handled where they are raised.
HandledOnce ==
  \A e \in Events \ evicted :
    handled[e] = IF e \in Own THEN broadcasts[e]
                 ELSE Larger(arrived["canonical"][e], arrived["legacy"][e])

\* Eviction fails open: when all copies of an event have arrived, it was handled as
\* often as it was broadcast, or more often, even if the map forgot it in between.
NothingLost ==
  \A e \in Events :
    (\A t \in Transports : e \notin Range(inbox[t])) => handled[e] >= broadcasts[e]
===============================================================================
