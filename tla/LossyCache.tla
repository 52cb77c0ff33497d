----------------------------- MODULE LossyCache ------------------------------
(***************************************************************************)
(* What a user of the site cache may rely on: an entry is found under its  *)
(* key until it expires, is dropped, or had to make room; it never comes   *)
(* back and never changes.  PublicSite uses its cache this way.            *)
(***************************************************************************)
EXTENDS Naturals, FiniteSets

CONSTANTS Keys, Values, Ttls, MaxEntries

VARIABLES now, entries

Miss == [exp |-> 0]
Held == {k \in Keys : entries[k] # Miss}

Init == now = 1 /\ entries = [k \in Keys |-> Miss]

\* A hit changes nothing; an expired entry goes when it is looked up.
Get(k) ==
  /\ entries[k] # Miss /\ entries[k].exp <= now
  /\ entries' = [entries EXCEPT ![k] = Miss]
  /\ UNCHANGED now

\* A new entry, and at most one other entry less.
Set(k) ==
  /\ entries'[k] \in [exp : {now + ttl : ttl \in Ttls \ {0}}, value : Values]
  /\ \E lost \in SUBSET (Held \ {k}) :
       /\ entries' = [x \in Keys |-> IF x = k THEN entries'[k]
                                    ELSE IF x \in lost THEN Miss ELSE entries[x]]
       /\ Cardinality(lost) = IF Cardinality(Held \cup {k}) > MaxEntries THEN 1 ELSE 0
  /\ UNCHANGED now

Drop ==
  /\ \E gone \in SUBSET Keys :
       entries' = [k \in Keys |-> IF k \in gone THEN Miss ELSE entries[k]]
  /\ UNCHANGED now

Tick == now' = now + 1 /\ UNCHANGED entries

Next == Drop \/ Tick \/ \E k \in Keys : Get(k) \/ Set(k)
Spec == Init /\ [][Next]_<<now, entries>>
=============================================================================
