-------------------------------- MODULE Lists --------------------------------
(***************************************************************************)
(* A JavaScript Map read as the list of its keys or entries, in the order  *)
(* of their insertion: the caches of the site and of the admin's events    *)
(* delete an entry and insert it again to make it the most recent one.     *)
(***************************************************************************)
EXTENDS Naturals, Sequences, Functions

\* The list without the elements in gone.  This is SelectSeq as a recursive function.
Without(list, gone) ==
  LET kept[n \in 0..Len(list)] ==
        IF n = 0 THEN << >>
        ELSE IF list[n] \in gone THEN kept[n - 1] ELSE Append(kept[n - 1], list[n])
  IN  kept[Len(list)]

\* x stands before y.
Before(list, x, y) == \E i, j \in DOMAIN list : i < j /\ list[i] = x /\ list[j] = y
==============================================================================
