-------------------------- MODULE MC_PageRevisions --------------------------
(***************************************************************************)
(* Model values for the run of PageRevisions, with two assignments of      *)
(* roles: calls of one kind come one at a time, or they race.  The         *)
(* retention depends on the document.                                      *)
(***************************************************************************)
EXTENDS PageRevisions, TLC

CONSTANTS j1, j2, r1, r2, r3, r4, c1, c2

MCContents == {c1, c2}
KeepMixed == [c \in MCContents |-> IF c = c1 THEN 1 ELSE 2]

\* Each operation is open to the requests listed for it.
RolesOf(publish, autosave, others, fail) ==
  [d \in Doings |->
     IF d = "publish" THEN publish
     ELSE IF d = "autosave" THEN autosave
     ELSE IF d = "fail" THEN fail
     ELSE others]
Everybody == {j1, j2}
OnePublisher == RolesOf({j1}, {j2}, {j2}, {j1})
\* Restores and discards are left to the other assignment.
EverythingRaces ==
  [RolesOf(Everybody, Everybody, {j2}, {j1}) EXCEPT !["restore"] = {}, !["discard"] = {}]
MCRoles == {OnePublisher, EverythingRaces}

RevSymmetry == Permutations(RevIds)
=============================================================================
