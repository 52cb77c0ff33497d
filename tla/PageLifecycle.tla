---------------------------- MODULE PageLifecycle ----------------------------
(***************************************************************************)
(* What the page service promises about one row of the pages table: the    *)
(* draft and the live version move in single steps, a save never touches   *)
(* what visitors see, and publishing makes the draft and the live version  *)
(* the same document.  PageRevisions implements it, statement by statement;*)
(* the rows of PublicSite move by these steps.                             *)
(***************************************************************************)
CONSTANTS
  Contents,  \* documents a page can hold (title and slug are not versioned: left out)
  Nothing    \* publishedData is null

VARIABLE page

\* A row that was not inserted yet, and one that was deleted.
Unborn == [status |-> "unborn"]
Gone == [status |-> "gone"]

Row == [status : {"draft", "published"}, draft : Contents, live : Contents \cup {Nothing}]

\* What the public site may serve: it asks for the status and for publishedData.
LiveOf(row) == IF row.status = "published" THEN row.live ELSE Nothing

Stored(row) == row \notin {Unborn, Gone}

Create == page = Unborn /\ \E c \in Contents :
  page' = [status |-> "draft", draft |-> c, live |-> Nothing]
Save == Stored(page) /\ \E c \in Contents : page' = [page EXCEPT !.draft = c]
Publish == Stored(page) /\ \E c \in Contents :
  page' = [status |-> "published", draft |-> c, live |-> c]
Unpublish == Stored(page) /\ page' = [page EXCEPT !.status = "draft", !.live = Nothing]
Restore == Stored(page) /\ \E c \in Contents :
  page' = [page EXCEPT !.status = "draft", !.draft = c]
Delete == Stored(page) /\ page' = Gone

Next == Create \/ Save \/ Publish \/ Unpublish \/ Restore \/ Delete

Spec == page = Unborn /\ [][Next]_page
=============================================================================
