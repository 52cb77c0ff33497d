----------------------------- MODULE MC_Accounts -----------------------------
(***************************************************************************)
(* Model values for Sessions and AdminAccess, which share no state here.   *)
(* The first state picks a scene; the state space is the sum of theirs.    *)
(***************************************************************************)
EXTENDS Sessions, AdminAccess, TLC

CONSTANTS l1, l2, m1, m2, c1, c2, t1, t2, t3, u1, u2, admin, editor, k1, k2, i1, i2

VARIABLE scene

MCTokens == {t1, t2, t3}
MCUsers == {u1, u2}
Symmetry == Permutations(MCTokens) \cup Permutations(MCUsers)

\* Two logins at once; resets that race, on a clock; a password changed under logins.
Crowd == INSTANCE Sessions WITH Mails <- {}, Confirms <- {}
Resets == INSTANCE Sessions WITH Logins <- {}
Change == INSTANCE Sessions WITH Logins <- {l1}, Mails <- {m1}, MaxSessions <- 2, MaxClock <- 0

\* Two administrators at once; one of them, after racing installations.
Race == INSTANCE AdminAccess WITH Installers <- {i1}, Settable <- {}
Alone == INSTANCE AdminAccess WITH Calls <- {k1}

SessionScenes == {"crowd", "resets", "change"}
AdminScenes == {"race", "alone"}

Init ==
  /\ scene \in SessionScenes \cup AdminScenes
  /\ SessionsInit /\ AdminInit
  /\ scene # "crowd" => limit = 2
  /\ scene \in AdminScenes => account.status = "active"

\* Nothing is claimed of an account list once administrators have overlapped.
Next ==
  /\ UNCHANGED scene
  /\ \/ /\ UNCHANGED adminVars
        /\ \/ scene = "crowd" /\ Crowd!SessionsNext
           \/ scene = "resets" /\ Resets!SessionsNext
           \/ scene = "change" /\ Change!SessionsNext
     \/ /\ UNCHANGED sessionVars /\ ~overlapped
        /\ \/ scene = "race" /\ Race!AdminNext
           \/ scene = "alone" /\ Alone!AdminNext

Spec == Init /\ [][Next]_<<scene, sessionVars, adminVars>>
=============================================================================
