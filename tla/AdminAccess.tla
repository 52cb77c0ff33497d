----------------------------- MODULE AdminAccess -----------------------------
(***************************************************************************)
(* Users, roles and the grants between them: core/services/admin/          *)
(* usersService.ts, rolesService.ts and firstRunService.ts, called through *)
(* the admin routes.  A change that ends an administrator first reads, in  *)
(* statements of its own, that another one remains; other calls commit in  *)
(* between.  The ids of deleted users and roles never come back.           *)
(***************************************************************************)
EXTENDS Naturals, FiniteSets

CONSTANTS
  Users, Roles,
  AdminRole,    \* the role named "admin" that the installation ensures
  Calls,        \* requests of signed-in administrators in flight at once
  Installers,   \* submissions of the first-run form
  Settable      \* statuses administrators give to users with updateUser or enableUser

ASSUME RolesAssumption == AdminRole \in Roles /\ Users \cap Roles = {}
ASSUME FormsFinite == IsFiniteSet(Installers)
ASSUME SettableStatuses == Settable \subseteq {"active", "inactive"}

VARIABLES
  user,        \* each users row: its status (pending is inactive), or unborn, or deleted
  role,        \* "full" has the permission "*", "plain" has not
  grants,      \* user_roles
  call,        \* local variables of each request
  installer,   \* where each installation is
  installs,    \* history: first administrators created
  overlapped   \* history: full access was taken away while another call was under way

adminVars == <<user, role, grants, call, installer, installs, overlapped>>

NoCall == [at |-> "none"]
UserOps == {"setRoles", "disable", "delete"}
RoleOps == {"deleteRole", "makeFull", "makePlain"}

\* ids: the role ids last read; first: those read before the checks; want: the roles
\* to set.  While setUserRoles is in its transaction, ids are the roles the user was
\* given since its delete began.
Call == {NoCall} \cup
  [op : UserOps \cup RoleOps,
   at : {"roleIds", "hasIds", "has", "ensureIds", "ensure", "write", "insert"},
   target : Users \cup Roles, want : SUBSET Roles, ids : SUBSET Roles, first : SUBSET Roles]

AdminTypeOK ==
  /\ user \in [Users -> {"unborn", "active", "inactive", "deleted"}]
  /\ role \in [Roles -> {"unborn", "plain", "full", "deleted"}]
  /\ grants \subseteq {u \in Users : user[u] \notin {"unborn", "deleted"}}
                        \X {r \in Roles : role[r] \in {"plain", "full"}}
  /\ call \in [Calls -> Call]
  /\ installer \in [Installers -> {"form", "wanting", "locked", "counted", "done"}]
  /\ installs \in 0..Cardinality(Installers)
  /\ overlapped \in BOOLEAN

AdminInit ==
  /\ user = [u \in Users |-> "unborn"]
  /\ role = [r \in Roles |-> "unborn"]
  /\ grants = {}
  /\ call = [c \in Calls |-> NoCall]
  /\ installer = [i \in Installers |-> "form"]
  /\ installs = 0 /\ overlapped = FALSE

Present == {u \in Users : user[u] \notin {"unborn", "deleted"}}
FullRoles == {r \in Roles : role[r] = "full"}
Born == {r \in Roles : role[r] \in {"plain", "full"}}
RolesOf(u) == {r \in Roles : <<u, r>> \in grants}
AdminsBy(full) == {u \in Users : RolesOf(u) \cap full # {}}
Admins == AdminsBy(FullRoles)

\* updateRole holds the row it selected FOR UPDATE until it commits.
Locked(r) == \E c \in Calls :
  call[c] # NoCall /\ call[c].op \in {"makeFull", "makePlain"} /\ call[c].target = r

\* The reads behind the caller are not used again.
Goto(c, at) == call' = [call EXCEPT ![c].at = at, ![c].ids = {}, ![c].first = {}]
End(c) == call' = [call EXCEPT ![c] = NoCall]

\* What a call writes; does it take full access from a role, or a role with full access
\* from a user, while another call runs?
Commit(c, newGrants, newRole) ==
  /\ grants' = newGrants /\ role' = newRole
  /\ overlapped' = (overlapped \/
       /\ \/ \E r \in FullRoles : newRole[r] # "full"
          \/ \E g \in grants \ newGrants : g[2] \in FullRoles
       /\ \E o \in Calls \ {c} : call[o] # NoCall)

-----------------------------------------------------------------------------
(* The requests *)

Begin(c, op, at, target, want) ==
  /\ call[c] = NoCall /\ Present # {}
  /\ call' = [call EXCEPT ![c] = [op |-> op, at |-> at, target |-> target, want |-> want,
                                  ids |-> {}, first |-> {}]]

\* setUserRoles: assertRoleIdsExist.
BeginRoles(c) ==
  /\ \E u \in Present, want \in SUBSET Born : Begin(c, "setRoles", "roleIds", u, want)
  /\ UNCHANGED <<user, role, grants, installer, installs, overlapped>>

\* disableUser and deleteUser.
BeginEnd(c) ==
  /\ \E u \in Present, op \in {"disable", "delete"} : Begin(c, op, "hasIds", u, {})
  /\ UNCHANGED <<user, role, grants, installer, installs, overlapped>>

\* deleteRole reads the row; updateRole locks it.  Only what ends a full role is checked.
BeginRole(c) ==
  /\ \E r \in Born, op \in RoleOps :
       /\ op # "deleteRole" => ~Locked(r)
       /\ Begin(c, op, IF op # "makeFull" /\ role[r] = "full" THEN "ensureIds" ELSE "write",
                r, {})
  /\ UNCHANGED <<user, role, grants, installer, installs, overlapped>>

\* setUserRoles: the ids of the full roles before anything else.
ReadRoleIds(c) ==
  /\ call[c].at = "roleIds"
  /\ call' = [call EXCEPT ![c].first = FullRoles,
                          ![c].at = IF FullRoles = {} THEN "write" ELSE "hasIds"]
  /\ UNCHANGED <<user, role, grants, installer, installs, overlapped>>

-----------------------------------------------------------------------------
(* The checks: two reads each *)

\* userHasAdminRole.
HasIds(c) ==
  /\ call[c].at = "hasIds"
  /\ call' = [call EXCEPT ![c].ids = FullRoles, ![c].at = "has"]
  /\ UNCHANGED <<user, role, grants, installer, installs, overlapped>>

\* What the call would end: the user is an administrator, and is to lose every role
\* that was full when setUserRoles began.
Ends(c) ==
  /\ RolesOf(call[c].target) \cap call[c].ids # {}
  /\ call[c].op = "setRoles" => call[c].want \cap call[c].first = {}

Has(c) ==
  /\ call[c].at = "has"
  /\ Goto(c, IF Ends(c) THEN "ensureIds" ELSE "write")
  /\ UNCHANGED <<user, role, grants, installer, installs, overlapped>>

\* ensureNotLastAdmin and ensureAdminRoleRemains: the roles that count ...
EnsureIds(c) ==
  /\ call[c].at = "ensureIds"
  /\ call' = [call EXCEPT ![c].ids = FullRoles \ {call[c].target}, ![c].at = "ensure"]
  /\ UNCHANGED <<user, role, grants, installer, installs, overlapped>>

\* Mutant: the user itself is counted.
OthersAndItself(c) == AdminsBy(call[c].ids)

\* ... and who else holds one; nobody: last_admin.
Others(c) == AdminsBy(call[c].ids) \ {call[c].target}

Ensure(c) ==
  /\ call[c].at = "ensure"
  /\ IF Others(c) = {} THEN End(c) ELSE Goto(c, "write")
  /\ UNCHANGED <<user, role, grants, installer, installs, overlapped>>

-----------------------------------------------------------------------------
(* The writes *)

\* setUserRoles deletes the grants it sees; those another call inserts for the user
\* from now on are not among them.
DeleteGrants(c) ==
  /\ call[c].at = "write" /\ call[c].op = "setRoles"
  /\ Goto(c, "insert")
  /\ UNCHANGED <<user, role, grants, installer, installs, overlapped>>

\* The insert and the commit.  A role or a user that is gone violates a foreign key,
\* which rolls back; a locked role is waited for.
InsertGrants(c) ==
  LET u == call[c].target
      kept == call[c].ids \cap RolesOf(u)
  IN  /\ call[c].at = "insert" /\ user[u] # "deleted"
      /\ call[c].want \subseteq {r \in Born : ~Locked(r)}
      /\ Commit(c, {g \in grants : g[1] # u} \cup ({u} \X (call[c].want \cup kept)), role)
      /\ call' = [o \in DOMAIN call |->
           IF o = c THEN NoCall
           ELSE IF call[o] # NoCall /\ call[o].at = "insert" /\ call[o].target = u
                THEN [call[o] EXCEPT !.ids = @ \cup call[c].want]
           ELSE call[o]]
      /\ UNCHANGED <<user, installer, installs>>

Rollback(c) ==
  /\ call[c].at = "insert"
  /\ user[call[c].target] = "deleted" \/ ~(call[c].want \subseteq Born)
  /\ End(c)
  /\ UNCHANGED <<user, role, grants, installer, installs, overlapped>>

WriteStatus(c) ==
  /\ call[c].at = "write" /\ call[c].op = "disable"
  /\ End(c)
  /\ user' = [user EXCEPT ![call[c].target] = IF @ = "deleted" THEN @ ELSE "inactive"]
  /\ UNCHANGED <<role, grants, installer, installs, overlapped>>

\* The grants of a deleted user or role go with it.
WriteDelete(c) ==
  /\ call[c].at = "write" /\ call[c].op = "delete"
  /\ End(c)
  /\ Commit(c, {g \in grants : g[1] # call[c].target}, role)
  /\ user' = [user EXCEPT ![call[c].target] = "deleted"]
  /\ UNCHANGED <<installer, installs>>

WriteRole(c) ==
  LET r == call[c].target
  IN  /\ call[c].at = "write" /\ call[c].op \in RoleOps
      /\ call[c].op = "deleteRole" => ~Locked(r)
      /\ End(c)
      /\ \/ /\ call[c].op = "deleteRole"
            /\ Commit(c, {g \in grants : g[2] # r}, [role EXCEPT ![r] = "deleted"])
         \/ /\ call[c].op # "deleteRole"
            /\ Commit(c, grants, [role EXCEPT ![r] =
                 IF call[c].op = "makeFull" THEN "full" ELSE "plain"])
      /\ UNCHANGED <<user, installer, installs>>

\* enableUser and updateUser: the status is written unchecked.
SetUserStatus ==
  /\ \E u \in Present, status \in Settable :
       user' = [user EXCEPT ![u] = status]
  /\ UNCHANGED <<role, grants, call, installer, installs, overlapped>>

\* createUser: a role that goes between assertRoleIdsExist and the transaction makes the
\* insert fail, so the two are one step.
CreateUser ==
  /\ Present # {}
  /\ \E u \in Users, want \in SUBSET {r \in Born : ~Locked(r)} :
       /\ user[u] = "unborn" /\ user' = [user EXCEPT ![u] = "inactive"]
       /\ grants' = grants \cup ({u} \X want)
  /\ UNCHANGED <<role, call, installer, installs, overlapped>>

CreateRole ==
  /\ Present # {}
  /\ \E r \in Roles \ {AdminRole}, kind \in {"plain", "full"} :
       role[r] = "unborn" /\ role' = [role EXCEPT ![r] = kind]
  /\ UNCHANGED <<user, grants, call, installer, installs, overlapped>>

-----------------------------------------------------------------------------
(* createFirstAdmin *)

InstallGoto(i, from, to) == installer[i] = from /\ installer' = [installer EXCEPT ![i] = to]

\* The cheap check before the transaction.
PreCheck(i) ==
  /\ InstallGoto(i, "form", IF Present = {} THEN "wanting" ELSE "done")
  /\ UNCHANGED <<user, role, grants, call, installs, overlapped>>

\* Mutant: the lock is not waited for.
InstallLockIgnored(i) ==
  /\ InstallGoto(i, "wanting", "locked")
  /\ UNCHANGED <<user, role, grants, call, installs, overlapped>>

\* pg_advisory_xact_lock: held until the transaction ends.
InstallLock(i) ==
  /\ \A o \in Installers : installer[o] \notin {"locked", "counted"}
  /\ InstallGoto(i, "wanting", "locked")
  /\ UNCHANGED <<user, role, grants, call, installs, overlapped>>

Recount(i) ==
  /\ InstallGoto(i, "locked", IF Present = {} THEN "counted" ELSE "done")
  /\ UNCHANGED <<user, role, grants, call, installs, overlapped>>

\* The role named "admin" as it is, or a full one, the user and the grant; commit.
Install(i) ==
  /\ InstallGoto(i, "counted", "done")
  /\ role[AdminRole] # "deleted"  \* the name of a deleted role is not used again here
  /\ role' = [role EXCEPT ![AdminRole] = IF @ = "unborn" THEN "full" ELSE @]
  /\ \E u \in Users :
       /\ user[u] = "unborn"
       /\ user' = [user EXCEPT ![u] = "active"]
       /\ grants' = grants \cup {<<u, AdminRole>>}
  /\ installs' = installs + 1
  /\ UNCHANGED <<call, overlapped>>

AdminNext ==
  \/ \E c \in Calls :
       \/ BeginRoles(c) \/ BeginEnd(c) \/ BeginRole(c)
       \/ ReadRoleIds(c) \/ HasIds(c) \/ Has(c) \/ EnsureIds(c) \/ Ensure(c)
       \/ DeleteGrants(c) \/ InsertGrants(c) \/ Rollback(c)
       \/ WriteStatus(c) \/ WriteDelete(c) \/ WriteRole(c)
  \/ \E i \in Installers : PreCheck(i) \/ InstallLock(i) \/ Recount(i) \/ Install(i)
  \/ SetUserStatus \/ CreateUser \/ CreateRole

AdminSpec == AdminInit /\ [][AdminNext]_adminVars

-----------------------------------------------------------------------------
(* Properties *)

\* Once installed there is somebody with full access, unless full access was taken
\* from somebody while another call was under way: only overlapping calls can get past
\* ensureNotLastAdmin and ensureAdminRoleRemains.
AdminRemains == installs > 0 /\ ~overlapped => Admins # {}

\* However many first-run forms are submitted at once, one administrator is installed.
InstallOnce == ~overlapped => installs <= 1
=============================================================================
