------------------------------ MODULE Sessions ------------------------------
(***************************************************************************)
(* One account: its password, its sessions and its reset tokens.           *)
(* core/services/auth/sessionService.ts, passwordResetService.ts and       *)
(* userService.ts, as the routes of authRoutes.ts and                      *)
(* sessionAdminRoutes.ts call them.  No call runs in a transaction: each   *)
(* awaited statement is a step, and other requests run in between.         *)
(***************************************************************************)
EXTENDS Naturals, FiniteSets

CONSTANTS
  Logins, Mails, Confirms,  \* requests that may be in flight at once, by their route
  Tokens,       \* reset tokens
  Limits,       \* session.maxPerUser an operator can configure; 1 is also singleSession
  SessionTtl,   \* auth.sessionTtlDays on the clock
  ResetTtl,     \* auth.resetTtlMinutes on the clock
  MaxSessions,  \* bound: sessions of a behaviour
  MaxClock,     \* bound: the clock stops here
  MaxCuts       \* bound: requests whose process or database fails

ASSUME FiniteLogins == IsFiniteSet(Logins)
ASSUME SessionLimits == Limits \subseteq Nat \ {0} /\ Limits # {}
ASSUME SessionTtls == SessionTtl \in Nat \ {0} /\ ResetTtl \in Nat \ {0}
ASSUME SessionBounds == MaxSessions \in Nat /\ MaxClock \in Nat /\ MaxCuts \in Nat

Requests == Logins \cup Mails \cup Confirms

VARIABLES
  clock,
  limit,     \* the session policy
  account,   \* the users row: its status and the version of its password
  sessions,  \* rows of sessions that are not revoked, by number
  made,      \* sessions inserted so far: they are numbered in the order of createdAt
  resets,    \* rows of password_resets
  request,   \* local variables of each request
  changes,   \* history: how often each token set the password
  cuts,      \* history: requests cut off ...
  spared     \* ... one of them before it could end the sessions

sessionVars ==
  <<clock, limit, account, sessions, made, resets, request, changes, cuts, spared>>

Statuses == {"pending", "active", "inactive"}
NotSent == [at |-> "idle"]
NoReset == [state |-> "none"]

\* password: the version the login verified; current: it was still the account's when
\* the session was inserted.
Session == [password : Nat, current : BOOLEAN, expiresAt : Nat]
Reset == [state : {"open", "used"}, expiresAt : Nat]

Request == {NotSent}
  \cup [at : {"enforce", "insert"}, password : Nat]
  \cup [at : {"revokeExcess"}, password : Nat, excess : SUBSET Nat]
  \cup [at : {"invalidate", "insertToken"}, token : Tokens, expiresAt : Nat]
  \cup [at : {"deliver"}, token : Tokens]
  \cup [at : {"consume"}, token : Tokens, now : Nat]
  \cup [at : {"readStatus", "revokeAll"}, token : Tokens]
  \cup [at : {"setPassword"}, token : Tokens, status : Statuses]

SessionsTypeOK ==
  /\ clock \in 0..MaxClock
  /\ limit \in Limits
  /\ account \in [status : Statuses, password : Nat]
  /\ made \in 0..MaxSessions /\ DOMAIN sessions \subseteq 1..made
  /\ \A s \in DOMAIN sessions : sessions[s] \in Session
  /\ resets \in [Tokens -> Reset \cup {NoReset}]
  /\ request \in [Requests -> Request]
  /\ changes \in [Tokens -> Nat]
  /\ cuts \in 0..MaxCuts /\ spared \in BOOLEAN

SessionsInit ==
  /\ clock = 0
  /\ limit \in Limits
  /\ account \in [status : {"pending", "active"}, password : {0}]
  /\ sessions = <<>> /\ made = 0
  /\ resets = [t \in Tokens |-> NoReset]
  /\ request = [r \in Requests |-> NotSent]
  /\ changes = [t \in Tokens |-> 0]
  /\ cuts = 0 /\ spared = FALSE

Go(r, at, next) == request[r].at = at /\ request' = [request EXCEPT ![r] = next]

Live == {s \in DOMAIN sessions : sessions[s].expiresAt > clock}

\* Nothing reads a session once revokedAt is set, and nothing clears it.
Revoke(S) == sessions' = [s \in DOMAIN sessions \ S |-> sessions[s]]

-----------------------------------------------------------------------------
(* POST /auth/login and createSession *)

\* getUserByEmail and verifyPassword: the password typed is that of the row read.
Verify(r) ==
  /\ account.status = "active"
  /\ Go(r, "idle", [at |-> "enforce", password |-> account.password])
  /\ UNCHANGED <<clock, limit, account, sessions, made, resets, changes, cuts, spared>>

\* Mutant: the limit is for the sessions there are, not for the one to come.
OldestExcessLate == {s \in Live : Cardinality({o \in Live : o >= s}) > limit}

\* All but the newest maxPerUser - 1 sessions that are neither revoked nor expired.
OldestExcess == {s \in Live : Cardinality({o \in Live : o >= s}) >= limit}

\* enforceSessionLimits: singleSession revokes all in one statement; otherwise the
\* excess is selected, and revoked by id in a second one.
Enforce(r) ==
  /\ \/ /\ limit = 1
        /\ Go(r, "enforce", [request[r] EXCEPT !.at = "insert"])
        /\ Revoke(DOMAIN sessions)
     \/ /\ OldestExcess = {}
        /\ Go(r, "enforce", [request[r] EXCEPT !.at = "insert"])
        /\ UNCHANGED sessions
     \/ /\ OldestExcess # {}
        /\ Go(r, "enforce", [at |-> "revokeExcess", password |-> request[r].password,
                             excess |-> OldestExcess])
        /\ UNCHANGED sessions
  /\ UNCHANGED <<clock, limit, account, made, resets, changes, cuts, spared>>

RevokeExcess(r) ==
  /\ Go(r, "revokeExcess", [at |-> "insert", password |-> request[r].password])
  /\ Revoke(request[r].excess)
  /\ UNCHANGED <<clock, limit, account, made, resets, changes, cuts, spared>>

InsertSession(r) ==
  /\ made < MaxSessions
  /\ Go(r, "insert", NotSent)
  /\ made' = made + 1
  /\ sessions' = [s \in DOMAIN sessions \cup {made'} |->
       IF s # made' THEN sessions[s]
       ELSE [password |-> request[r].password,
             current |-> request[r].password = account.password,
             expiresAt |-> clock + SessionTtl]]
  /\ UNCHANGED <<clock, limit, account, resets, changes, cuts, spared>>

Login(r) == Verify(r) \/ Enforce(r) \/ RevokeExcess(r) \/ InsertSession(r)

-----------------------------------------------------------------------------
(* Sessions ended by a user or an administrator, in one statement *)

\* Logout, or POST /sessions/:id/revoke.
RevokeSession ==
  /\ \E s \in Live : Revoke({s})
  /\ UNCHANGED <<clock, limit, account, made, resets, request, changes, cuts, spared>>

\* POST /sessions/revoke-all: but not the session that asks, if it is of this account.
RevokeAllForUser ==
  /\ \E asking \in SUBSET Live :
       Cardinality(asking) <= 1 /\ Revoke(DOMAIN sessions \ asking)
  /\ UNCHANGED <<clock, limit, account, made, resets, request, changes, cuts, spared>>

-----------------------------------------------------------------------------
(* POST /auth/reset and createResetToken *)

\* A new token; its expiry is computed before the older ones are invalidated.
RequestReset(r) ==
  /\ \E t \in Tokens :
       /\ resets[t] = NoReset
       /\ \A o \in Mails : request[o] # NotSent => request[o].token # t
       /\ Go(r, "idle", [at |-> "invalidate", token |-> t, expiresAt |-> clock + ResetTtl])
  /\ UNCHANGED <<clock, limit, account, sessions, made, resets, changes, cuts, spared>>

\* invalidateResetTokensForUser.
Invalidated == [t \in Tokens |->
  IF resets[t] # NoReset THEN [resets[t] EXCEPT !.state = "used"] ELSE NoReset]

InvalidateOlder(r) ==
  /\ Go(r, "invalidate", [request[r] EXCEPT !.at = "insertToken"])
  /\ resets' = Invalidated
  /\ UNCHANGED <<clock, limit, account, sessions, made, changes, cuts, spared>>

InsertToken(r) ==
  /\ Go(r, "insertToken", [at |-> "deliver", token |-> request[r].token])
  /\ resets' = [resets EXCEPT
       ![request[r].token] = [state |-> "open", expiresAt |-> request[r].expiresAt]]
  /\ UNCHANGED <<clock, limit, account, sessions, made, changes, cuts, spared>>

\* The mail goes out, or fails and every open token of the user is invalidated.
Deliver(r) ==
  /\ Go(r, "deliver", NotSent)
  /\ resets' \in {resets, Invalidated}
  /\ UNCHANGED <<clock, limit, account, sessions, made, changes, cuts, spared>>

Mail(r) == RequestReset(r) \/ InvalidateOlder(r) \/ InsertToken(r) \/ Deliver(r)

-----------------------------------------------------------------------------
(* POST /auth/reset/confirm *)

Usable(t, now) == resets[t] # NoReset /\ resets[t].state = "open" /\ resets[t].expiresAt > now

\* consumeResetTokenWithStatus looks at the row to tell why it is refused ...
Look(r) ==
  /\ \E t \in Tokens :
       Usable(t, clock) /\ Go(r, "idle", [at |-> "consume", token |-> t, now |-> clock])
  /\ UNCHANGED <<clock, limit, account, sessions, made, resets, changes, cuts, spared>>

\* Mutant: the update trusts the select before it.
ConsumeUnguarded(r) ==
  /\ Go(r, "consume", [at |-> "readStatus", token |-> request[r].token])
  /\ resets' = [resets EXCEPT ![request[r].token].state = "used"]
  /\ UNCHANGED <<clock, limit, account, sessions, made, changes, cuts, spared>>

\* ... and then takes it with a conditional update.
Consume(r) ==
  /\ \/ /\ Go(r, "consume", [at |-> "readStatus", token |-> request[r].token])
        /\ Usable(request[r].token, request[r].now)
        /\ resets' = [resets EXCEPT ![request[r].token].state = "used"]
     \/ /\ Go(r, "consume", NotSent)
        /\ ~Usable(request[r].token, request[r].now)
        /\ UNCHANGED resets
  /\ UNCHANGED <<clock, limit, account, sessions, made, changes, cuts, spared>>

ReadStatus(r) ==
  /\ Go(r, "readStatus",
       [at |-> "setPassword", token |-> request[r].token, status |-> account.status])
  /\ UNCHANGED <<clock, limit, account, sessions, made, resets, changes, cuts, spared>>

\* updatePassword: activates an account that was pending when it was read.
SetPassword(r) ==
  /\ Go(r, "setPassword", [at |-> "revokeAll", token |-> request[r].token])
  /\ account' = [status |-> IF request[r].status = "pending" THEN "active" ELSE account.status,
                 password |-> account.password + 1]
  /\ changes' = [changes EXCEPT ![request[r].token] = @ + 1]
  /\ UNCHANGED <<clock, limit, sessions, made, resets, cuts, spared>>

\* Mutant: only the newest session is ended.
RevokeNewest(r) ==
  /\ Go(r, "revokeAll", NotSent)
  /\ Revoke({made})
  /\ UNCHANGED <<clock, limit, account, made, resets, changes, cuts, spared>>

RevokeAll(r) ==
  /\ Go(r, "revokeAll", NotSent)
  /\ Revoke(DOMAIN sessions)
  /\ UNCHANGED <<clock, limit, account, made, resets, changes, cuts, spared>>

Confirm(r) == Look(r) \/ Consume(r) \/ ReadStatus(r) \/ SetPassword(r) \/ RevokeAll(r)

-----------------------------------------------------------------------------
\* disableUser and enableUser, of an account that is no administrator.
SetStatus ==
  /\ \E status \in {"active", "inactive"} \ {account.status} :
       account' = [account EXCEPT !.status = status]
  /\ UNCHANGED <<clock, limit, sessions, made, resets, request, changes, cuts, spared>>

\* The database refuses the next statement of a request, or its process dies.
CutOff(r) ==
  /\ request[r] # NotSent /\ cuts < MaxCuts
  /\ request' = [request EXCEPT ![r] = NotSent]
  /\ cuts' = cuts + 1
  /\ spared' = (spared \/ request[r].at = "revokeAll")
  /\ UNCHANGED <<clock, limit, account, sessions, made, resets, changes>>

PassTime ==
  /\ clock < MaxClock /\ clock' = clock + 1
  /\ UNCHANGED <<limit, account, sessions, made, resets, request, changes, cuts, spared>>

SessionsNext ==
  \/ \E r \in Logins : Login(r)
  \/ \E r \in Mails : Mail(r)
  \/ \E r \in Confirms : Confirm(r)
  \/ \E r \in Requests : CutOff(r)
  \/ RevokeSession \/ RevokeAllForUser \/ SetStatus \/ PassTime

SessionsSpec == SessionsInit /\ [][SessionsNext]_sessionVars

-----------------------------------------------------------------------------
(* Properties *)

\* Logins that enforce the limit before any of them inserts exceed it by one for
\* each further login in flight, never by more (enforceSessionLimits and the insert
\* of createSession are separate statements).
SessionLimitSlack == Cardinality(Live) <= limit + Cardinality(Logins) - 1

\* A reset token sets the password once, however many confirmations of it race
\* (consumeResetTokenWithStatus selects the row before it updates it).
TokenSpentOnce == \A t \in Tokens : changes[t] <= 1

\* A changed password ends every session opened under an earlier one: such a
\* session is usable only while a confirmation is about to end it, when its login
\* straddled the change, or when a confirmation was cut off at that point.
PasswordChangeEndsSessions ==
  \A s \in Live :
    \/ sessions[s].password = account.password \/ ~sessions[s].current
    \/ spared \/ \E r \in Confirms : request[r].at = "revokeAll"
=============================================================================
