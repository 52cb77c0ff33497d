---------------------------- MODULE Accounts_proofs ----------------------------
(***************************************************************************)
(* Proofs about accounts.  First the resets and sessions of one account,   *)
(* for any number of logins, reset requests, confirmations and tokens, and *)
(* for any lifetime: a token sets the password once, a new password ends   *)
(* the sessions opened under the one before, and logins exceed the limit   *)
(* of sessions by as many as overlap.  Then the administrators, for any    *)
(* number of users, roles, requests and installations: while full access   *)
(* is only taken away when no other request runs, there is always somebody *)
(* who has it, and the first administrator is installed once.  No grant    *)
(* outlives its user or its role.                                          *)
(***************************************************************************)
EXTENDS Sessions, AdminAccess, Counting, TLAPS

(* Resets and sessions *)

\* A token that no mail brought yet, and one a confirmation took and has not used.
Mailing(r) == request[r].at \in {"invalidate", "insertToken"}
Taken(r) == request[r].at \in {"readStatus", "setPassword"}

MailInv(r) ==
  /\ request[r].at \in {"invalidate", "insertToken", "deliver"} => r \in Mails
  /\ Mailing(r) =>
       /\ resets[request[r].token] = NoReset
       /\ \A o \in Requests \ {r} : Mailing(o) => request[o].token # request[r].token

ConfirmInv(r) ==
  Taken(r) =>
    /\ resets[request[r].token].state = "used" /\ changes[request[r].token] = 0
    /\ \A o \in Requests \ {r} : Taken(o) => request[o].token # request[r].token

TokenInv ==
  /\ SessionsTypeOK
  /\ \A r \in Requests : MailInv(r) /\ ConfirmInv(r)
  /\ \A t \in Tokens : changes[t] <= 1 /\ (resets[t].state # "used" => changes[t] = 0)

-----------------------------------------------------------------------------
(* Types *)

LEMMA TypesInit == SessionsInit => SessionsTypeOK
<1> SUFFICES ASSUME SessionsInit PROVE SessionsTypeOK
  OBVIOUS
<1>1. DOMAIN sessions = {}
  BY DEF SessionsInit
<1>2. request \in [Requests -> Request]
  BY DEF SessionsInit, Request
<1>3. account \in [status : Statuses, password : Nat]
  BY DEF SessionsInit, Statuses
<1>4. DOMAIN sessions \subseteq 1..made /\ \A s \in DOMAIN sessions : sessions[s] \in Session
  BY <1>1
<1>5. resets \in [Tokens -> Reset \cup {NoReset}] /\ changes \in [Tokens -> Nat]
  BY DEF SessionsInit
<1>6. clock \in 0..MaxClock /\ made \in 0..MaxSessions /\ cuts \in 0..MaxCuts
  BY SessionBounds DEF SessionsInit
<1>7. limit \in Limits /\ spared \in BOOLEAN
  BY DEF SessionsInit
<1> QED
  BY <1>2, <1>3, <1>4, <1>5, <1>6, <1>7 DEF SessionsTypeOK

\* Requests go on to a request of the type, if they go anywhere.
LEMMA GoTyped ==
  ASSUME SessionsTypeOK, NEW r \in Requests, NEW at, NEW next \in Request, Go(r, at, next)
  PROVE  request' \in [Requests -> Request]
  BY DEF SessionsTypeOK, Go

LEMMA Parts ==
  ASSUME SessionsTypeOK, NEW r \in Requests
  PROVE  /\ request[r].at \in {"enforce", "insert", "revokeExcess"} => request[r].password \in Nat
         /\ request[r].at \in {"invalidate", "insertToken", "deliver", "consume", "readStatus",
                               "setPassword", "revokeAll"} => request[r].token \in Tokens
         /\ request[r].at \in {"invalidate", "insertToken"} => request[r].expiresAt \in Nat
         /\ request[r].at = "setPassword" => request[r].status \in Statuses
  BY DEF SessionsTypeOK, Request, NotSent

LEMMA LoginTyped ==
  ASSUME SessionsTypeOK, NEW r \in Logins, Login(r)
  PROVE  SessionsTypeOK'
<1> r \in Requests
  BY DEF Requests
<1>1. CASE Verify(r)
  <2>1. [at |-> "enforce", password |-> account.password] \in Request
    BY DEF SessionsTypeOK, Request
  <2> QED
    BY <1>1, <2>1, GoTyped DEF Verify, SessionsTypeOK
<1>2. CASE Enforce(r)
  <2>1. [request[r] EXCEPT !.at = "insert"] \in Request /\ OldestExcess \subseteq Nat
        /\ request[r].password \in Nat
    BY <1>2, Parts DEF SessionsTypeOK, Request, Enforce, Go, OldestExcess, Live, NotSent
  <2>2. [at |-> "revokeExcess", password |-> request[r].password,
         excess |-> OldestExcess] \in Request
    BY <2>1 DEF Request
  <2>3. request' \in [Requests -> Request]
    BY <1>2, <2>1, <2>2, GoTyped DEF Enforce
  <2> QED
    BY <1>2, <2>3 DEF Enforce, SessionsTypeOK, Revoke
<1>3. CASE RevokeExcess(r)
  <2>1. request[r].password \in Nat
    BY <1>3, Parts DEF RevokeExcess, Go
  <2>2. [at |-> "insert", password |-> request[r].password] \in Request
    BY <2>1 DEF Request
  <2> QED
    BY <1>3, <2>2, GoTyped DEF RevokeExcess, SessionsTypeOK, Revoke
<1>4. CASE InsertSession(r)
  <2>1. request[r].password \in Nat
    BY <1>4, Parts DEF InsertSession, Go
  <2>2. request' \in [Requests -> Request]
    BY <1>4, GoTyped DEF InsertSession, Request
  <2> QED
    BY <1>4, <2>1, <2>2, SessionTtls, SessionBounds
    DEF InsertSession, SessionsTypeOK, Session
<1> QED
  BY <1>1, <1>2, <1>3, <1>4 DEF Login

LEMMA MailTyped ==
  ASSUME SessionsTypeOK, NEW r \in Mails, Mail(r)
  PROVE  SessionsTypeOK'
<1> r \in Requests
  BY DEF Requests
<1>1. Invalidated \in [Tokens -> Reset \cup {NoReset}]
  BY DEF Invalidated, SessionsTypeOK, Reset, NoReset
<1>2. CASE RequestReset(r)
  <2>1. PICK t \in Tokens :
          Go(r, "idle", [at |-> "invalidate", token |-> t, expiresAt |-> clock + ResetTtl])
    BY <1>2 DEF RequestReset
  <2>2. [at |-> "invalidate", token |-> t, expiresAt |-> clock + ResetTtl] \in Request
    BY SessionTtls, SessionBounds DEF SessionsTypeOK, Request
  <2> QED
    BY <1>2, <2>1, <2>2, GoTyped DEF RequestReset, SessionsTypeOK
<1>3. CASE InvalidateOlder(r)
  <2>1. [request[r] EXCEPT !.at = "insertToken"] \in Request
    BY <1>3 DEF InvalidateOlder, Go, SessionsTypeOK, Request, NotSent
  <2> QED
    BY <1>1, <1>3, <2>1, GoTyped DEF InvalidateOlder, SessionsTypeOK
<1>4. CASE InsertToken(r)
  <2>1. request[r].token \in Tokens /\ request[r].expiresAt \in Nat
    BY <1>4, Parts DEF InsertToken, Go
  <2>2. [at |-> "deliver", token |-> request[r].token] \in Request
    BY <2>1 DEF Request
  <2> QED
    BY <1>4, <2>1, <2>2, GoTyped DEF InsertToken, SessionsTypeOK, Reset
<1>5. CASE Deliver(r)
  <2>1. NotSent \in Request
    BY DEF Request
  <2> QED
    BY <1>1, <1>5, <2>1, GoTyped DEF Deliver, SessionsTypeOK
<1> QED
  BY <1>2, <1>3, <1>4, <1>5 DEF Mail

LEMMA ConfirmTyped ==
  ASSUME SessionsTypeOK, NEW r \in Confirms, Confirm(r)
  PROVE  SessionsTypeOK'
<1> r \in Requests
  BY DEF Requests
<1>1. NotSent \in Request
  BY DEF Request
<1>2. CASE Look(r)
  <2>1. PICK t \in Tokens : Go(r, "idle", [at |-> "consume", token |-> t, now |-> clock])
    BY <1>2 DEF Look
  <2>2. [at |-> "consume", token |-> t, now |-> clock] \in Request
    BY SessionBounds DEF SessionsTypeOK, Request
  <2> QED
    BY <1>2, <2>1, <2>2, GoTyped DEF Look, SessionsTypeOK
<1>3. CASE Consume(r)
  <2>1. request[r].token \in Tokens
    BY <1>3, Parts DEF Consume, Go
  <2>2. [at |-> "readStatus", token |-> request[r].token] \in Request
    BY <2>1 DEF Request
  <2>3. request' \in [Requests -> Request]
    BY <1>1, <1>3, <2>2, GoTyped DEF Consume
  <2> QED
    BY <1>3, <2>1, <2>3 DEF Consume, SessionsTypeOK, Usable, Reset, NoReset
<1>4. CASE ReadStatus(r)
  <2>1. request[r].token \in Tokens
    BY <1>4, Parts DEF ReadStatus, Go
  <2>2. [at |-> "setPassword", token |-> request[r].token, status |-> account.status] \in Request
    BY <2>1 DEF Request, SessionsTypeOK
  <2> QED
    BY <1>4, <2>2, GoTyped DEF ReadStatus, SessionsTypeOK
<1>5. CASE SetPassword(r)
  <2>1. request[r].token \in Tokens
    BY <1>5, Parts DEF SetPassword, Go
  <2>2. [at |-> "revokeAll", token |-> request[r].token] \in Request
    BY <2>1 DEF Request
  <2> QED
    BY <1>5, <2>1, <2>2, GoTyped DEF SetPassword, SessionsTypeOK, Statuses
<1>6. CASE RevokeAll(r)
  BY <1>1, <1>6, GoTyped DEF RevokeAll, SessionsTypeOK, Revoke
<1> QED
  BY <1>2, <1>3, <1>4, <1>5, <1>6 DEF Confirm

LEMMA TypesStep ==
  ASSUME SessionsTypeOK, [SessionsNext]_sessionVars
  PROVE  SessionsTypeOK'
<1>1. ASSUME NEW r \in Requests, CutOff(r) PROVE SessionsTypeOK'
  <2>1. NotSent \in Request
    BY DEF Request
  <2> QED
    BY <1>1, <2>1, SessionBounds DEF CutOff, SessionsTypeOK
<1>2. CASE RevokeSession \/ RevokeAllForUser
  BY <1>2 DEF RevokeSession, RevokeAllForUser, Revoke, SessionsTypeOK
<1>3. CASE SetStatus \/ PassTime
  BY <1>3, SessionBounds DEF SetStatus, PassTime, SessionsTypeOK, Statuses
<1>4. CASE UNCHANGED sessionVars
  BY <1>4 DEF sessionVars, SessionsTypeOK
<1> QED
  BY <1>1, <1>2, <1>3, <1>4, LoginTyped, MailTyped, ConfirmTyped DEF SessionsNext

\* The rows of an account and the variables of its requests keep their types, whatever
\* requests, administrators and the clock do.
THEOREM SessionsTypeCorrect == SessionsSpec => []SessionsTypeOK
  BY TypesInit, TypesStep, PTL DEF SessionsSpec

-----------------------------------------------------------------------------
(* Tokens *)

LEMMA TokenInvInit == SessionsInit => TokenInv
  BY TypesInit DEF SessionsInit, TokenInv, MailInv, ConfirmInv, Mailing, Taken, NotSent, NoReset

\* What a step of r changes.
LEMMA GoOnly ==
  ASSUME SessionsTypeOK, NEW r \in Requests, NEW at, NEW next, Go(r, at, next)
  PROVE  /\ request[r].at = at /\ request'[r] = next
         /\ \A o \in Requests \ {r} : request'[o] = request[o]
  BY DEF SessionsTypeOK, Go

\* A step of r that touches no token, and after which r holds none.
LEMMA TokensLeftAlone ==
  ASSUME TokenInv, SessionsTypeOK', NEW r \in Requests, NEW next,
         \A o \in Requests : request'[o] = IF o = r THEN next ELSE request[o],
         next.at \notin {"invalidate", "insertToken", "deliver", "readStatus", "setPassword"},
         UNCHANGED <<resets, changes>>
  PROVE  TokenInv'
  BY DEF TokenInv, MailInv, ConfirmInv, Mailing, Taken

LEMMA LoginTokens ==
  ASSUME TokenInv, SessionsTypeOK', NEW r \in Logins, Login(r)
  PROVE  TokenInv'
<1> r \in Requests
  BY DEF Requests
<1>0. SessionsTypeOK
  BY DEF TokenInv
<1>1. /\ request'[r].at \in {"enforce", "insert", "revokeExcess", "idle"}
      /\ \A o \in Requests \ {r} : request'[o] = request[o]
      /\ UNCHANGED <<resets, changes>>
  <2>1. CASE Verify(r)
    BY <1>0, <2>1, GoOnly DEF Verify
  <2>2. CASE Enforce(r)
    <3> DEFINE x == [request[r] EXCEPT !.at = "insert"]
    <3>1. x.at = "insert"
      BY <1>0, <2>2 DEF Enforce, Go, SessionsTypeOK, Request, NotSent
    <3>2. /\ \/ Go(r, "enforce", x)
             \/ Go(r, "enforce", [at |-> "revokeExcess", password |-> request[r].password,
                                 excess |-> OldestExcess])
          /\ UNCHANGED <<resets, changes>>
      BY <2>2 DEF Enforce
    <3> HIDE DEF x
    <3> QED
      BY <1>0, <3>1, <3>2, GoOnly
  <2>3. CASE RevokeExcess(r)
    BY <1>0, <2>3, GoOnly DEF RevokeExcess
  <2>4. CASE InsertSession(r)
    BY <1>0, <2>4, GoOnly DEF InsertSession, NotSent
  <2> QED
    BY <2>1, <2>2, <2>3, <2>4 DEF Login
<1> QED
  BY <1>1, TokensLeftAlone

\* Invalidation leaves used tokens used and missing rows missing.
LEMMA Invalidates ==
  ASSUME SessionsTypeOK, resets' \in {resets, Invalidated}, NEW t \in Tokens
  PROVE  /\ resets[t] = NoReset => resets'[t] = NoReset
         /\ resets[t].state = "used" => resets'[t].state = "used"
  BY DEF SessionsTypeOK, Invalidated, Reset, NoReset

LEMMA MailTokens ==
  ASSUME TokenInv, SessionsTypeOK', NEW r \in Mails, Mail(r)
  PROVE  TokenInv'
<1> r \in Requests
  BY DEF Requests
<1>0. SessionsTypeOK
  BY DEF TokenInv
<1>1. CASE RequestReset(r)
  <2>1. PICK t \in Tokens :
          /\ resets[t] = NoReset
          /\ \A o \in Mails : request[o] # NotSent => request[o].token # t
          /\ Go(r, "idle", [at |-> "invalidate", token |-> t, expiresAt |-> clock + ResetTtl])
    BY <1>1 DEF RequestReset
  <2>2. /\ request'[r].at = "invalidate" /\ request'[r].token = t
        /\ \A o \in Requests \ {r} : request'[o] = request[o]
        /\ UNCHANGED <<resets, changes>>
    BY <1>0, <1>1, <2>1, GoOnly DEF RequestReset
  <2>3. \A o \in Requests : Mailing(o) => request[o].token # t
    BY <2>1 DEF TokenInv, MailInv, Mailing, NotSent
  <2> QED
    BY <2>1, <2>2, <2>3 DEF TokenInv, MailInv, ConfirmInv, Mailing, Taken
<1>2. CASE InvalidateOlder(r)
  <2>1. /\ request[r].at = "invalidate" /\ request'[r].at = "insertToken"
        /\ request'[r].token = request[r].token /\ request[r].token \in Tokens
        /\ \A o \in Requests \ {r} : request'[o] = request[o]
        /\ resets' \in {resets, Invalidated} /\ UNCHANGED changes
    <3> DEFINE x == [request[r] EXCEPT !.at = "insertToken"]
    <3>1. x.at = "insertToken" /\ x.token = request[r].token
      BY <1>0, <1>2 DEF InvalidateOlder, Go, SessionsTypeOK, Request, NotSent
    <3>2. Go(r, "invalidate", x) /\ resets' = Invalidated /\ UNCHANGED changes
      BY <1>2 DEF InvalidateOlder
    <3> HIDE DEF x
    <3> QED
      BY <1>0, <3>1, <3>2, GoOnly, Parts
  <2> QED
    BY <1>0, <2>1, Invalidates, Parts DEF TokenInv, MailInv, ConfirmInv, Mailing, Taken
<1>3. CASE InsertToken(r)
  <2>1. /\ request[r].at = "insertToken" /\ request[r].token \in Tokens
        /\ request'[r].at = "deliver"
        /\ \A o \in Requests \ {r} : request'[o] = request[o]
        /\ \A t \in Tokens \ {request[r].token} : resets'[t] = resets[t]
        /\ UNCHANGED changes
    BY <1>0, <1>3, GoOnly, Parts DEF InsertToken, SessionsTypeOK
  <2>2. resets[request[r].token] = NoReset /\ changes[request[r].token] = 0
    BY <2>1 DEF TokenInv, MailInv, Mailing, NoReset
  <2> QED
    BY <1>0, <2>1, <2>2, Parts DEF TokenInv, MailInv, ConfirmInv, Mailing, Taken, NoReset
<1>4. CASE Deliver(r)
  <2>1. /\ request'[r].at = "idle"
        /\ \A o \in Requests \ {r} : request'[o] = request[o]
        /\ resets' \in {resets, Invalidated} /\ UNCHANGED changes
    BY <1>0, <1>4, GoOnly DEF Deliver, NotSent
  <2> QED
    BY <1>0, <2>1, Invalidates, Parts DEF TokenInv, MailInv, ConfirmInv, Mailing, Taken
<1> QED
  BY <1>1, <1>2, <1>3, <1>4 DEF Mail

LEMMA ConfirmTokens ==
  ASSUME TokenInv, SessionsTypeOK', NEW r \in Confirms, Confirm(r)
  PROVE  TokenInv'
<1> r \in Requests
  BY DEF Requests
<1>0. SessionsTypeOK
  BY DEF TokenInv
<1>1. CASE Look(r)
  <2>1. /\ request'[r].at = "consume" /\ UNCHANGED <<resets, changes>>
        /\ \A o \in Requests \ {r} : request'[o] = request[o]
    BY <1>0, <1>1, GoOnly DEF Look
  <2> QED
    BY <2>1, TokensLeftAlone
<1>2. CASE Consume(r) /\ Usable(request[r].token, request[r].now)
  <2> DEFINE t == request[r].token
  <2>1. /\ request[r].at = "consume" /\ t \in Tokens
        /\ request'[r].at = "readStatus" /\ request'[r].token = t
        /\ \A o \in Requests \ {r} : request'[o] = request[o]
        /\ resets' = [resets EXCEPT ![t].state = "used"] /\ UNCHANGED changes
    BY <1>0, <1>2, GoOnly, Parts DEF Consume
  <2>2. resets[t] # NoReset /\ resets[t].state = "open" /\ changes[t] = 0
    BY <1>2, <2>1 DEF TokenInv, Usable
  <2>3. /\ resets'[t].state = "used" /\ resets'[t] # NoReset
        /\ \A o \in Tokens \ {t} : resets'[o] = resets[o]
    BY <1>0, <2>1, <2>2 DEF SessionsTypeOK, Reset, NoReset
  <2>4. \A o \in Requests : Taken(o) => request[o].token # t
    BY <2>2 DEF TokenInv, ConfirmInv
  <2> QED
    BY <1>0, <2>1, <2>2, <2>3, <2>4, Parts
    DEF TokenInv, MailInv, ConfirmInv, Mailing, Taken
<1>3. CASE Consume(r) /\ ~Usable(request[r].token, request[r].now)
  <2>1. /\ request'[r].at = "idle" /\ UNCHANGED <<resets, changes>>
        /\ \A o \in Requests \ {r} : request'[o] = request[o]
    BY <1>0, <1>3, GoOnly DEF Consume, NotSent
  <2> QED
    BY <2>1, TokensLeftAlone
<1>4. CASE ReadStatus(r)
  <2>1. /\ request[r].at = "readStatus" /\ request'[r].at = "setPassword"
        /\ request'[r].token = request[r].token
        /\ \A o \in Requests \ {r} : request'[o] = request[o]
        /\ UNCHANGED <<resets, changes>>
    BY <1>0, <1>4, GoOnly DEF ReadStatus
  <2> QED
    BY <2>1 DEF TokenInv, MailInv, ConfirmInv, Mailing, Taken
<1>5. CASE SetPassword(r)
  <2> DEFINE t == request[r].token
  <2>1. /\ request[r].at = "setPassword" /\ t \in Tokens
        /\ request'[r].at = "revokeAll"
        /\ \A o \in Requests \ {r} : request'[o] = request[o]
        /\ changes' = [changes EXCEPT ![t] = @ + 1] /\ UNCHANGED resets
    BY <1>0, <1>5, GoOnly, Parts DEF SetPassword
  <2>2. /\ resets[t].state = "used" /\ changes[t] = 0
        /\ \A o \in Requests \ {r} : Taken(o) => request[o].token # t
    BY <2>1 DEF TokenInv, ConfirmInv, Taken
  <2>3. changes'[t] = 1 /\ \A o \in Tokens \ {t} : changes'[o] = changes[o]
    BY <1>0, <2>1, <2>2 DEF SessionsTypeOK
  <2> QED
    BY <1>0, <2>1, <2>2, <2>3, Parts DEF TokenInv, MailInv, ConfirmInv, Mailing, Taken
<1>6. CASE RevokeAll(r)
  <2>1. /\ request'[r].at = "idle" /\ UNCHANGED <<resets, changes>>
        /\ \A o \in Requests \ {r} : request'[o] = request[o]
    BY <1>0, <1>6, GoOnly DEF RevokeAll, NotSent
  <2> QED
    BY <2>1, TokensLeftAlone
<1> QED
  BY <1>1, <1>2, <1>3, <1>4, <1>5, <1>6 DEF Confirm

LEMMA TokenInvStep ==
  ASSUME TokenInv, [SessionsNext]_sessionVars
  PROVE  TokenInv'
<1>1. SessionsTypeOK'
  BY TypesStep DEF TokenInv
<1>2. ASSUME NEW r \in Requests, CutOff(r) PROVE TokenInv'
  <2>1. /\ request'[r].at = "idle" /\ UNCHANGED <<resets, changes>>
        /\ \A o \in Requests \ {r} : request'[o] = request[o]
    BY <1>2 DEF CutOff, TokenInv, SessionsTypeOK, NotSent
  <2> QED
    BY <1>1, <2>1, TokensLeftAlone
<1>3. CASE RevokeSession \/ RevokeAllForUser \/ SetStatus \/ PassTime \/ UNCHANGED sessionVars
  <2>1. UNCHANGED <<resets, request, changes>>
    BY <1>3 DEF RevokeSession, RevokeAllForUser, SetStatus, PassTime, sessionVars
  <2> QED
    BY <1>1, <2>1 DEF TokenInv, MailInv, ConfirmInv, Mailing, Taken
<1> QED
  BY <1>1, <1>2, <1>3, LoginTokens, MailTokens, ConfirmTokens DEF SessionsNext

\* consumeResetTokenWithStatus lets one confirmation of a token through, and a token
\* that was taken never opens again, whatever mails and other confirmations do.
THEOREM TokensSpentOnce == SessionsSpec => []TokenSpentOnce
<1>1. TokenInv => TokenSpentOnce
  BY DEF TokenInv, TokenSpentOnce
<1> QED
  BY <1>1, TokenInvInit, TokenInvStep, PTL DEF SessionsSpec

-----------------------------------------------------------------------------
(* Sessions *)

\* The same of expired sessions too, so that the clock does not matter.
EndedInv ==
  \A s \in DOMAIN sessions :
    \/ sessions[s].password = account.password \/ ~sessions[s].current
    \/ spared \/ \E r \in Confirms : request[r].at = "revokeAll"

\* Sessions, the password and pending revocations are as they were, or fewer sessions.
LEMMA EndedKept ==
  ASSUME EndedInv, DOMAIN sessions' \subseteq DOMAIN sessions,
         \A s \in DOMAIN sessions' : sessions'[s] = sessions[s],
         account'.password = account.password, spared => spared',
         \A r \in Confirms : request[r].at = "revokeAll" => request'[r].at = "revokeAll"
  PROVE  EndedInv'
  BY DEF EndedInv

\* A step that does not start at revokeAll leaves the pending revocations.
LEMMA OthersStillRevoke ==
  ASSUME SessionsTypeOK, NEW r \in Requests, NEW at, NEW next, Go(r, at, next), at # "revokeAll"
  PROVE  \A o \in Confirms : request[o].at = "revokeAll" => request'[o].at = "revokeAll"
  BY GoOnly DEF Requests

LEMMA LoginEnds ==
  ASSUME SessionsTypeOK, EndedInv, NEW r \in Logins, Login(r)
  PROVE  EndedInv'
<1> r \in Requests
  BY DEF Requests
<1>1. CASE Verify(r)
  BY <1>1, OthersStillRevoke, EndedKept DEF Verify
<1>2. CASE Enforce(r)
  <2>1. \A o \in Confirms : request[o].at = "revokeAll" => request'[o].at = "revokeAll"
    BY <1>2, OthersStillRevoke DEF Enforce
  <2>2. /\ DOMAIN sessions' \subseteq DOMAIN sessions
        /\ \A s \in DOMAIN sessions' : sessions'[s] = sessions[s]
    BY <1>2 DEF Enforce, Revoke
  <2> QED
    BY <1>2, <2>1, <2>2, EndedKept DEF Enforce
<1>3. CASE RevokeExcess(r)
  <2>1. \A o \in Confirms : request[o].at = "revokeAll" => request'[o].at = "revokeAll"
    BY <1>3, OthersStillRevoke DEF RevokeExcess
  <2> QED
    BY <1>3, <2>1, EndedKept DEF RevokeExcess, Revoke
<1>4. CASE InsertSession(r)
  <2>1. \A o \in Confirms : request[o].at = "revokeAll" => request'[o].at = "revokeAll"
    BY <1>4, OthersStillRevoke DEF InsertSession
  <2>2. sessions'[made'].current
          <=> request[r].password = account.password
    BY <1>4 DEF InsertSession
  <2>3. sessions'[made'].password = request[r].password
    BY <1>4 DEF InsertSession
  <2>4. \A s \in DOMAIN sessions' \ {made'} : s \in DOMAIN sessions /\ sessions'[s] = sessions[s]
    BY <1>4 DEF InsertSession
  <2> QED
    BY <1>4, <2>1, <2>2, <2>3, <2>4 DEF InsertSession, EndedInv
<1> QED
  BY <1>1, <1>2, <1>3, <1>4 DEF Login

LEMMA MailEnds ==
  ASSUME SessionsTypeOK, EndedInv, NEW r \in Mails, Mail(r)
  PROVE  EndedInv'
<1> r \in Requests
  BY DEF Requests
<1>1. \A o \in Confirms : request[o].at = "revokeAll" => request'[o].at = "revokeAll"
  BY OthersStillRevoke DEF Mail, RequestReset, InvalidateOlder, InsertToken, Deliver
<1> QED
  BY <1>1, EndedKept DEF Mail, RequestReset, InvalidateOlder, InsertToken, Deliver

LEMMA ConfirmEnds ==
  ASSUME SessionsTypeOK, EndedInv, NEW r \in Confirms, Confirm(r)
  PROVE  EndedInv'
<1> r \in Requests
  BY DEF Requests
<1>1. CASE Look(r) \/ Consume(r) \/ ReadStatus(r)
  <2>1. \A o \in Confirms : request[o].at = "revokeAll" => request'[o].at = "revokeAll"
    BY <1>1, OthersStillRevoke DEF Look, Consume, ReadStatus
  <2> QED
    BY <1>1, <2>1, EndedKept DEF Look, Consume, ReadStatus
<1>2. CASE SetPassword(r)
  <2>1. request'[r].at = "revokeAll"
    BY <1>2, GoOnly DEF SetPassword
  <2> QED
    BY <2>1 DEF EndedInv
<1>3. CASE RevokeAll(r)
  BY <1>3 DEF RevokeAll, Revoke, EndedInv
<1> QED
  BY <1>1, <1>2, <1>3 DEF Confirm

LEMMA EndedStep ==
  ASSUME SessionsTypeOK, EndedInv, [SessionsNext]_sessionVars
  PROVE  EndedInv'
<1>1. ASSUME NEW r \in Requests, CutOff(r) PROVE EndedInv'
  <2>1. \A o \in Requests \ {r} : request'[o] = request[o]
    BY <1>1 DEF CutOff, SessionsTypeOK
  <2>2. request[r].at = "revokeAll" => spared'
    BY <1>1 DEF CutOff
  <2>3. spared => spared'
    BY <1>1 DEF CutOff
  <2> QED
    BY <1>1, <2>1, <2>2, <2>3 DEF CutOff, EndedInv, Requests
<1>2. CASE RevokeSession \/ RevokeAllForUser
  <2>1. PICK S : Revoke(S)
    BY <1>2 DEF RevokeSession, RevokeAllForUser
  <2>2. UNCHANGED <<account, request, spared>>
    BY <1>2 DEF RevokeSession, RevokeAllForUser
  <2> QED
    BY <2>1, <2>2, EndedKept DEF Revoke
<1>3. CASE SetStatus
  <2>1. account'.password = account.password
    BY <1>3 DEF SetStatus, SessionsTypeOK
  <2> QED
    BY <1>3, <2>1, EndedKept DEF SetStatus
<1>4. CASE PassTime \/ UNCHANGED sessionVars
  BY <1>4, EndedKept DEF PassTime, sessionVars
<1> QED
  BY <1>1, <1>2, <1>3, <1>4, LoginEnds, MailEnds, ConfirmEnds DEF SessionsNext

\* A confirmed password ends the sessions opened under the one before: what is left
\* was logged in across the change, or the confirmation did not get to its last step.
THEOREM OldSessionsEnd == SessionsSpec => []PasswordChangeEndsSessions
<1>1. ASSUME SessionsInit PROVE EndedInv
  <2>1. DOMAIN sessions = {}
    BY <1>1 DEF SessionsInit
  <2> QED
    BY <2>1 DEF EndedInv
<1>2. EndedInv => PasswordChangeEndsSessions
  BY DEF EndedInv, PasswordChangeEndsSessions, Live
<1> QED
  BY <1>1, <1>2, TypesInit, TypesStep, EndedStep, PTL DEF SessionsSpec

-----------------------------------------------------------------------------
(* The limit of sessions *)

\* A login that has counted the sessions and has not inserted its own, and what it will
\* leave of them.
Holding == {r \in Logins : request[r].at \in {"revokeExcess", "insert"}}
Held(x, live) == live \ (IF x.at = "revokeExcess" THEN x.excess ELSE {})
Weight == [r \in Logins |-> Cardinality(Held(request[r], Live))]

LimitInv ==
  /\ SessionLimitSlack
  /\ \E G \in [Logins -> SUBSET Logins] : Ledger(Logins, Holding, Weight, limit - 1, G)

LEMMA LiveFinite ==
  ASSUME SessionsTypeOK
  PROVE  /\ IsFiniteSet(Live) /\ Live \subseteq Nat /\ Cardinality(Live) \in Nat
         /\ limit \in Nat \ {0} /\ Cardinality(Logins) \in Nat
<1>1. made \in Nat /\ Live \subseteq 1..made
  BY SessionBounds DEF SessionsTypeOK, Live
<1>2. IsFiniteSet(1..made)
  BY <1>1, FS_Interval
<1>3. IsFiniteSet(Live)
  BY <1>1, <1>2, FS_Subset
<1>4. limit \in Nat \ {0}
  BY SessionLimits DEF SessionsTypeOK
<1> QED
  BY <1>1, <1>3, <1>4, FiniteLogins, FS_CardinalityType

LEMMA HeldBounds ==
  ASSUME NEW T, IsFiniteSet(T), NEW S \in SUBSET T
  PROVE  IsFiniteSet(S) /\ Cardinality(S) \in Nat /\ Cardinality(S) <= Cardinality(T)
  BY FS_Subset, FS_CardinalityType

\* What getExcessSessions leaves is one session short of the limit.
LEMMA OldestExcessLeaves ==
  ASSUME SessionsTypeOK
  PROVE  Cardinality(Live \ OldestExcess) <= limit - 1
<1> DEFINE N == Live \ OldestExcess
<1>1. \A s \in N : {o \in Live : o >= s} \in SUBSET Live
  OBVIOUS
<1>2. \A s \in N : /\ Cardinality({o \in Live : o >= s}) \in Nat
                   /\ Cardinality({o \in Live : o >= s}) < limit
  BY <1>1, LiveFinite, HeldBounds DEF OldestExcess
<1>3. CASE N = {}
  BY <1>3, LiveFinite, FS_EmptySet
<1>4. CASE N # {}
  <2>1. PICK d \in N : \A e \in N : d <= e
    BY <1>4, LiveFinite, LeastNat
  <2> DEFINE above == {o \in Live : o >= d}
  <2>2. N \subseteq above
    BY <2>1, LiveFinite
  <2>3. IsFiniteSet(above) /\ Cardinality(above) \in Nat /\ Cardinality(above) < limit
    BY <1>1, <1>2, <2>1, LiveFinite, HeldBounds
  <2> HIDE DEF N, above
  <2>4. Cardinality(N) <= Cardinality(above) /\ Cardinality(N) \in Nat
    BY <2>2, <2>3, HeldBounds
  <2>5. Cardinality(N) <= limit - 1
    BY <2>3, <2>4, LiveFinite
  <2> QED
    BY <2>5 DEF N
<1> QED
  BY <1>3, <1>4

\* Steps that end sessions or none, and after which nobody counts on more of them.
LEMMA LimitKept ==
  ASSUME SessionsTypeOK, SessionsTypeOK', LimitInv, UNCHANGED limit, Live' \subseteq Live,
         \A o \in Holding' :
           o \in Holding /\ Held(request'[o], Live') \subseteq Held(request[o], Live)
  PROVE  LimitInv'
<1>1. PICK G \in [Logins -> SUBSET Logins] : Ledger(Logins, Holding, Weight, limit - 1, G)
  BY DEF LimitInv
<1>2. SessionLimitSlack'
  BY LiveFinite, HeldBounds DEF LimitInv, SessionLimitSlack
<1> DEFINE w == Weight
           w2 == Weight'
           R == Holding'
<1>3. \A q \in R : w2[q] \in Nat /\ w2[q] <= w[q]
  <2> TAKE q \in R
  <2>1. q \in Logins /\ Held(request[q], Live) \in SUBSET Live
        /\ Held(request'[q], Live') \in SUBSET Held(request[q], Live)
    BY DEF Held, Holding
  <2>2. /\ w[q] = Cardinality(Held(request[q], Live))
        /\ w2[q] = Cardinality(Held(request'[q], Live'))
    BY <2>1 DEF Weight
  <2>3. IsFiniteSet(Held(request[q], Live))
    BY <2>1, LiveFinite, HeldBounds
  <2> QED
    BY <2>1, <2>2, <2>3, HeldBounds
<1>4. R \in SUBSET Holding /\ Holding \subseteq Logins /\ limit - 1 \in Nat
  BY LiveFinite DEF Holding
<1> HIDE DEF w2, R
<1>5. Ledger(Logins, R, w2, limit - 1, G)
  BY <1>1, <1>3, <1>4, FiniteLogins, LedgerShrinks
<1> QED
  BY <1>1, <1>2, <1>5 DEF LimitInv, R, w2

\* The same, of steps that are of no login that counts.
LEMMA LimitAside ==
  ASSUME SessionsTypeOK, SessionsTypeOK', LimitInv, UNCHANGED limit, Live' \subseteq Live,
         \A o \in Logins : \/ request'[o] = request[o]
                           \/ request'[o].at \notin {"revokeExcess", "insert"}
  PROVE  LimitInv'
<1>1. \A o \in Holding' :
        o \in Holding /\ Held(request'[o], Live') \subseteq Held(request[o], Live)
  BY DEF Holding, Held
<1> QED
  BY <1>1, LimitKept

LEMMA EnforceLimit ==
  ASSUME SessionsTypeOK, SessionsTypeOK', LimitInv, NEW r \in Logins, Enforce(r)
  PROVE  LimitInv'
<1> DEFINE x == request'[r]
<1>1. /\ request[r].at = "enforce" /\ x.at \in {"insert", "revokeExcess"}
      /\ x.at = "insert" => (limit = 1 /\ Live' = {}) \/ (OldestExcess = {} /\ Live' = Live)
      /\ x.at = "revokeExcess" => Live' = Live /\ x.excess = OldestExcess
      /\ \A o \in Logins \ {r} : request'[o] = request[o]
  <2>1. r \in Requests /\ Logins \subseteq Requests
    BY DEF Requests
  <2> DEFINE y == [request[r] EXCEPT !.at = "insert"]
  <2>2. request[r].at = "enforce" => y.at = "insert"
    BY <2>1 DEF SessionsTypeOK, Request, NotSent
  <2>3. \/ limit = 1 /\ Go(r, "enforce", y) /\ Revoke(DOMAIN sessions)
        \/ OldestExcess = {} /\ Go(r, "enforce", y) /\ UNCHANGED sessions
        \/ /\ Go(r, "enforce", [at |-> "revokeExcess", password |-> request[r].password,
                                excess |-> OldestExcess])
           /\ UNCHANGED sessions
    BY DEF Enforce
  <2>4. UNCHANGED clock
    BY DEF Enforce
  <2>5. Revoke(DOMAIN sessions) => Live' = {}
    BY DEF Revoke, Live
  <2>6. UNCHANGED sessions => Live' = Live
    BY <2>4 DEF Live
  <2> HIDE DEF y
  <2> QED
    BY <2>1, <2>2, <2>3, <2>5, <2>6, GoOnly
<1>2. UNCHANGED limit /\ Live' \subseteq Live /\ limit \in Nat \ {0} /\ limit - 1 \in Nat
  BY <1>1, LiveFinite DEF Enforce
<1>3. Held(x, Live') \in SUBSET Live' /\ Cardinality(Held(x, Live')) \in Nat
  BY <1>2, LiveFinite, HeldBounds DEF Held
<1>4. Cardinality(Held(x, Live')) <= limit - 1
  <2>1. CASE Live' = {}
    <3>1. Held(x, Live') = {}
      BY <2>1 DEF Held
    <3> QED
      BY <1>2, <3>1, FS_EmptySet
  <2>2. CASE Live' # {}
    <3>1. Held(x, Live') = Live \ OldestExcess
      BY <1>1, <2>2 DEF Held
    <3> QED
      BY <3>1, OldestExcessLeaves
  <2> QED
    BY <2>1, <2>2
<1>5. PICK G \in [Logins -> SUBSET Logins] : Ledger(Logins, Holding, Weight, limit - 1, G)
  BY DEF LimitInv
<1> DEFINE w == Weight
           w2 == Weight'
           R == Holding'
<1>6. w2[r] \in Nat /\ w2[r] <= limit - 1
  BY <1>3, <1>4 DEF Weight
<1>7. R \in SUBSET (Holding \cup {r}) /\ Holding \subseteq Logins
  BY <1>1 DEF Holding
<1>8. \A q \in R \ {r} : w2[q] \in Nat /\ w2[q] <= w[q]
  <2> TAKE q \in R \ {r}
  <2>1. /\ q \in Logins /\ request'[q] = request[q]
        /\ Held(request[q], Live) \in SUBSET Live
        /\ Held(request[q], Live') \in SUBSET Held(request[q], Live)
    BY <1>1, <1>2 DEF Held, Holding
  <2>2. /\ w[q] = Cardinality(Held(request[q], Live))
        /\ w2[q] = Cardinality(Held(request[q], Live'))
    BY <2>1 DEF Weight
  <2>3. IsFiniteSet(Held(request[q], Live))
    BY <2>1, LiveFinite, HeldBounds
  <2> QED
    BY <2>1, <2>2, <2>3, HeldBounds
<1>9. SessionLimitSlack'
  BY <1>2, LiveFinite, HeldBounds DEF LimitInv, SessionLimitSlack
<1> HIDE DEF w2, R
<1>10. \E H \in [Logins -> SUBSET Logins] : Ledger(Logins, R, w2, limit - 1, H)
  BY <1>2, <1>5, <1>6, <1>7, <1>8, FiniteLogins, LedgerEnters
<1> QED
  BY <1>2, <1>9, <1>10 DEF LimitInv, R, w2

LEMMA RevokeExcessLimit ==
  ASSUME SessionsTypeOK, SessionsTypeOK', LimitInv, NEW r \in Logins, RevokeExcess(r)
  PROVE  LimitInv'
<1>1. r \in Requests /\ Logins \subseteq Requests
  BY DEF Requests
<1>2. /\ request[r].at = "revokeExcess" /\ request'[r].at = "insert"
      /\ \A o \in Logins \ {r} : request'[o] = request[o]
  BY <1>1, GoOnly DEF RevokeExcess
<1>3. Live' = Live \ request[r].excess /\ UNCHANGED limit
  BY DEF RevokeExcess, Revoke, Live
<1>4. \A o \in Holding' :
        o \in Holding /\ Held(request'[o], Live') \subseteq Held(request[o], Live)
  BY <1>2, <1>3 DEF Holding, Held
<1> QED
  BY <1>3, <1>4, LimitKept

LEMMA InsertSessionLimit ==
  ASSUME SessionsTypeOK, SessionsTypeOK', LimitInv, NEW r \in Logins, InsertSession(r)
  PROVE  LimitInv'
<1>1. r \in Requests /\ Logins \subseteq Requests
  BY DEF Requests
<1>2. /\ request[r].at = "insert" /\ request'[r].at = "idle"
      /\ \A o \in Logins \ {r} : request'[o] = request[o]
  BY <1>1, GoOnly DEF InsertSession, NotSent
<1>3. Live' \subseteq Live \cup {made'} /\ UNCHANGED limit
  BY DEF InsertSession, Live
<1>4. r \in Holding /\ Holding' \in SUBSET (Holding \ {r}) /\ Holding \subseteq Logins
  BY <1>2 DEF Holding
<1>5. PICK G \in [Logins -> SUBSET Logins] : Ledger(Logins, Holding, Weight, limit - 1, G)
  BY DEF LimitInv
<1> DEFINE w == Weight
           w2 == Weight'
           R == Holding'
<1>6. w[r] = Cardinality(Live)
  BY <1>2 DEF Weight, Held
<1>7. \A q \in R : w2[q] \in Nat /\ w2[q] <= w[q] + 1 /\ w2[q] <= w[r] + 1
  <2> TAKE q \in R
  <2> DEFINE x == request[q]
  <2>1. q \in Logins /\ request'[q] = x
    BY <1>2, <1>4 DEF Holding
  <2>2. w[q] = Cardinality(Held(x, Live)) /\ w2[q] = Cardinality(Held(x, Live'))
    BY <2>1 DEF Weight
  <2>3. /\ Held(x, Live) \in SUBSET Live
        /\ Held(x, Live') \subseteq Held(x, Live) \cup {made'}
        /\ Held(x, Live') \subseteq Live \cup {made'}
    BY <1>3 DEF Held
  <2>4. IsFiniteSet(Held(x, Live)) /\ IsFiniteSet(Live)
    BY <2>3, LiveFinite, HeldBounds
  <2>5. /\ Cardinality(Held(x, Live')) \in Nat
        /\ Cardinality(Held(x, Live')) <= Cardinality(Held(x, Live)) + 1
    BY <2>3, <2>4, OneMore
  <2>6. Cardinality(Held(x, Live')) <= Cardinality(Live) + 1
    BY <2>3, <2>4, OneMore
  <2> QED
    BY <1>6, <2>2, <2>5, <2>6
<1>8. limit - 1 \in Nat /\ limit \in Nat
  BY LiveFinite
<1> HIDE DEF w2, R
<1>9. /\ \E H \in [Logins -> SUBSET Logins] : Ledger(Logins, R, w2, limit - 1, H)
      /\ w[r] <= limit - 1 + Cardinality(Logins) - 1
  BY <1>4, <1>5, <1>7, <1>8, FiniteLogins, LedgerCommits DEF R
<1>10. SessionLimitSlack'
  <2>1. Cardinality(Live') \in Nat /\ Cardinality(Live') <= Cardinality(Live) + 1
    BY <1>3, LiveFinite, OneMore
  <2>2. Cardinality(Live) \in Nat /\ Cardinality(Logins) \in Nat
    BY LiveFinite
  <2>3. Cardinality(Live') <= limit + Cardinality(Logins) - 1
    BY <1>6, <1>8, <1>9, <2>1, <2>2
  <2> QED
    BY <1>3, <2>3 DEF SessionLimitSlack
<1> QED
  BY <1>3, <1>9, <1>10 DEF LimitInv, R, w2

LEMMA LoginLimit ==
  ASSUME SessionsTypeOK, SessionsTypeOK', LimitInv, NEW r \in Logins, Login(r)
  PROVE  LimitInv'
<1>1. CASE Verify(r)
  <2>1. \A o \in Logins : request'[o] = request[o] \/ request'[o].at = "enforce"
    BY <1>1, GoOnly DEF Verify, Requests
  <2>2. UNCHANGED <<limit, sessions, clock>>
    BY <1>1 DEF Verify
  <2> QED
    BY <2>1, <2>2, LimitAside DEF Live
<1> QED
  BY <1>1, EnforceLimit, RevokeExcessLimit, InsertSessionLimit DEF Login

LEMMA MailLimit ==
  ASSUME SessionsTypeOK, SessionsTypeOK', LimitInv, NEW r \in Mails, Mail(r)
  PROVE  LimitInv'
<1>1. r \in Requests /\ Logins \subseteq Requests
  BY DEF Requests
<1>2. UNCHANGED <<limit, sessions, clock>>
  BY DEF Mail, RequestReset, InvalidateOlder, InsertToken, Deliver
<1> DEFINE y == [request[r] EXCEPT !.at = "insertToken"]
<1>3. request[r].at = "invalidate" => y.at = "insertToken"
  BY <1>1 DEF SessionsTypeOK, Request, NotSent
<1>4. \E at, next : /\ Go(r, at, next)
                    /\ next.at \in {"invalidate", "insertToken", "deliver", "idle"}
  <2>1. CASE InvalidateOlder(r)
    <3>1. Go(r, "invalidate", y) /\ request[r].at = "invalidate"
      BY <2>1 DEF InvalidateOlder, Go
    <3> HIDE DEF y
    <3> QED
      BY <1>3, <3>1
  <2>2. CASE RequestReset(r)
    BY <2>2 DEF RequestReset
  <2>3. CASE InsertToken(r)
    BY <2>3 DEF InsertToken
  <2>4. CASE Deliver(r)
    BY <2>4 DEF Deliver, NotSent
  <2> QED
    BY <2>1, <2>2, <2>3, <2>4 DEF Mail
<1>5. \A o \in Logins : \/ request'[o] = request[o]
                        \/ request'[o].at \notin {"revokeExcess", "insert"}
  BY <1>1, <1>4, GoOnly
<1> QED
  BY <1>2, <1>5, LimitAside DEF Live

LEMMA ConfirmLimit ==
  ASSUME SessionsTypeOK, SessionsTypeOK', LimitInv, NEW r \in Confirms, Confirm(r)
  PROVE  LimitInv'
<1>1. r \in Requests /\ Logins \subseteq Requests
  BY DEF Requests
<1>2. UNCHANGED <<limit, clock>> /\ Live' \subseteq Live
  BY DEF Confirm, Look, Consume, ReadStatus, SetPassword, RevokeAll, Revoke, Live
<1>3. \E at, next :
        /\ Go(r, at, next)
        /\ next.at \in {"consume", "readStatus", "setPassword", "revokeAll", "idle"}
  <2>1. CASE Look(r)
    BY <2>1 DEF Look
  <2>2. CASE Consume(r)
    BY <2>2 DEF Consume, NotSent
  <2>3. CASE ReadStatus(r)
    BY <2>3 DEF ReadStatus
  <2>4. CASE SetPassword(r)
    BY <2>4 DEF SetPassword
  <2>5. CASE RevokeAll(r)
    BY <2>5 DEF RevokeAll, NotSent
  <2> QED
    BY <2>1, <2>2, <2>3, <2>4, <2>5 DEF Confirm
<1>4. \A o \in Logins : \/ request'[o] = request[o]
                        \/ request'[o].at \notin {"revokeExcess", "insert"}
  BY <1>1, <1>3, GoOnly
<1> QED
  BY <1>2, <1>4, LimitAside

LEMMA LimitStep ==
  ASSUME SessionsTypeOK, LimitInv, [SessionsNext]_sessionVars
  PROVE  LimitInv'
<1>0. SessionsTypeOK'
  BY TypesStep
<1>1. ASSUME NEW r \in Requests, CutOff(r) PROVE LimitInv'
  <2>1. /\ \A o \in Logins \ {r} : request'[o] = request[o]
        /\ request'[r].at = "idle"
    BY <1>1 DEF CutOff, SessionsTypeOK, Requests, NotSent
  <2>2. UNCHANGED <<limit, sessions, clock>>
    BY <1>1 DEF CutOff
  <2>3. \A o \in Logins : \/ request'[o] = request[o]
                          \/ request'[o].at \notin {"revokeExcess", "insert"}
    BY <2>1
  <2> QED
    BY <1>0, <2>2, <2>3, LimitAside DEF Live
<1>2. CASE RevokeSession \/ RevokeAllForUser \/ SetStatus \/ PassTime \/ UNCHANGED sessionVars
  <2>1. UNCHANGED <<limit, request>>
    BY <1>2 DEF RevokeSession, RevokeAllForUser, SetStatus, PassTime, sessionVars
  <2>2. CASE RevokeSession \/ RevokeAllForUser
    <3>1. PICK S : Revoke(S)
      BY <2>2 DEF RevokeSession, RevokeAllForUser
    <3>2. UNCHANGED clock
      BY <2>2 DEF RevokeSession, RevokeAllForUser
    <3>3. Live' \subseteq Live
      BY <3>1, <3>2 DEF Revoke, Live
    <3> QED
      BY <1>0, <2>1, <3>3, LimitAside
  <2>3. CASE SetStatus \/ UNCHANGED sessionVars
    <3>1. UNCHANGED <<clock, sessions>>
      BY <2>3 DEF SetStatus, sessionVars
    <3> QED
      BY <1>0, <2>1, <3>1, LimitAside DEF Live
  <2>4. CASE PassTime
    <3>1. UNCHANGED sessions /\ clock' = clock + 1
      BY <2>4 DEF PassTime
    <3>2. \A s \in DOMAIN sessions : sessions[s].expiresAt \in Nat
      BY DEF SessionsTypeOK, Session
    <3>3. clock \in Nat
      BY SessionBounds DEF SessionsTypeOK
    <3>4. Live' \subseteq Live
      BY <3>1, <3>2, <3>3 DEF Live
    <3> QED
      BY <1>0, <2>1, <3>4, LimitAside
  <2> QED
    BY <1>2, <2>2, <2>3, <2>4
<1> QED
  BY <1>0, <1>1, <1>2, LoginLimit, MailLimit, ConfirmLimit DEF SessionsNext

LEMMA LimitInit == SessionsInit => LimitInv
<1> SUFFICES ASSUME SessionsInit PROVE LimitInv
  OBVIOUS
<1>1. Live = {} /\ Holding = {}
  BY DEF SessionsInit, Live, Holding, NotSent, Requests
<1>2. Cardinality(Live) = 0 /\ limit \in Nat \ {0} /\ Cardinality(Logins) \in Nat
  BY <1>1, TypesInit, LiveFinite, FS_EmptySet
<1>3. SessionLimitSlack
  BY <1>2 DEF SessionLimitSlack
<1> DEFINE G == [r \in Logins |-> {}]
<1>4. G \in [Logins -> SUBSET Logins] /\ Ledger(Logins, Holding, Weight, limit - 1, G)
  BY <1>1 DEF Ledger
<1> QED
  BY <1>3, <1>4 DEF LimitInv

\* Logins enforce the limit and insert in separate statements: together they exceed it by
\* one for each that is in flight beside the first, whatever else ends sessions meanwhile.
THEOREM LoginsExceedByOverlap == SessionsSpec => []SessionLimitSlack
<1>1. LimitInv => SessionLimitSlack
  BY DEF LimitInv
<1> QED
  BY <1>1, TypesInit, TypesStep, LimitInit, LimitStep, PTL DEF SessionsSpec

-----------------------------------------------------------------------------
(* Administrators *)

AdminTyped ==
  /\ user \in [Users -> {"unborn", "active", "inactive", "deleted"}]
  /\ role \in [Roles -> {"unborn", "plain", "full", "deleted"}]
  /\ grants \subseteq Users \X Roles /\ \A g \in grants : g[1] \in Present
  /\ call \in [Calls -> Call]
  /\ installer \in [Installers -> {"form", "wanting", "locked", "counted", "done"}]
  /\ installs \in Nat /\ overlapped \in BOOLEAN

\* Nothing is there before the installation, and one installer at a time looks.
InstallInv ==
  /\ installs = 0 => Present = {} /\ \A r \in Roles : role[r] = "unborn"
  /\ \A i \in Installers : installer[i] = "counted" => Present = {}
  /\ \A i, j \in Installers :
       installer[i] \in {"locked", "counted"} /\ installer[j] \in {"locked", "counted"} => i = j

SomebodyHasAccess == \E g \in grants : g[2] \in FullRoles

\* Somebody has it other than through what the request x is about.
Spares(x) == \E g \in grants : g[1] # x.target /\ g[2] # x.target /\ g[2] \in FullRoles

\* What the request x is about; and, if full access was taken from nobody while it ran,
\* what it read is still there and what it is about to write leaves somebody with access.
Justified(x) ==
  x # NoCall =>
    /\ installs > 0
    /\ x.op \in UserOps => x.target \in Users /\ user[x.target] # "unborn"
    /\ x.op \in RoleOps => x.target \in Roles /\ x.at \in {"ensureIds", "ensure", "write"}
    /\ x.at \in {"roleIds", "insert"} => x.op = "setRoles"
    /\ ~overlapped =>
         /\ x.first \subseteq FullRoles
         /\ x.at \in {"has", "ensure"} => x.ids \subseteq FullRoles
         /\ x.at = "has" => \E g \in grants : g[2] \in x.ids
         /\ x.at = "ensure" => x.target \notin x.ids
         /\ x.at \in {"write", "insert"} /\ x.op # "makeFull" =>
              Spares(x) \/ (x.op = "setRoles" /\ x.want \cap FullRoles # {})

AdminInv ==
  /\ AdminTyped /\ InstallInv
  /\ \A c \in Calls : Justified(call[c])
  /\ ~overlapped => installs <= 1
  /\ ~overlapped /\ installs > 0 => SomebodyHasAccess

LEMMA AdminInvInit == AdminInit => AdminInv
<1> SUFFICES ASSUME AdminInit PROVE AdminInv
  OBVIOUS
<1>1. AdminTyped
  BY DEF AdminInit, AdminTyped, Call
<1>2. InstallInv
  BY DEF AdminInit, InstallInv, Present
<1> QED
  BY <1>1, <1>2 DEF AdminInit, AdminInv, Justified

-----------------------------------------------------------------------------
(* Requests that read *)

LEMMA Reads ==
  ASSUME AdminInv, UNCHANGED <<user, role, grants, installer, installs, overlapped>>,
         NEW c \in Calls, NEW x \in Call, Justified(x), call' = [call EXCEPT ![c] = x]
  PROVE  AdminInv'
<1>1. AdminTyped'
  BY DEF AdminInv, AdminTyped, Present
<1>2. /\ call'[c] = x
      /\ \A o \in Calls \ {c} : call'[o] = call[o]
  BY DEF AdminInv, AdminTyped
<1>3. \A o \in Calls : Justified(call[o])'
  BY <1>2 DEF AdminInv, Justified, Spares, FullRoles
<1> QED
  BY <1>1, <1>3 DEF AdminInv, InstallInv, Present, SomebodyHasAccess, FullRoles

\* No request is justified by anything.
LEMMA Idle == NoCall \in Call /\ Justified(NoCall)
  BY DEF Call, Justified

\* The parts of a request that is under way.
LEMMA Running ==
  ASSUME AdminInv, NEW c \in Calls, call[c].at # "none"
  PROVE  /\ call[c] # NoCall
         /\ call[c].op \in UserOps \cup RoleOps
         /\ call[c].target \in Users \cup Roles
         /\ call[c].want \subseteq Roles /\ call[c].ids \subseteq Roles
         /\ call[c].first \subseteq Roles
         /\ call[c].at \in {"roleIds", "hasIds", "has", "ensureIds", "ensure", "write", "insert"}
         /\ Justified(call[c])
  BY DEF AdminInv, AdminTyped, Call, NoCall

\* Going on, with what the request read so far.
With(c, at, ids, first) == [call[c] EXCEPT !.at = at, !.ids = ids, !.first = first]

LEMMA Continues ==
  ASSUME AdminInv, NEW c \in Calls, call[c].at # "none",
         NEW at \in {"roleIds", "hasIds", "has", "ensureIds", "ensure", "write", "insert"},
         NEW ids \in SUBSET Roles, NEW first \in SUBSET Roles
  PROVE  LET x == With(c, at, ids, first)
         IN  /\ x \in Call /\ x # NoCall
             /\ x.at = at /\ x.ids = ids /\ x.first = first
             /\ x.op = call[c].op /\ x.target = call[c].target /\ x.want = call[c].want
<1> DEFINE x == With(c, at, ids, first)
<1>1. call[c] \in [op : UserOps \cup RoleOps,
   at : {"roleIds", "hasIds", "has", "ensureIds", "ensure", "write", "insert"},
   target : Users \cup Roles, want : SUBSET Roles, ids : SUBSET Roles, first : SUBSET Roles]
  BY DEF AdminInv, AdminTyped, Call, NoCall
<1>2. x \in Call
  BY <1>1 DEF Call, With
<1>3. /\ x.at = at /\ x.ids = ids /\ x.first = first
      /\ x.op = call[c].op /\ x.target = call[c].target /\ x.want = call[c].want
  BY <1>1 DEF With
<1> QED
  BY <1>2, <1>3 DEF NoCall

LEMMA Starts ==
  ASSUME AdminInv, NEW c \in Calls, NEW op \in UserOps \cup RoleOps,
         NEW at \in {"roleIds", "hasIds", "has", "ensureIds", "ensure", "write", "insert"},
         NEW target \in Users \cup Roles, NEW want \in SUBSET Roles,
         Begin(c, op, at, target, want),
         UNCHANGED <<user, role, grants, installer, installs, overlapped>>,
         op \in UserOps => target \in Present /\ at \in {"roleIds", "hasIds"},
         op \in RoleOps => target \in Roles /\ at \in {"ensureIds", "write"},
         at = "roleIds" => op = "setRoles",
         at = "write" => op = "makeFull" \/ role[target] # "full"
  PROVE  AdminInv'
<1> DEFINE x == [op |-> op, at |-> at, target |-> target, want |-> want,
                 ids |-> {}, first |-> {}]
<1>1. x \in Call
  BY DEF Call
<1>2. installs > 0 /\ installs \in Nat
  BY DEF Begin, AdminInv, AdminTyped, InstallInv
<1>3. ASSUME ~overlapped, at = "write", op # "makeFull" PROVE Spares(x)
  <2>1. PICK g \in grants : g[2] \in FullRoles
    BY <1>2, <1>3 DEF AdminInv, SomebodyHasAccess
  <2>2. op \in RoleOps
    BY <1>3
  <2>3. g[2] # target /\ g[1] # target
    BY <1>3, <2>1, <2>2, RolesAssumption DEF FullRoles, AdminInv, AdminTyped
  <2> QED
    BY <2>1, <2>3 DEF Spares
<1>4. Justified(x)
  BY <1>2, <1>3 DEF Justified, Present
<1>5. call' = [call EXCEPT ![c] = x]
  BY DEF Begin
<1> HIDE DEF x
<1> QED
  BY <1>1, <1>4, <1>5, Reads

LEMMA BeginSteps ==
  ASSUME AdminInv, NEW c \in Calls, BeginRoles(c) \/ BeginEnd(c) \/ BeginRole(c)
  PROVE  AdminInv'
<1>1. CASE BeginRoles(c)
  <2>1. PICK u \in Present, want \in SUBSET Born : Begin(c, "setRoles", "roleIds", u, want)
    BY <1>1 DEF BeginRoles
  <2>2. u \in Users \cup Roles /\ want \in SUBSET Roles
    BY DEF Present, Born
  <2> QED
    BY <1>1, <2>1, <2>2, Starts DEF BeginRoles, UserOps, RoleOps
<1>2. CASE BeginEnd(c)
  <2>1. PICK u \in Present, op \in {"disable", "delete"} : Begin(c, op, "hasIds", u, {})
    BY <1>2 DEF BeginEnd
  <2>2. u \in Users \cup Roles
    BY DEF Present
  <2> QED
    BY <1>2, <2>1, <2>2, Starts DEF BeginEnd, UserOps, RoleOps
<1>3. CASE BeginRole(c)
  <2>1. PICK r \in Born, op \in RoleOps :
          Begin(c, op, IF op # "makeFull" /\ role[r] = "full" THEN "ensureIds" ELSE "write",
                r, {})
    BY <1>3 DEF BeginRole
  <2>2. r \in Roles
    BY DEF Born
  <2>3. CASE op # "makeFull" /\ role[r] = "full"
    <3>1. Begin(c, op, "ensureIds", r, {})
      BY <2>1, <2>3
    <3> QED
      BY <1>3, <2>2, <3>1, Starts DEF BeginRole, UserOps, RoleOps
  <2>4. CASE ~(op # "makeFull" /\ role[r] = "full")
    <3>1. Begin(c, op, "write", r, {})
      BY <2>1, <2>4
    <3> QED
      BY <1>3, <2>2, <2>4, <3>1, Starts DEF BeginRole, UserOps, RoleOps
  <2> QED
    BY <2>3, <2>4
<1> QED
  BY <1>1, <1>2, <1>3

\* Somebody has access while a request runs.
LEMMA AccessWhileRunning ==
  ASSUME AdminInv, NEW c \in Calls, call[c].at # "none", ~overlapped
  PROVE  SomebodyHasAccess
  BY Running DEF AdminInv, Justified

LEMMA ReadRoleIdsStep ==
  ASSUME AdminInv, NEW c \in Calls, ReadRoleIds(c)
  PROVE  AdminInv'
<1> DEFINE at == IF FullRoles = {} THEN "write" ELSE "hasIds"
           ids == call[c].ids
           x == With(c, at, ids, FullRoles)
<1>0. call[c].at = "roleIds" /\ Justified(call[c]) /\ call[c] # NoCall /\ ids \subseteq Roles
  BY Running DEF ReadRoleIds
<1>1. /\ x \in Call /\ x # NoCall /\ x.at = at /\ x.first = FullRoles
      /\ x.op = call[c].op /\ x.target = call[c].target /\ x.want = call[c].want
  <2>1. FullRoles \in SUBSET Roles /\ ids \in SUBSET Roles /\ at \in {"write", "hasIds"}
    BY <1>0 DEF FullRoles
  <2> HIDE DEF at, ids
  <2> QED
    BY <1>0, <2>1, Continues
<1>2. ~overlapped => FullRoles # {}
  BY <1>0, AccessWhileRunning DEF SomebodyHasAccess
<1>3. call' = [call EXCEPT ![c] = x]
  BY <1>0 DEF ReadRoleIds, AdminInv, AdminTyped, Call, NoCall, With
<1>4. Justified(x)
  <2> HIDE DEF x
  <2> QED
    BY <1>0, <1>1, <1>2 DEF Justified, RoleOps
<1> HIDE DEF x
<1> QED
  BY <1>1, <1>3, <1>4, Reads DEF ReadRoleIds

LEMMA HasIdsStep ==
  ASSUME AdminInv, NEW c \in Calls, HasIds(c)
  PROVE  AdminInv'
<1> DEFINE first == call[c].first
           x == With(c, "has", FullRoles, first)
<1>0. call[c].at = "hasIds" /\ Justified(call[c]) /\ call[c] # NoCall /\ first \subseteq Roles
  BY Running DEF HasIds
<1>1. /\ x \in Call /\ x # NoCall /\ x.at = "has" /\ x.ids = FullRoles /\ x.first = first
      /\ x.op = call[c].op /\ x.target = call[c].target /\ x.want = call[c].want
  <2>1. FullRoles \in SUBSET Roles /\ first \in SUBSET Roles
    BY <1>0 DEF FullRoles
  <2> HIDE DEF first
  <2> QED
    BY <1>0, <2>1, Continues
<1>2. ~overlapped => \E g \in grants : g[2] \in FullRoles
  BY <1>0, AccessWhileRunning DEF SomebodyHasAccess
<1>3. call' = [call EXCEPT ![c] = x]
  BY <1>0 DEF HasIds, AdminInv, AdminTyped, Call, NoCall, With
<1>4. Justified(x)
  <2> HIDE DEF x
  <2> QED
    BY <1>0, <1>1, <1>2 DEF Justified, RoleOps
<1> HIDE DEF x
<1> QED
  BY <1>1, <1>3, <1>4, Reads DEF HasIds

\* A request that goes on without what it read.
LEMMA GoesTo ==
  ASSUME AdminInv, NEW c \in Calls, call[c].at # "none",
         NEW at \in {"roleIds", "hasIds", "has", "ensureIds", "ensure", "write", "insert"},
         Goto(c, at), UNCHANGED <<user, role, grants, installer, installs, overlapped>>,
         at \in {"ensureIds", "write", "insert"},
         at = "insert" => call[c].op = "setRoles",
         ~overlapped /\ at \in {"write", "insert"} /\ call[c].op # "makeFull" =>
           Spares(call[c]) \/ (call[c].op = "setRoles" /\ call[c].want \cap FullRoles # {})
  PROVE  AdminInv'
<1> DEFINE x == With(c, at, {}, {})
<1>1. /\ x \in Call /\ x # NoCall /\ x.at = at /\ x.ids = {} /\ x.first = {}
      /\ x.op = call[c].op /\ x.target = call[c].target /\ x.want = call[c].want
  BY Continues
<1>2. call' = [call EXCEPT ![c] = x]
  BY DEF Goto, AdminInv, AdminTyped, Call, NoCall, With
<1>3. Justified(call[c]) /\ call[c] # NoCall
  BY Running
<1> HIDE DEF x
<1>4. Justified(x)
  BY <1>1, <1>3, RolesAssumption DEF Justified, Spares, UserOps, RoleOps
<1> QED
  BY <1>1, <1>2, <1>4, Reads

LEMMA HasStep ==
  ASSUME AdminInv, NEW c \in Calls, Has(c)
  PROVE  AdminInv'
<1>0. /\ call[c].at = "has" /\ Justified(call[c]) /\ call[c] # NoCall
      /\ call[c].op \in UserOps \cup RoleOps
  BY Running DEF Has
<1>1. CASE Ends(c)
  BY <1>0, <1>1, GoesTo DEF Has
<1>2. CASE ~Ends(c)
  <2>1. ASSUME ~overlapped
        PROVE  Spares(call[c]) \/ (call[c].op = "setRoles" /\ call[c].want \cap FullRoles # {})
    <3>1. PICK g \in grants : g[2] \in call[c].ids /\ g[2] \in FullRoles
      BY <1>0, <2>1 DEF Justified
    <3>2. call[c].target \in Users /\ g \in Users \X Roles
      BY <1>0 DEF Justified, AdminInv, AdminTyped
    <3>3. CASE RolesOf(call[c].target) \cap call[c].ids = {}
      <4>1. g[1] # call[c].target
        BY <3>1, <3>2, <3>3 DEF RolesOf
      <4>2. g[2] # call[c].target
        BY <3>2, RolesAssumption
      <4> QED
        BY <3>1, <4>1, <4>2 DEF Spares
    <3>4. CASE call[c].op = "setRoles" /\ call[c].want \cap call[c].first # {}
      BY <1>0, <2>1, <3>4 DEF Justified
    <3> QED
      BY <1>2, <3>3, <3>4 DEF Ends
  <2> QED
    BY <1>0, <1>2, <2>1, GoesTo DEF Has
<1> QED
  BY <1>1, <1>2

LEMMA EnsureIdsStep ==
  ASSUME AdminInv, NEW c \in Calls, EnsureIds(c)
  PROVE  AdminInv'
<1> DEFINE first == call[c].first
           ids == FullRoles \ {call[c].target}
           x == With(c, "ensure", ids, first)
<1>0. /\ call[c].at = "ensureIds" /\ Justified(call[c]) /\ call[c] # NoCall
      /\ first \subseteq Roles
  BY Running DEF EnsureIds
<1>1. /\ x \in Call /\ x # NoCall /\ x.at = "ensure" /\ x.ids = ids /\ x.first = first
      /\ x.op = call[c].op /\ x.target = call[c].target /\ x.want = call[c].want
  <2>1. ids \in SUBSET Roles /\ first \in SUBSET Roles
    BY <1>0 DEF FullRoles
  <2> HIDE DEF ids, first
  <2> QED
    BY <1>0, <2>1, Continues
<1>2. call' = [call EXCEPT ![c] = x]
  BY <1>0 DEF EnsureIds, AdminInv, AdminTyped, Call, NoCall, With
<1>3. Justified(x)
  <2> HIDE DEF x
  <2> QED
    BY <1>0, <1>1 DEF Justified, RoleOps
<1> HIDE DEF x
<1> QED
  BY <1>1, <1>2, <1>3, Reads DEF EnsureIds

LEMMA EnsureStep ==
  ASSUME AdminInv, NEW c \in Calls, Ensure(c)
  PROVE  AdminInv'
<1>0. /\ call[c].at = "ensure" /\ Justified(call[c]) /\ call[c] # NoCall
  BY Running DEF Ensure
<1>1. CASE Others(c) = {}
  BY <1>1, Idle, Reads DEF Ensure, End
<1>2. CASE Others(c) # {}
  <2>1. ASSUME ~overlapped PROVE Spares(call[c])
    <3>1. PICK u \in Users : u # call[c].target /\ RolesOf(u) \cap call[c].ids # {}
      BY <1>2 DEF Others, AdminsBy
    <3>2. PICK r \in call[c].ids : <<u, r>> \in grants
      BY <3>1 DEF RolesOf
    <3>3. r \in FullRoles /\ r # call[c].target
      BY <1>0, <2>1, <3>2 DEF Justified
    <3> QED
      BY <3>1, <3>2, <3>3 DEF Spares
  <2> QED
    BY <1>0, <1>2, <2>1, GoesTo DEF Ensure
<1> QED
  BY <1>1, <1>2

LEMMA DeleteGrantsStep ==
  ASSUME AdminInv, NEW c \in Calls, DeleteGrants(c)
  PROVE  AdminInv'
<1>1. call[c].at = "write" /\ Justified(call[c]) /\ call[c] # NoCall
  BY Running DEF DeleteGrants
<1> QED
  BY <1>1, GoesTo DEF DeleteGrants, Justified

LEMMA RollbackStep ==
  ASSUME AdminInv, NEW c \in Calls, Rollback(c)
  PROVE  AdminInv'
  BY Idle, Reads DEF Rollback, End

-----------------------------------------------------------------------------
(* Steps that write *)

\* Full access is taken from nobody.
Grows ==
  /\ FullRoles \subseteq FullRoles'
  /\ \A g \in grants : g[2] \in FullRoles => g \in grants'

Reread(x, ids) == [x EXCEPT !.ids = ids]

\* The other requests run on; one that is about to insert may have read other grants.
RunOn(c) ==
  \A o \in Calls \ {c} :
    \/ call'[o] = call[o]
    \/ /\ call[o] # NoCall /\ call[o].at = "insert"
       /\ \E ids \in SUBSET Roles : call'[o] = Reread(call[o], ids)

\* No user is unborn again, no administrator uninstalled, no overlap forgotten.
Onward ==
  /\ \A u \in Users : user[u] # "unborn" => user'[u] # "unborn"
  /\ installs' \in Nat /\ installs' >= installs /\ (overlapped => overlapped')

LEMMA StillJustified ==
  ASSUME AdminInv, Onward, ~overlapped' => Grows, NEW x, Justified(x)
  PROVE  Justified(x)'
  BY DEF AdminInv, AdminTyped, Onward, Grows, Justified, Spares

\* Of somebody who is not alone nothing more than this is asked.
LEMMA JustifiedAnyIds ==
  ASSUME NEW x \in Call, x # NoCall, x.at = "insert", Justified(x), NEW ids \in SUBSET Roles
  PROVE  Reread(x, ids) \in Call /\ Justified(Reread(x, ids))
<1> DEFINE y == Reread(x, ids)
<1>1. x \in [op : UserOps \cup RoleOps,
   at : {"roleIds", "hasIds", "has", "ensureIds", "ensure", "write", "insert"},
   target : Users \cup Roles, want : SUBSET Roles, ids : SUBSET Roles, first : SUBSET Roles]
  BY DEF Call
<1>2. /\ y \in Call /\ y.at = "insert" /\ y.op = x.op /\ y.target = x.target
      /\ y.want = x.want /\ y.first = x.first
  BY <1>1 DEF Call, Reread
<1> HIDE DEF y
<1>3. Justified(y)
  BY <1>2 DEF Justified, Spares
<1> QED
  BY <1>2, <1>3 DEF y

LEMMA Writes ==
  ASSUME AdminInv, AdminTyped', InstallInv', Onward, NEW c \in Calls,
         call'[c] = NoCall, RunOn(c),
         ~overlapped' => Grows \/ ((\A o \in Calls : call'[o] = NoCall) /\ SomebodyHasAccess'),
         UNCHANGED installs
  PROVE  AdminInv'
<1>1. ASSUME NEW o \in Calls PROVE Justified(call[o])'
  <2>1. CASE call'[o] = NoCall
    BY <2>1 DEF Justified
  <2>2. CASE call'[o] # NoCall /\ call'[o] = call[o]
    <3>1. ~overlapped' => Grows
      BY <2>2
    <3> QED
      BY <2>2, <3>1, StillJustified DEF AdminInv, Justified, Spares
  <2>3. CASE call'[o] # NoCall /\ call'[o] # call[o]
    <3>1. ~overlapped' => Grows
      BY <2>3
    <3>2. PICK ids \in SUBSET Roles :
            call[o] # NoCall /\ call[o].at = "insert" /\ call'[o] = Reread(call[o], ids)
      BY <2>3 DEF RunOn
    <3>3. Justified(call'[o])
      BY <3>2, JustifiedAnyIds DEF AdminInv, AdminTyped
    <3> QED
      BY <3>1, <3>3, StillJustified DEF Justified, Spares
  <2> QED
    BY <2>1, <2>2, <2>3
<1>2. ~overlapped' /\ installs' > 0 => SomebodyHasAccess'
  BY DEF AdminInv, SomebodyHasAccess, Grows, Onward
<1> QED
  BY <1>1, <1>2 DEF AdminInv, Onward, AdminTyped

\* What Commit records: either nothing is taken away, or no other request runs.
LEMMA Commits ==
  ASSUME AdminInv, NEW c \in Calls, NEW newGrants, NEW newRole, Commit(c, newGrants, newRole)
  PROVE  /\ grants' = newGrants /\ role' = newRole
         /\ overlapped => overlapped'
         /\ overlapped' \in BOOLEAN
         /\ ~overlapped' => Grows \/ \A o \in Calls \ {c} : call[o] = NoCall
  BY DEF Commit, Grows, FullRoles, AdminInv, AdminTyped

\* The end of a request that took full access away while it ran alone.
LEMMA RunOnNone ==
  ASSUME NEW c \in Calls, call'[c] = NoCall, RunOn(c), \A o \in Calls \ {c} : call[o] = NoCall
  PROVE  \A o \in Calls : call'[o] = NoCall
  BY DEF RunOn

LEMMA Ended ==
  ASSUME AdminInv, NEW c \in Calls, End(c)
  PROVE  /\ call' \in [Calls -> Call] /\ call'[c] = NoCall /\ RunOn(c)
  BY Idle DEF End, AdminInv, AdminTyped, RunOn

LEMMA InsertGrantsStep ==
  ASSUME AdminInv, NEW c \in Calls, InsertGrants(c)
  PROVE  AdminInv'
<1> DEFINE u == call[c].target
           want == call[c].want
           added == want \cup (call[c].ids \cap RolesOf(u))
           newGrants == {g \in grants : g[1] # u} \cup ({u} \X added)
<1>0. /\ call[c].at = "insert" /\ Justified(call[c]) /\ call[c] # NoCall
      /\ call[c].op = "setRoles" /\ u \in Users /\ user[u] \notin {"unborn", "deleted"}
      /\ want \subseteq Roles /\ added \subseteq Roles
  BY Running DEF InsertGrants, Justified, UserOps
<1>1. /\ grants' = newGrants /\ role' = role /\ UNCHANGED <<user, installer, installs>>
      /\ overlapped => overlapped'
      /\ overlapped' \in BOOLEAN
      /\ ~overlapped' => Grows \/ \A o \in Calls \ {c} : call[o] = NoCall
  <2>1. Commit(c, newGrants, role) /\ UNCHANGED <<user, installer, installs>>
    BY DEF InsertGrants
  <2> HIDE DEF newGrants
  <2> QED
    BY <2>1, Commits
<1>2. /\ call' \in [Calls -> Call] /\ call'[c] = NoCall /\ RunOn(c)
  <2>1. \A o \in Calls : call'[o] =
           IF o = c THEN NoCall
           ELSE IF call[o] # NoCall /\ call[o].at = "insert" /\ call[o].target = u
                THEN Reread(call[o], call[o].ids \cup want)
           ELSE call[o]
    BY DEF InsertGrants, AdminInv, AdminTyped, Reread
  <2>2. ASSUME NEW o \in Calls PROVE call'[o] \in Call
    <3>1. CASE call[o] # NoCall /\ call[o].at = "insert"
      <4>1. call[o].ids \cup want \in SUBSET Roles /\ Justified(call[o]) /\ call[o] \in Call
        BY <1>0, <3>1, Running DEF AdminInv, AdminTyped
      <4>2. Reread(call[o], call[o].ids \cup want) \in Call
        BY <3>1, <4>1, JustifiedAnyIds
      <4> QED
        BY <2>1, <4>1, <4>2, Idle
    <3>2. CASE ~(call[o] # NoCall /\ call[o].at = "insert")
      BY <2>1, <3>2, Idle DEF AdminInv, AdminTyped
    <3> QED
      BY <3>1, <3>2
  <2>3. ASSUME NEW o \in Calls, call[o] # NoCall, call[o].at = "insert"
        PROVE  call[o].ids \cup want \in SUBSET Roles
    BY <1>0, <2>3, Running
  <2>4. RunOn(c)
    BY <2>1, <2>3 DEF RunOn
  <2>5. DOMAIN call' = Calls /\ call' = [o \in Calls |-> call'[o]]
    BY DEF InsertGrants, AdminInv, AdminTyped
  <2>6. call' \in [Calls -> Call]
    BY <2>2, <2>5
  <2>7. call'[c] = NoCall
    BY <2>1
  <2> QED
    BY <2>4, <2>6, <2>7
<1>3. AdminTyped'
  <2>1. newGrants \subseteq Users \X Roles /\ \A g \in newGrants : g[1] \in Present
    BY <1>0 DEF AdminInv, AdminTyped, Present
  <2>2. grants' \subseteq Users \X Roles /\ \A g \in grants' : g[1] \in Present'
    BY <1>1, <2>1 DEF Present
  <2>3. UNCHANGED <<user, role, installer, installs>>
    BY <1>1
  <2>4. call' \in [Calls -> Call]
    BY <1>2
  <2>5. overlapped' \in BOOLEAN
    BY <1>1
  <2> QED
    BY <2>2, <2>3, <2>4, <2>5 DEF AdminInv, AdminTyped
<1>4. InstallInv'
  BY <1>1 DEF AdminInv, InstallInv, Present
<1>5. Onward
  BY <1>1 DEF Onward, AdminInv, AdminTyped
<1>6. ASSUME ~overlapped' PROVE SomebodyHasAccess'
  <2>1. CASE Spares(call[c])
    <3>1. PICK g \in grants : g[1] # u /\ g[2] \in FullRoles
      BY <2>1 DEF Spares
    <3> QED
      BY <1>1, <3>1 DEF SomebodyHasAccess, FullRoles
  <2>2. CASE want \cap FullRoles # {}
    <3>1. PICK r \in want : r \in FullRoles
      BY <2>2
    <3>2. <<u, r>> \in newGrants
      BY <3>1
    <3> QED
      BY <1>1, <3>1, <3>2 DEF SomebodyHasAccess, FullRoles
  <2> QED
    BY <1>0, <1>1, <1>6, <2>1, <2>2 DEF Justified
<1>7. ~overlapped' => Grows \/ ((\A o \in Calls : call'[o] = NoCall) /\ SomebodyHasAccess')
  BY <1>1, <1>2, <1>6, RunOnNone
<1> QED
  BY <1>1, <1>2, <1>3, <1>4, <1>5, <1>7, Writes

LEMMA WriteStatusStep ==
  ASSUME AdminInv, NEW c \in Calls, WriteStatus(c)
  PROVE  AdminInv'
<1>1. /\ call' \in [Calls -> Call] /\ call'[c] = NoCall /\ RunOn(c)
      /\ UNCHANGED <<role, grants, installer, installs, overlapped>>
  BY Ended DEF WriteStatus
<1>2. /\ user' \in [Users -> {"unborn", "active", "inactive", "deleted"}]
      /\ \A u \in Users : user[u] # "unborn" => user'[u] # "unborn"
      /\ Present \subseteq Present'
      /\ Present = {} => Present' = {}
  <2>1. call[c].op = "disable" /\ call[c].at = "write"
    BY DEF WriteStatus
  <2>2. call[c].target \in Users /\ user[call[c].target] # "unborn" /\ installs > 0
    BY <2>1, Running DEF Justified, UserOps
  <2>3. user' = [user EXCEPT ![call[c].target] = IF @ = "deleted" THEN @ ELSE "inactive"]
    BY DEF WriteStatus
  <2> QED
    BY <2>2, <2>3 DEF AdminInv, AdminTyped, Present
<1>3. AdminTyped' /\ InstallInv'
  BY <1>1, <1>2 DEF AdminInv, AdminTyped, InstallInv
<1>4. Grows /\ Onward
  BY <1>1, <1>2 DEF Grows, Onward, FullRoles, AdminInv, AdminTyped
<1> QED
  BY <1>1, <1>3, <1>4, Writes

LEMMA WriteDeleteStep ==
  ASSUME AdminInv, NEW c \in Calls, WriteDelete(c)
  PROVE  AdminInv'
<1> DEFINE u == call[c].target
           newGrants == {g \in grants : g[1] # u}
<1>0. /\ call[c].at = "write" /\ Justified(call[c]) /\ call[c] # NoCall
      /\ call[c].op = "delete" /\ u \in Users /\ installs > 0
  BY Running DEF WriteDelete, Justified, UserOps
<1>1. /\ grants' = newGrants /\ role' = role /\ UNCHANGED <<installer, installs>>
      /\ overlapped => overlapped'
      /\ overlapped' \in BOOLEAN
      /\ ~overlapped' => Grows \/ \A o \in Calls \ {c} : call[o] = NoCall
  <2>1. Commit(c, newGrants, role) /\ UNCHANGED <<installer, installs>>
    BY DEF WriteDelete
  <2> HIDE DEF newGrants
  <2> QED
    BY <2>1, Commits
<1>2. call' \in [Calls -> Call] /\ call'[c] = NoCall /\ RunOn(c)
  BY Ended DEF WriteDelete
<1>3. /\ user' \in [Users -> {"unborn", "active", "inactive", "deleted"}]
      /\ \A o \in Users : user'[o] = IF o = u THEN "deleted" ELSE user[o]
  BY DEF WriteDelete, AdminInv, AdminTyped
<1>4. AdminTyped'
  <2>1. grants' \subseteq Users \X Roles /\ \A g \in grants' : g[1] \in Present'
    BY <1>1, <1>3 DEF AdminInv, AdminTyped, Present
  <2>2. UNCHANGED <<role, installer, installs>>
    BY <1>1
  <2>3. call' \in [Calls -> Call]
    BY <1>2
  <2>4. overlapped' \in BOOLEAN
    BY <1>1
  <2> QED
    BY <1>3, <2>1, <2>2, <2>3, <2>4 DEF AdminInv, AdminTyped
<1>5. InstallInv'
  <2>1. Present' \subseteq Present
    BY <1>3 DEF Present
  <2> QED
    BY <1>0, <1>1, <2>1 DEF AdminInv, InstallInv
<1>6. Onward
  BY <1>1, <1>3 DEF AdminInv, AdminTyped, Onward
<1>7. ASSUME ~overlapped' PROVE SomebodyHasAccess'
  <2>1. Spares(call[c])
    BY <1>0, <1>1, <1>7 DEF Justified
  <2> QED
    BY <1>1, <2>1 DEF Spares, SomebodyHasAccess, FullRoles
<1>8. ~overlapped' => Grows \/ ((\A o \in Calls : call'[o] = NoCall) /\ SomebodyHasAccess')
  BY <1>1, <1>2, <1>7, RunOnNone
<1> QED
  BY <1>1, <1>2, <1>4, <1>5, <1>6, <1>8, Writes

LEMMA WriteRoleStep ==
  ASSUME AdminInv, NEW c \in Calls, WriteRole(c)
  PROVE  AdminInv'
<1> DEFINE r == call[c].target
<1>0. /\ call[c].at = "write" /\ Justified(call[c]) /\ call[c] # NoCall
      /\ call[c].op \in RoleOps /\ r \in Roles /\ installs > 0
  BY Running DEF WriteRole, Justified
<1>1. PICK newGrants, newRole :
        /\ Commit(c, newGrants, newRole)
        /\ newGrants \in {grants, {g \in grants : g[2] # r}}
        /\ \E kind \in {"deleted", "full", "plain"} :
             /\ newRole = [role EXCEPT ![r] = kind]
             /\ kind = "full" <=> call[c].op = "makeFull"
        /\ call[c].op = "makeFull" => newGrants = grants
  BY DEF WriteRole, RoleOps
<1>2. /\ grants' = newGrants /\ role' = newRole
      /\ UNCHANGED <<user, installer, installs>>
      /\ overlapped => overlapped'
      /\ overlapped' \in BOOLEAN
      /\ ~overlapped' => Grows \/ \A o \in Calls \ {c} : call[o] = NoCall
  BY <1>1, Commits DEF WriteRole
<1>3. call' \in [Calls -> Call] /\ call'[c] = NoCall /\ RunOn(c)
  BY Ended DEF WriteRole
<1>4. /\ role' \in [Roles -> {"unborn", "plain", "full", "deleted"}]
      /\ \A o \in Roles \ {r} : role'[o] = role[o]
      /\ call[c].op = "makeFull" => role'[r] = "full"
  BY <1>0, <1>1, <1>2 DEF AdminInv, AdminTyped
<1>5. AdminTyped'
  <2>1. grants' \subseteq Users \X Roles /\ \A g \in grants' : g[1] \in Present'
    BY <1>1, <1>2 DEF AdminInv, AdminTyped, Present
  <2>2. UNCHANGED <<user, installer, installs>>
    BY <1>2
  <2>3. call' \in [Calls -> Call]
    BY <1>3
  <2>4. overlapped' \in BOOLEAN
    BY <1>2
  <2> QED
    BY <1>4, <2>1, <2>2, <2>3, <2>4 DEF AdminInv, AdminTyped
<1>6. InstallInv' /\ Onward
  BY <1>0, <1>2 DEF AdminInv, AdminTyped, InstallInv, Present, Onward
<1>7. CASE call[c].op = "makeFull"
  <2>1. Grows
    BY <1>1, <1>2, <1>4, <1>7 DEF Grows, FullRoles
  <2> QED
    BY <1>2, <1>3, <1>5, <1>6, <2>1, Writes
<1>8. CASE call[c].op # "makeFull"
  <2>1. ASSUME ~overlapped' PROVE SomebodyHasAccess'
    <3>1. Spares(call[c])
      BY <1>0, <1>2, <1>8, <2>1 DEF Justified, RoleOps
    <3>2. PICK g \in grants : g[2] # r /\ g[2] \in FullRoles
      BY <3>1 DEF Spares
    <3>3. g \in grants' /\ g[2] \in FullRoles'
      BY <1>1, <1>2, <1>4, <3>2 DEF FullRoles
    <3> QED
      BY <3>3 DEF SomebodyHasAccess
  <2>2. ~overlapped' => Grows \/ ((\A o \in Calls : call'[o] = NoCall) /\ SomebodyHasAccess')
    BY <1>2, <1>3, <2>1, RunOnNone
  <2> QED
    BY <1>2, <1>3, <1>5, <1>6, <2>2, Writes
<1> QED
  BY <1>7, <1>8

LEMMA Adds ==
  ASSUME AdminInv, AdminTyped', InstallInv', Onward, Grows, UNCHANGED call,
         ~overlapped' => installs' <= 1,
         ~overlapped' /\ installs' > installs => SomebodyHasAccess'
  PROVE  AdminInv'
<1>1. \A c \in Calls : Justified(call[c])'
  BY StillJustified DEF AdminInv, Justified, Spares
<1>2. ~overlapped' /\ installs' > 0 => SomebodyHasAccess'
  BY DEF AdminInv, SomebodyHasAccess, Grows, Onward, AdminTyped
<1> QED
  BY <1>1, <1>2 DEF AdminInv

LEMMA OtherWrites ==
  ASSUME AdminInv, SetUserStatus \/ CreateUser \/ CreateRole \/ UNCHANGED adminVars
  PROVE  AdminInv'
<1>1. CASE SetUserStatus
  <2>1. PICK u \in Present, status \in Settable : user' = [user EXCEPT ![u] = status]
    BY <1>1 DEF SetUserStatus
  <2>2. /\ user' \in [Users -> {"unborn", "active", "inactive", "deleted"}]
        /\ Present' = Present
        /\ \A o \in Users : user[o] # "unborn" => user'[o] # "unborn"
    BY <2>1, SettableStatuses DEF Present, AdminInv, AdminTyped
  <2>3. UNCHANGED <<role, grants, call, installer, installs, overlapped>>
    BY <1>1 DEF SetUserStatus
  <2>4. AdminTyped' /\ InstallInv' /\ Onward /\ Grows
    BY <2>2, <2>3 DEF AdminInv, AdminTyped, InstallInv, Onward, Grows, FullRoles
  <2> QED
    BY <2>3, <2>4, Adds DEF AdminInv, AdminTyped
<1>2. CASE CreateUser
  <2>1. PICK u \in Users, want \in SUBSET {r \in Born : ~Locked(r)} :
          /\ user[u] = "unborn" /\ user' = [user EXCEPT ![u] = "inactive"]
          /\ grants' = grants \cup ({u} \X want)
    BY <1>2 DEF CreateUser
  <2>2. /\ user' \in [Users -> {"unborn", "active", "inactive", "deleted"}]
        /\ Present' = Present \cup {u}
        /\ \A o \in Users : user[o] # "unborn" => user'[o] # "unborn"
    BY <2>1 DEF Present, AdminInv, AdminTyped
  <2>3. UNCHANGED <<role, call, installer, installs, overlapped>> /\ Present # {}
    BY <1>2 DEF CreateUser
  <2>4. grants' \subseteq Users \X Roles /\ \A g \in grants' : g[1] \in Present'
    BY <2>1, <2>2 DEF AdminInv, AdminTyped, Born
  <2>5. AdminTyped' /\ InstallInv' /\ Onward
    BY <2>2, <2>3, <2>4 DEF AdminInv, AdminTyped, InstallInv, Onward
  <2>6. Grows
    BY <2>1, <2>3 DEF Grows, FullRoles
  <2> QED
    BY <2>3, <2>5, <2>6, Adds DEF AdminInv, AdminTyped
<1>3. CASE CreateRole
  <2>1. PICK r \in Roles, kind \in {"plain", "full"} :
          role[r] = "unborn" /\ role' = [role EXCEPT ![r] = kind]
    BY <1>3 DEF CreateRole
  <2>2. UNCHANGED <<user, grants, call, installer, installs, overlapped>> /\ Present # {}
    BY <1>3 DEF CreateRole
  <2>3. AdminTyped' /\ InstallInv' /\ Onward
    BY <2>1, <2>2 DEF AdminInv, AdminTyped, InstallInv, Onward, Present
  <2>4. Grows
    BY <2>1, <2>2 DEF Grows, FullRoles, AdminInv, AdminTyped
  <2> QED
    BY <2>2, <2>3, <2>4, Adds DEF AdminInv, AdminTyped
<1>4. CASE UNCHANGED adminVars
  <2>1. AdminTyped' /\ InstallInv' /\ Onward /\ Grows
    BY <1>4 DEF adminVars, AdminInv, AdminTyped, InstallInv, Onward, Grows, Present, FullRoles
  <2> QED
    BY <1>4, <2>1, Adds DEF adminVars, AdminInv, AdminTyped
<1> QED
  BY <1>1, <1>2, <1>3, <1>4

LEMMA InstallerStep ==
  ASSUME AdminInv, NEW i \in Installers, PreCheck(i) \/ InstallLock(i) \/ Recount(i)
  PROVE  AdminInv'
<1>1. UNCHANGED <<user, role, grants, call, installs, overlapped>>
  BY DEF PreCheck, InstallLock, Recount
<1>2. /\ installer' \in [Installers -> {"form", "wanting", "locked", "counted", "done"}]
      /\ \A j \in Installers \ {i} : installer'[j] = installer[j]
      /\ installer'[i] = "counted" => Present = {}
      /\ installer'[i] \in {"locked", "counted"} =>
           \/ installer[i] \in {"locked", "counted"}
           \/ \A j \in Installers : installer[j] \notin {"locked", "counted"}
  BY DEF PreCheck, InstallLock, Recount, InstallGoto, AdminInv, AdminTyped
<1>3. AdminTyped' /\ Onward /\ Grows
  BY <1>1, <1>2 DEF AdminInv, AdminTyped, Onward, Grows, Present, FullRoles
<1>4. InstallInv'
  BY <1>1, <1>2 DEF AdminInv, InstallInv, Present
<1> QED
  BY <1>1, <1>3, <1>4, Adds DEF AdminInv, AdminTyped

LEMMA InstallStep ==
  ASSUME AdminInv, NEW i \in Installers, Install(i)
  PROVE  AdminInv'
<1>1. PICK u \in Users :
        /\ user[u] = "unborn"
        /\ user' = [user EXCEPT ![u] = "active"]
        /\ grants' = grants \cup {<<u, AdminRole>>}
  BY DEF Install
<1>2. /\ installer[i] = "counted" /\ installs' = installs + 1 /\ UNCHANGED <<call, overlapped>>
      /\ role' = [role EXCEPT ![AdminRole] = IF @ = "unborn" THEN "full" ELSE @]
      /\ installer' = [installer EXCEPT ![i] = "done"]
  BY DEF Install, InstallGoto
<1>3. /\ user' \in [Users -> {"unborn", "active", "inactive", "deleted"}]
      /\ Present' = Present \cup {u}
      /\ \A o \in Users : user[o] # "unborn" => user'[o] # "unborn"
  BY <1>1 DEF Present, AdminInv, AdminTyped
<1>4. grants' \subseteq Users \X Roles /\ \A g \in grants' : g[1] \in Present'
  BY <1>1, <1>3, RolesAssumption DEF AdminInv, AdminTyped
<1>5. /\ role' \in [Roles -> {"unborn", "plain", "full", "deleted"}]
      /\ role[AdminRole] = "unborn" => role'[AdminRole] = "full"
      /\ \A r \in Roles : role[r] = "full" => role'[r] = "full"
  BY <1>2, RolesAssumption DEF AdminInv, AdminTyped
<1>6. AdminTyped' /\ Onward
  BY <1>2, <1>3, <1>4, <1>5 DEF AdminInv, AdminTyped, Onward
<1>7. InstallInv'
  BY <1>2 DEF AdminInv, AdminTyped, InstallInv
<1>8. Grows
  BY <1>1, <1>5 DEF Grows, FullRoles
<1>9. ASSUME ~overlapped' PROVE installs' <= 1 /\ SomebodyHasAccess'
  <2>1. Present = {} /\ ~overlapped
    BY <1>2, <1>9 DEF AdminInv, InstallInv
  <2>2. installs = 0
    BY <2>1 DEF AdminInv, AdminTyped, SomebodyHasAccess
  <2>3. role'[AdminRole] = "full"
    BY <1>5, <2>2, RolesAssumption DEF AdminInv, InstallInv
  <2>4. <<u, AdminRole>> \in grants' /\ AdminRole \in FullRoles'
    BY <1>1, <2>3, RolesAssumption DEF FullRoles
  <2> QED
    BY <1>2, <2>2, <2>4 DEF SomebodyHasAccess
<1> QED
  BY <1>2, <1>6, <1>7, <1>8, <1>9, Adds

LEMMA AdminInvStep ==
  AdminInv /\ [AdminNext]_adminVars => AdminInv'
<1> SUFFICES ASSUME AdminInv, [AdminNext]_adminVars PROVE AdminInv'
  OBVIOUS
<1>1. ASSUME NEW c \in Calls,
             \/ BeginRoles(c) \/ BeginEnd(c) \/ BeginRole(c)
             \/ ReadRoleIds(c) \/ HasIds(c) \/ Has(c) \/ EnsureIds(c) \/ Ensure(c)
             \/ DeleteGrants(c) \/ InsertGrants(c) \/ Rollback(c)
             \/ WriteStatus(c) \/ WriteDelete(c) \/ WriteRole(c)
      PROVE  AdminInv'
  BY <1>1, BeginSteps, ReadRoleIdsStep, HasIdsStep, HasStep, EnsureIdsStep, EnsureStep,
     DeleteGrantsStep, InsertGrantsStep, RollbackStep, WriteStatusStep, WriteDeleteStep,
     WriteRoleStep
<1>2. ASSUME NEW i \in Installers, PreCheck(i) \/ InstallLock(i) \/ Recount(i) \/ Install(i)
      PROVE  AdminInv'
  BY <1>2, InstallerStep, InstallStep
<1>3. CASE SetUserStatus \/ CreateUser \/ CreateRole \/ UNCHANGED adminVars
  BY <1>3, OtherWrites
<1> QED
  BY <1>1, <1>2, <1>3 DEF AdminNext

LEMMA AdminInvHolds == AdminSpec => []AdminInv
  BY AdminInvInit, AdminInvStep, PTL DEF AdminSpec

-----------------------------------------------------------------------------
(* Theorems *)

\* The checks of usersService and rolesService, each several statements before its write,
\* keep an administrator unless full access was taken away while another request ran.
THEOREM AdministratorRemains == AdminSpec => []AdminRemains
<1>1. AdminInv => AdminRemains
  <2> SUFFICES ASSUME AdminInv, installs > 0, ~overlapped PROVE Admins # {}
    BY DEF AdminRemains
  <2>1. PICK g \in grants : g[2] \in FullRoles
    BY DEF AdminInv, SomebodyHasAccess
  <2>2. g[1] \in Users /\ g[2] \in RolesOf(g[1])
    BY <2>1 DEF AdminInv, AdminTyped, RolesOf
  <2> QED
    BY <2>1, <2>2 DEF Admins, AdminsBy
<1> QED
  BY <1>1, AdminInvHolds, PTL

\* createFirstAdmin installs one administrator, however many forms are submitted at once
\* and whatever administrators do afterwards, under the same condition.
THEOREM InstalledOnce == AdminSpec => []InstallOnce
<1>1. AdminInv => InstallOnce
  BY DEF AdminInv, InstallOnce
<1> QED
  BY <1>1, AdminInvHolds, PTL

-----------------------------------------------------------------------------
(* Grants *)

\* Every grant is of a role that is there.
GrantsStand == \A g \in grants : g[2] \in Born

Submitted == {i \in Installers : installer[i] # "done"}

\* Each form installs one administrator at most.
FormsSpent == installs + Cardinality(Submitted) <= Cardinality(Installers)

LEMMA GrantsInit == AdminInit => GrantsStand /\ FormsSpent
<1> SUFFICES ASSUME AdminInit PROVE GrantsStand /\ FormsSpent
  OBVIOUS
<1>1. Submitted = Installers /\ grants = {} /\ installs = 0
  BY DEF AdminInit, Submitted
<1>2. Cardinality(Installers) \in Nat
  BY FormsFinite, FS_CardinalityType
<1> QED BY <1>1, <1>2 DEF GrantsStand, FormsSpent

\* A role that a request writes is deleted with its grants, or is there afterwards.
LEMMA GrantsStandStep ==
  AdminInv /\ GrantsStand /\ [AdminNext]_adminVars => GrantsStand'
<1> SUFFICES ASSUME AdminInv, GrantsStand, [AdminNext]_adminVars PROVE GrantsStand'
  OBVIOUS
<1>1. ASSUME NEW c \in Calls, InsertGrants(c) PROVE GrantsStand'
  <2> DEFINE u == call[c].target
             added == call[c].want \cup (call[c].ids \cap RolesOf(u))
  <2>1. /\ grants' = {g \in grants : g[1] # u} \cup ({u} \X added) /\ role' = role
        /\ call[c].want \subseteq Born
    BY <1>1 DEF InsertGrants, Commit
  <2>2. RolesOf(u) \subseteq Born
    BY DEF RolesOf, GrantsStand
  <2>3. added \subseteq Born /\ Born' = Born
    BY <2>1, <2>2 DEF Born
  <2> HIDE DEF added
  <2> QED BY <2>1, <2>3 DEF GrantsStand
<1>2. ASSUME NEW c \in Calls, WriteDelete(c) PROVE GrantsStand'
  BY <1>2 DEF WriteDelete, Commit, GrantsStand, Born
<1>3. ASSUME NEW c \in Calls, WriteRole(c) PROVE GrantsStand'
  <2> DEFINE r == call[c].target
  <2>1. CASE grants' = {g \in grants : g[2] # r} /\ role' = [role EXCEPT ![r] = "deleted"]
    BY <2>1 DEF GrantsStand, Born, AdminInv, AdminTyped
  <2>2. CASE grants' = grants /\ role' = [role EXCEPT ![r] = IF call[c].op = "makeFull"
                                                            THEN "full" ELSE "plain"]
    BY <2>2 DEF GrantsStand, Born, AdminInv, AdminTyped
  <2> QED BY <1>3, <2>1, <2>2 DEF WriteRole, Commit
<1>4. CASE CreateUser
  BY <1>4 DEF CreateUser, GrantsStand, Born
<1>5. CASE CreateRole
  BY <1>5 DEF CreateRole, GrantsStand, Born, AdminInv, AdminTyped
<1>6. ASSUME NEW i \in Installers, Install(i) PROVE GrantsStand'
  <2>1. /\ Born \subseteq Born' /\ AdminRole \in Born'
    BY <1>6, RolesAssumption DEF Install, Born, AdminInv, AdminTyped
  <2> QED BY <1>6, <2>1 DEF Install, GrantsStand
<1>7. ASSUME UNCHANGED <<grants, role>> PROVE GrantsStand'
  BY <1>7 DEF GrantsStand, Born
<1>8. ASSUME NEW c \in Calls, ~(InsertGrants(c) \/ WriteDelete(c) \/ WriteRole(c)),
             \/ BeginRoles(c) \/ BeginEnd(c) \/ BeginRole(c)
             \/ ReadRoleIds(c) \/ HasIds(c) \/ Has(c) \/ EnsureIds(c) \/ Ensure(c)
             \/ DeleteGrants(c) \/ Rollback(c) \/ WriteStatus(c)
      PROVE  UNCHANGED <<grants, role>>
  BY <1>8 DEF BeginRoles, BeginEnd, BeginRole, ReadRoleIds, HasIds, Has, EnsureIds, Ensure,
              DeleteGrants, Rollback, WriteStatus
<1>9. ASSUME NEW i \in Installers, PreCheck(i) \/ InstallLock(i) \/ Recount(i)
      PROVE  UNCHANGED <<grants, role>>
  BY <1>9 DEF PreCheck, InstallLock, Recount
<1>10. SetUserStatus \/ UNCHANGED adminVars => UNCHANGED <<grants, role>>
  BY DEF SetUserStatus, adminVars
<1> QED
  BY <1>1, <1>2, <1>3, <1>4, <1>5, <1>6, <1>7, <1>8, <1>9, <1>10 DEF AdminNext

LEMMA FormsSpentStep ==
  AdminInv /\ FormsSpent /\ [AdminNext]_adminVars => FormsSpent'
<1> SUFFICES ASSUME AdminInv, FormsSpent, [AdminNext]_adminVars PROVE FormsSpent'
  OBVIOUS
<1>1. IsFiniteSet(Submitted) /\ Cardinality(Submitted) \in Nat /\ Cardinality(Installers) \in Nat
  BY FormsFinite, FS_Subset, FS_CardinalityType DEF Submitted
<1>2. installs \in Nat
  BY DEF AdminInv, AdminTyped
<1>3. ASSUME UNCHANGED installs, Submitted' \subseteq Submitted PROVE FormsSpent'
  <2>1. Cardinality(Submitted') <= Cardinality(Submitted) /\ Cardinality(Submitted') \in Nat
    BY <1>1, <1>3, FS_Subset, FS_CardinalityType
  <2> QED BY <1>1, <1>2, <1>3, <2>1 DEF FormsSpent
<1>4. ASSUME NEW i \in Installers, Install(i) PROVE FormsSpent'
  <2>1. installs' = installs + 1 /\ i \in Submitted /\ Submitted' = Submitted \ {i}
    BY <1>4 DEF Install, InstallGoto, Submitted, AdminInv, AdminTyped
  <2>2. Cardinality(Submitted') = Cardinality(Submitted) - 1
    BY <1>1, <2>1, FS_RemoveElement
  <2> QED BY <1>1, <1>2, <2>1, <2>2 DEF FormsSpent
<1>5. ASSUME NEW i \in Installers, PreCheck(i) \/ InstallLock(i) \/ Recount(i)
      PROVE  FormsSpent'
  <2>1. installer[i] # "done" /\ \A o \in Installers \ {i} : installer'[o] = installer[o]
    BY <1>5 DEF PreCheck, InstallLock, Recount, InstallGoto, AdminInv, AdminTyped
  <2>2. Submitted' \subseteq Submitted /\ UNCHANGED installs
    BY <1>5, <2>1 DEF Submitted, PreCheck, InstallLock, Recount
  <2> QED BY <1>3, <2>2
<1>6. ASSUME NEW c \in Calls,
             \/ BeginRoles(c) \/ BeginEnd(c) \/ BeginRole(c)
             \/ ReadRoleIds(c) \/ HasIds(c) \/ Has(c) \/ EnsureIds(c) \/ Ensure(c)
             \/ DeleteGrants(c) \/ InsertGrants(c) \/ Rollback(c)
             \/ WriteStatus(c) \/ WriteDelete(c) \/ WriteRole(c)
      PROVE  UNCHANGED <<installer, installs>>
  BY <1>6 DEF BeginRoles, BeginEnd, BeginRole, ReadRoleIds, HasIds, Has, EnsureIds, Ensure,
              DeleteGrants, InsertGrants, Rollback, WriteStatus, WriteDelete, WriteRole
<1>7. SetUserStatus \/ CreateUser \/ CreateRole \/ UNCHANGED adminVars
        => UNCHANGED <<installer, installs>>
  BY DEF SetUserStatus, CreateUser, CreateRole, adminVars
<1>8. UNCHANGED <<installer, installs>> => FormsSpent'
  BY <1>3 DEF Submitted
<1> QED BY <1>4, <1>5, <1>6, <1>7, <1>8 DEF AdminNext

\* Users, roles and requests have their types: no grant outlives its user or its role,
\* whatever is deleted while roles are set, and no form installs two administrators.
THEOREM AdminTypeCorrect == AdminSpec => []AdminTypeOK
<1>1. AdminInv /\ GrantsStand /\ FormsSpent => AdminTypeOK
  <2> SUFFICES ASSUME AdminInv, GrantsStand, FormsSpent PROVE AdminTypeOK
    OBVIOUS
  <2>1. grants \subseteq Present \X Born
    BY DEF AdminInv, AdminTyped, GrantsStand
  <2>2. installs \in 0..Cardinality(Installers)
    <3>1. Cardinality(Submitted) \in Nat /\ Cardinality(Installers) \in Nat
      BY FormsFinite, FS_Subset, FS_CardinalityType DEF Submitted
    <3> QED BY <3>1 DEF FormsSpent, AdminInv, AdminTyped
  <2> QED BY <2>1, <2>2 DEF AdminTypeOK, AdminInv, AdminTyped, Present, Born
<1> QED
  BY <1>1, AdminInvHolds, GrantsInit, GrantsStandStep, FormsSpentStep, PTL DEF AdminSpec
=============================================================================
