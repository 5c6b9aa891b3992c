----------------------------- MODULE AdminSession -----------------------------
(***************************************************************************)
(* Signing in to the dashboard (api.go): requests of setup, login, logout  *)
(* and of the other routes run concurrently, share the limiter of attempts *)
(* and the table of sessions under a mutex of their own, and read or       *)
(* change the password under the mutex of Store. Hashing a password takes  *)
(* long, so much may happen between the parts of one request.              *)
(*                                                                         *)
(* The password is the DurableCell that Store shows it to be: change() is  *)
(* one step here, and Crash may cut it after the write.                    *)
(***************************************************************************)
EXTENDS Integers, Sequences, FiniteSets

CONSTANTS
  Request,      \* bound: requests at a time
  Token,        \* what randomToken may return
  NoToken,      \* the request has no cookie in hand
  Admin,        \* administrators, by the password they type
  NoAdmin,      \* no password is set or was typed
  MaxAttempts,  \* 10 in the code
  Minute,
  MaxSessions,  \* 128 in the code
  TTL,          \* 12 hours
  NoSession,
  MaxTries,     \* bound: attempts of a run
  MaxTime       \* bound: the clock of a run

ASSUME SessionAssumption ==
  /\ NoToken \notin Token /\ NoAdmin \notin Admin
  /\ MaxAttempts \in Nat \ {0} /\ Minute \in Nat
  /\ MaxSessions \in Nat \ {0} /\ TTL \in Nat
  /\ NoSession \notin Int
  /\ MaxTries \in Nat /\ MaxTime \in Nat

VARIABLES
  now,
  up,            \* the process runs
  password,      \* s.settings.PasswordHash
  passwordFile,  \* the same in settings.json
  sessions,      \* a.sessions: sessions[t] is t's expiry, or NoSession
  attempts,      \* a.attempts
  window,        \* a.window
  pc,            \* pc[r]: what the request r does next
  typed,         \* typed[r]: the password it carries
  cookie,        \* cookie[r]: the token it was authenticated with
  openedBy,      \* history: the password t was opened with
  promised,      \* history: the expiry t's cookie names, until its logout
  tried          \* history: the attempts let through, over all processes

requestVars == <<pc, typed, cookie>>
limiterVars == <<attempts, window, tried>>
vars == <<now, up, password, passwordFile, sessions, limiterVars, requestVars,
          openedBy, promised>>

PC == {"idle", "setup", "login", "open", "authed"}

LongAgo == -Minute - 1   \* the zero time.Time

(* What history keeps of an attempt: its time and its process, counting only *)
(* the processes that let attempts through.                                  *)
Lives == IF tried = << >> THEN 0 ELSE tried[Len(tried)].life
Attempt == [at |-> now, life |-> IF attempts = 0 THEN Lives + 1 ELSE Lives]

Done(r) ==
  /\ pc' = [pc EXCEPT ![r] = "idle"]
  /\ typed' = [typed EXCEPT ![r] = NoAdmin]
  /\ cookie' = [cookie EXCEPT ![r] = NoToken]

Goes(r, where) == pc' = [pc EXCEPT ![r] = where] /\ UNCHANGED <<typed, cookie>>

-----------------------------------------------------------------------------
Init ==
  /\ now = 0 /\ up = FALSE
  /\ password = NoAdmin /\ passwordFile = NoAdmin
  /\ sessions = [t \in Token |-> NoSession]
  /\ attempts = 0 /\ window = LongAgo /\ tried = << >>
  /\ pc = [r \in Request |-> "idle"]
  /\ typed = [r \in Request |-> NoAdmin]
  /\ cookie = [r \in Request |-> NoToken]
  /\ openedBy = [t \in Token |-> NoAdmin]
  /\ promised = [t \in Token |-> NoSession]

Tick ==
  /\ now < MaxTime /\ now' = now + 1
  /\ UNCHANGED <<up, password, passwordFile, sessions, limiterVars, requestVars,
                 openedBy, promised>>

(* newStore, and the empty table of run(). *)
Boot ==
  /\ ~up /\ up' = TRUE
  /\ password' = passwordFile
  /\ UNCHANGED <<now, passwordFile, sessions, limiterVars, requestVars, openedBy, promised>>

(* A setup may have written its password when the process dies. *)
Crash ==
  /\ up /\ up' = FALSE
  /\ password' = NoAdmin
  /\ passwordFile' \in {passwordFile} \cup
       {typed[r] : r \in {q \in Request : pc[q] = "setup" /\ password = NoAdmin}}
  /\ sessions' = [t \in Token |-> NoSession]
  /\ attempts' = 0 /\ window' = LongAgo
  /\ pc' = [r \in Request |-> "idle"]
  /\ typed' = [r \in Request |-> NoAdmin]
  /\ cookie' = [r \in Request |-> NoToken]
  /\ promised' = [t \in Token |-> NoSession]
  /\ UNCHANGED <<now, openedBy, tried>>

(* The command line, while no process serves. *)
ResetPassword ==
  /\ ~up
  /\ passwordFile' = NoAdmin
  /\ UNCHANGED <<now, up, password, sessions, limiterVars, requestVars, openedBy, promised>>

-----------------------------------------------------------------------------
(* Mutant: a window ends on the minute, and not after it. *)
authAttempt_ShortWindow(r, step, p) ==
  LET over == now - window >= Minute
      n == (IF over THEN 0 ELSE attempts) + 1
  IN  /\ up /\ pc[r] = "idle" /\ attempts < MaxTries /\ Len(tried) < MaxTries
      /\ window' = IF over THEN now ELSE window
      /\ attempts' = n
      /\ IF n <= MaxAttempts
         THEN /\ pc' = [pc EXCEPT ![r] = step]
              /\ typed' = [typed EXCEPT ![r] = p]
              /\ tried' = Append(tried, Attempt)
         ELSE UNCHANGED <<pc, typed, tried>>
      /\ UNCHANGED <<now, up, password, passwordFile, sessions, cookie, openedBy, promised>>

(* POST /api/setup and /api/login begin with an attempt, counted in a window *)
(* that starts with the first attempt after the last window's minute.        *)
authAttempt(r, step, p) ==
  LET over == now - window > Minute
      n == (IF over THEN 0 ELSE attempts) + 1
  IN  /\ up /\ pc[r] = "idle" /\ attempts < MaxTries /\ Len(tried) < MaxTries
      /\ window' = IF over THEN now ELSE window
      /\ attempts' = n
      /\ IF n <= MaxAttempts
         THEN /\ pc' = [pc EXCEPT ![r] = step]
              /\ typed' = [typed EXCEPT ![r] = p]
              /\ tried' = Append(tried, Attempt)
         ELSE UNCHANGED <<pc, typed, tried>>
      /\ UNCHANGED <<now, up, password, passwordFile, sessions, cookie, openedBy, promised>>

(* An unreadable body, a wrong key, a password of the wrong length, or a     *)
(* write that fails.                                                         *)
Refuse(r) ==
  /\ pc[r] \in {"setup", "login"}
  /\ Done(r)
  /\ UNCHANGED <<now, up, password, passwordFile, sessions, limiterVars, openedBy, promised>>

(* Mutant: the check for an earlier setup is left to the dashboard. *)
ChangePassword_Unchecked(r) ==
  /\ pc[r] = "setup"
  /\ Goes(r, "open") /\ password' = typed[r] /\ passwordFile' = typed[r]
  /\ UNCHANGED <<now, up, sessions, limiterVars, openedBy, promised>>

(* Setup, once the password is hashed: change() with the check inside. *)
ChangePassword(r) ==
  /\ pc[r] = "setup"
  /\ IF password = NoAdmin
     THEN Goes(r, "open") /\ password' = typed[r] /\ passwordFile' = typed[r]
     ELSE Done(r) /\ UNCHANGED <<password, passwordFile>>
  /\ UNCHANGED <<now, up, sessions, limiterVars, openedBy, promised>>

(* Login: the snapshot of the settings decides, however long the hash of the *)
(* typed password then takes.                                                *)
ReadPassword(r) ==
  /\ pc[r] = "login"
  /\ IF password # NoAdmin /\ typed[r] = password THEN Goes(r, "open") ELSE Done(r)
  /\ UNCHANGED <<now, up, password, passwordFile, sessions, limiterVars, openedBy, promised>>

Unexpired == {t \in Token : sessions[t] # NoSession /\ now <= sessions[t]}

(* Mutant: expired sessions count towards the limit. *)
Purged_CountsAll ==
  IF Cardinality({t \in Token : sessions[t] # NoSession}) >= MaxSessions
  THEN [t \in Token |-> NoSession]
  ELSE [t \in Token |-> IF t \in Unexpired THEN sessions[t] ELSE NoSession]

(* The table without expired sessions, or empty if it is full even so. *)
Purged ==
  IF Cardinality(Unexpired) >= MaxSessions
  THEN [t \in Token |-> NoSession]
  ELSE [t \in Token |-> IF t \in Unexpired THEN sessions[t] ELSE NoSession]

(* newSession, with a token never drawn before. *)
newSession(r, t) ==
  /\ pc[r] = "open" /\ openedBy[t] = NoAdmin
  /\ sessions' = [Purged EXCEPT ![t] = now + TTL]
  /\ promised' = [promised EXCEPT ![t] = now + TTL]
  /\ openedBy' = [openedBy EXCEPT ![t] = typed[r]]
  /\ Done(r)
  /\ UNCHANGED <<now, up, password, passwordFile, limiterVars>>

-----------------------------------------------------------------------------
(* Mutant: an expired session is found, and used. *)
authenticated_Found(r, t) ==
  /\ up /\ pc[r] = "idle" /\ sessions[t] # NoSession
  /\ pc' = [pc EXCEPT ![r] = "authed"]
  /\ cookie' = [cookie EXCEPT ![r] = t]
  /\ UNCHANGED <<now, up, password, passwordFile, sessions, limiterVars, typed,
                 openedBy, promised>>

(* Every other route, with a cookie some login set: an expired session is    *)
(* forgotten, and the request refused.                                       *)
authenticated(r, t) ==
  /\ up /\ pc[r] = "idle" /\ openedBy[t] # NoAdmin
  /\ IF sessions[t] # NoSession /\ now < sessions[t]
     THEN /\ pc' = [pc EXCEPT ![r] = "authed"]
          /\ cookie' = [cookie EXCEPT ![r] = t]
          /\ UNCHANGED sessions
     ELSE sessions' = [sessions EXCEPT ![t] = NoSession] /\ UNCHANGED <<pc, cookie>>
  /\ UNCHANGED <<now, up, password, passwordFile, limiterVars, typed, openedBy, promised>>

(* POST /api/logout, whose authentication was a mutex section before. *)
Logout(r) ==
  /\ pc[r] = "authed"
  /\ sessions' = [sessions EXCEPT ![cookie[r]] = NoSession]
  /\ promised' = [promised EXCEPT ![cookie[r]] = NoSession]
  /\ Done(r)
  /\ UNCHANGED <<now, up, password, passwordFile, limiterVars, openedBy>>

(* The routes that leave sessions and password alone. *)
Serve(r) ==
  /\ pc[r] = "authed"
  /\ Done(r)
  /\ UNCHANGED <<now, up, password, passwordFile, sessions, limiterVars, openedBy, promised>>

Next ==
  \/ Tick \/ Boot \/ Crash \/ ResetPassword
  \/ \E r \in Request :
       \/ \E step \in {"setup", "login"}, p \in Admin : authAttempt(r, step, p)
       \/ Refuse(r) \/ ChangePassword(r) \/ ReadPassword(r)
       \/ \E t \in Token : newSession(r, t) \/ authenticated(r, t)
       \/ Logout(r) \/ Serve(r)

Spec == Init /\ [][Next]_vars

-----------------------------------------------------------------------------
TypeOK ==
  /\ now \in 0..MaxTime /\ up \in BOOLEAN
  /\ password \in Admin \cup {NoAdmin} /\ passwordFile \in Admin \cup {NoAdmin}
  /\ sessions \in [Token -> Nat \cup {NoSession}]
  /\ attempts \in 0..MaxTries /\ window \in LongAgo..now
  /\ pc \in [Request -> PC]
  /\ typed \in [Request -> Admin \cup {NoAdmin}]
  /\ cookie \in [Request -> Token \cup {NoToken}]
  /\ openedBy \in [Token -> Admin \cup {NoAdmin}]
  /\ promised \in [Token -> Nat \cup {NoSession}]
  /\ tried \in Seq([at : 0..now, life : Nat])

(* Whatever setups, logins, restarts and password resets overlap, nobody is  *)
(* signed in with a password that is not the one in force: login decides on  *)
(* a snapshot and opens the session much later, and "[a reset] invalidates   *)
(* current sessions" (README.md).                                            *)
SessionsMatchPassword ==
  \A t \in Token :
    sessions[t] # NoSession => up /\ password # NoAdmin /\ openedBy[t] = password

(* A request is authenticated only by a session that was opened in this      *)
(* process, has not been logged out by any request since, and is within its  *)
(* 12 hours (authenticated, logout, newSession).                             *)
RevokedStaysRevoked ==
  [][\A r \in Request : pc[r] = "idle" /\ pc'[r] = "authed" =>
       promised[cookie'[r]] # NoSession /\ now < promised[cookie'[r]]]_vars

(* Nobody is signed out before the time, except by a logout of that session, *)
(* or by a login that finds MaxSessions others that have not expired         *)
(* (newSession).                                                             *)
SignedOutForAReason ==
  [][\A t \in Token : up' /\ sessions[t] # NoSession /\ sessions'[t] = NoSession =>
       \/ now >= sessions[t]
       \/ \E r \in Request : cookie[r] = t /\ promised'[t] = NoSession
       \/ Cardinality(Unexpired) >= MaxSessions]_vars

(* "Login/setup attempts share a bounded ten-per-minute limiter"             *)
(* (ARCHITECTURE.md). The windows of a process follow one another at more    *)
(* than a minute, so a minute, wherever it begins, holds fewer than twice    *)
(* the limit; and as the limiter lives in memory, each restart within that   *)
(* minute adds the limit once.                                               *)
RateBounded ==
  \A i, j \in DOMAIN tried :
    i <= j /\ tried[j].at - tried[i].at <= Minute =>
      j - i + 1 < (2 + tried[j].life - tried[i].life) * MaxAttempts
=============================================================================
