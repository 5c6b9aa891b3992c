-------------------------- MODULE AdminSessionProofs --------------------------
(***************************************************************************)
(* Sessions belong to the password in force and end when they are revoked, *)
(* and the limiter bounds every minute, for any number of requests,        *)
(* tokens, attempts and sessions, and any length of a minute.              *)
(***************************************************************************)
EXTENDS AdminSession, SequenceTheorems, TLAPS

(* As far as the proofs need the types. *)
Shapes ==
  /\ now \in Int
  /\ up \in BOOLEAN
  /\ sessions \in [Token -> Int \cup {NoSession}]
  /\ promised \in [Token -> Int \cup {NoSession}]
  /\ openedBy = [t \in Token |-> openedBy[t]]
  /\ pc \in [Request -> PC]
  /\ typed \in [Request -> Admin \cup {NoAdmin}]
  /\ cookie = [r \in Request |-> cookie[r]]

(* A request that will open a session carries the password in force, and     *)
(* setup keeps a password that is set, so that stays so.                     *)
OpensWithPassword ==
  \A r \in Request :
    /\ pc[r] # "idle" => up
    /\ pc[r] \in {"setup", "login"} => typed[r] \in Admin
    /\ pc[r] = "open" => password # NoAdmin /\ typed[r] = password

(* A session in the table has the expiry its cookie was given. *)
TableKeepsPromise ==
  \A t \in Token : sessions[t] # NoSession => sessions[t] = promised[t]

SessionInv == Shapes /\ OpensWithPassword /\ SessionsMatchPassword /\ TableKeepsPromise

(* newSession only ever removes sessions before it adds its own.             *)
LEMMA PurgedIsPart ==
  ASSUME Shapes
  PROVE  /\ Purged \in [Token -> Int \cup {NoSession}]
         /\ \A t \in Token : Purged[t] \in {NoSession, sessions[t]}
BY DEF Purged, Unexpired, Shapes

(* SessionInv holds at the start. *)
LEMMA InitSession == Init => SessionInv
<1> SUFFICES ASSUME Init PROVE SessionInv
  OBVIOUS
<1>1. Shapes
  <2>1. now \in Int
    BY DEF Init
  <2>4. up \in BOOLEAN
    BY Zenon DEF Init
  <2>2. /\ sessions \in [Token -> Int \cup {NoSession}]
        /\ promised \in [Token -> Int \cup {NoSession}]
    BY DEF Init
  <2>3. pc \in [Request -> PC] /\ typed \in [Request -> Admin \cup {NoAdmin}]
    BY DEF Init, PC
  <2> QED
    BY <2>1, <2>2, <2>3, <2>4, Zenon DEF Init, Shapes
<1>2. OpensWithPassword /\ SessionsMatchPassword /\ TableKeepsPromise
  BY DEF Init, OpensWithPassword, SessionsMatchPassword, TableKeepsPromise
<1> QED
  BY <1>1, <1>2 DEF SessionInv

(* Every step keeps SessionInv. *)
LEMMA StepSession == SessionInv /\ [Next]_vars => SessionInv'
<1> SUFFICES ASSUME SessionInv, [Next]_vars PROVE SessionInv'
  OBVIOUS
<1> USE SessionAssumption
    DEF SessionInv, Shapes, OpensWithPassword, SessionsMatchPassword, TableKeepsPromise, PC
<1>1. CASE Tick
  BY <1>1 DEF Tick, limiterVars, requestVars
<1>2. CASE Boot
  BY <1>2 DEF Boot, limiterVars, requestVars
<1>3. CASE Crash
  BY <1>3 DEF Crash
<1>4. CASE ResetPassword
  BY <1>4 DEF ResetPassword, limiterVars, requestVars
<1>5. ASSUME NEW r \in Request, NEW step \in {"setup", "login"}, NEW p \in Admin,
             authAttempt(r, step, p)
      PROVE  SessionInv'
  <2>1. CASE UNCHANGED <<pc, typed>>
    BY <1>5, <2>1 DEF authAttempt
  <2>2. CASE /\ pc' = [pc EXCEPT ![r] = step]
             /\ typed' = [typed EXCEPT ![r] = p]
    BY <1>5, <2>2 DEF authAttempt
  <2> QED
    BY <1>5, <2>1, <2>2 DEF authAttempt
<1>6. ASSUME NEW r \in Request, Done(r),
             UNCHANGED <<now, up, password, sessions, openedBy, promised>>
      PROVE  SessionInv'
  BY <1>6 DEF Done
<1>7. ASSUME NEW r \in Request, ChangePassword(r) PROVE SessionInv'
  BY <1>7 DEF ChangePassword, Goes, Done, limiterVars
<1>8. ASSUME NEW r \in Request, ReadPassword(r) PROVE SessionInv'
  BY <1>8 DEF ReadPassword, Goes, Done, limiterVars
<1>9. ASSUME NEW r \in Request, NEW t \in Token, newSession(r, t) PROVE SessionInv'
  <2>0. now + TTL \in Int
    OBVIOUS
  <2>1. OpensWithPassword' /\ pc' \in [Request -> PC]
        /\ typed' \in [Request -> Admin \cup {NoAdmin}]
        /\ cookie' = [q \in Request |-> cookie'[q]]
    BY <1>9 DEF newSession, Done
  <2>4. Shapes'
    BY <1>9, <2>0, <2>1, PurgedIsPart DEF newSession
  <2>2. \A s \in Token : sessions'[s] # NoSession =>
          \/ s = t /\ openedBy'[s] = typed[r] /\ sessions'[s] = promised'[s]
          \/ s # t /\ openedBy'[s] = openedBy[s] /\ promised'[s] = promised[s]
               /\ sessions'[s] = sessions[s]
    BY <1>9, PurgedIsPart DEF newSession
  <2>3. SessionsMatchPassword' /\ TableKeepsPromise'
    BY <1>9, <2>2 DEF newSession
  <2> QED
    BY <2>1, <2>3, <2>4
<1>10. ASSUME NEW r \in Request, NEW t \in Token, authenticated(r, t) PROVE SessionInv'
  BY <1>10 DEF authenticated, limiterVars
<1>11. ASSUME NEW r \in Request, Logout(r) PROVE SessionInv'
  BY <1>11 DEF Logout, Done, limiterVars
<1>12. CASE UNCHANGED vars
  BY <1>12 DEF vars, limiterVars, requestVars
<1> QED
  BY <1>1, <1>2, <1>3, <1>4, <1>5, <1>6, <1>7, <1>8, <1>9, <1>10, <1>11, <1>12
  DEF Next, Refuse, Serve, limiterVars

LEMMA AlwaysSession == Spec => []SessionInv
BY InitSession, StepSession, PTL DEF Spec

(* Nobody is signed in with a password that is not in force.                 *)
THEOREM SessionsFollowPassword == Spec => []SessionsMatchPassword
<1>1. SessionInv => SessionsMatchPassword
  BY DEF SessionInv
<1> QED
  BY <1>1, AlwaysSession, PTL

(* Only an unexpired session of this process that nobody has logged out      *)
(* authenticates a request.                                                  *)
THEOREM RevocationHolds == Spec => RevokedStaysRevoked
<1>1. SessionInv /\ [Next]_vars =>
        [\A r \in Request : pc[r] = "idle" /\ pc'[r] = "authed" =>
           promised[cookie'[r]] # NoSession /\ now < promised[cookie'[r]]]_vars
  <2> SUFFICES ASSUME SessionInv, [Next]_vars, NEW r \in Request,
                      pc[r] = "idle", pc'[r] = "authed"
               PROVE  promised[cookie'[r]] # NoSession /\ now < promised[cookie'[r]]
    OBVIOUS
  <2> USE DEF SessionInv, Shapes
  <2>1. CASE \E t \in Token : authenticated(r, t)
    BY <2>1 DEF authenticated, TableKeepsPromise
  <2>2. CASE \E q \in Request, t \in Token : q # r /\ authenticated(q, t)
    BY <2>2 DEF authenticated
  <2> QED
    BY <2>1, <2>2
    DEF Next, Tick, Boot, Crash, ResetPassword, authAttempt, Refuse, ChangePassword,
        ReadPassword, newSession, Logout, Serve, Done, Goes, requestVars, vars
<1> QED
  BY <1>1, AlwaysSession, PTL DEF Spec, RevokedStaysRevoked

(* A session ends by its expiry, its logout or a full table.                 *)
THEOREM SignedInUntil == Spec => SignedOutForAReason
<1>1. SessionInv /\ [Next]_vars =>
        [\A t \in Token : up' /\ sessions[t] # NoSession /\ sessions'[t] = NoSession =>
           \/ now >= sessions[t]
           \/ \E r \in Request : cookie[r] = t /\ promised'[t] = NoSession
           \/ Cardinality(Unexpired) >= MaxSessions]_vars
  <2> SUFFICES ASSUME SessionInv, [Next]_vars, NEW t \in Token,
                      up', sessions[t] # NoSession, sessions'[t] = NoSession
               PROVE  \/ now >= sessions[t]
                      \/ \E r \in Request : cookie[r] = t /\ promised'[t] = NoSession
                      \/ Cardinality(Unexpired) >= MaxSessions
    OBVIOUS
  <2> USE DEF SessionInv, Shapes
  <2>1. ASSUME NEW r \in Request, NEW s \in Token, newSession(r, s),
               ~(Cardinality(Unexpired) >= MaxSessions)
        PROVE  now >= sessions[t]
    <3>1. sessions' = [[u \in Token |-> IF u \in Unexpired THEN sessions[u] ELSE NoSession]
                        EXCEPT ![s] = now + TTL]
      BY <2>1 DEF newSession, Purged
    <3>2. t \notin Unexpired
      BY <3>1, SessionAssumption
    <3> QED
      BY <3>2 DEF Unexpired
  <2>2. ASSUME NEW r \in Request, NEW s \in Token, authenticated(r, s)
        PROVE  now >= sessions[t]
    BY <2>2 DEF authenticated
  <2>3. ASSUME NEW r \in Request, Logout(r)
        PROVE  cookie[r] = t /\ promised'[t] = NoSession
    BY <2>3 DEF Logout
  <2> QED
    BY <2>1, <2>2, <2>3
    DEF Next, Tick, Boot, Crash, ResetPassword, authAttempt, Refuse, ChangePassword,
        ReadPassword, Serve, vars
<1> QED
  BY <1>1, AlwaysSession, PTL DEF Spec, SignedOutForAReason

-----------------------------------------------------------------------------
(* The attempts let through since the window began are the last ones. *)
InWindow == IF attempts <= MaxAttempts THEN attempts ELSE MaxAttempts
Before == Len(tried) - InWindow

(* What the limiter lets through in a minute that meets n windows. *)
Limit(n) == n * MaxAttempts

(* The window starts with the first attempt in it. Of the attempts before,   *)
(* those of the last minute are as many as a later window may still follow.  *)
LimiterInv ==
  /\ now \in Nat /\ window \in Int /\ attempts \in Nat
  /\ tried \in Seq([at : Int, life : Int])
  /\ window <= now /\ Before >= 0
  /\ \A i \in 1..Len(tried) : tried[i].at <= now /\ tried[i].life <= Lives
  /\ attempts = 0 => window = LongAgo
  /\ attempts > 0 => Before < Len(tried) /\ tried[Before + 1].at = window
  /\ attempts > 0 =>
       \A i \in 1..Len(tried) : i <= Before =>
         /\ tried[i].at <= window
         /\ window - tried[i].at <= Minute =>
              Before - i + 1 < Limit(1 + Lives - tried[i].life)
  /\ RateBounded

(* One window more allows the limit once more. *)
LEMMA LimitGrows ==
  ASSUME NEW n \in Int
  PROVE  /\ Limit(n) \in Int
         /\ Limit(n + 1) = Limit(n) + MaxAttempts
         /\ n >= 1 => Limit(n) >= MaxAttempts
<1>1. MaxAttempts \in Nat \ {0}
  BY SessionAssumption
<1>2. Limit(n) \in Int /\ Limit(n + 1) = Limit(n) + MaxAttempts
  BY <1>1 DEF Limit
<1>3. ASSUME n >= 1 PROVE Limit(n) >= MaxAttempts
  <2>1. n * MaxAttempts = (n - 1) * MaxAttempts + MaxAttempts
    BY <1>1
  <2>2. n - 1 \in Nat /\ (n - 1) * MaxAttempts \in Nat
    BY <1>1, <1>3
  <2> QED
    BY <1>1, <2>1, <2>2 DEF Limit
<1> QED
  BY <1>2, <1>3

(* What LimiterInv says of the types of the history. *)
LEMMA HistoryTypes ==
  ASSUME LimiterInv
  PROVE  /\ Len(tried) \in Nat /\ now \in Int /\ Lives \in Int
         /\ \A i \in 1..Len(tried) : tried[i].at \in Int /\ tried[i].life \in Int
<1>1. tried \in Seq([at : Int, life : Int]) /\ now \in Int
  BY DEF LimiterInv
<1>2. /\ Len(tried) \in Nat
      /\ \A i \in 1..Len(tried) : tried[i] \in [at : Int, life : Int]
  BY <1>1, LenProperties, ElementOfSeq
<1>3. tried # << >> => Len(tried) \in 1..Len(tried)
  BY <1>1
<1>4. Lives \in Int
  BY <1>2, <1>3 DEF Lives
<1> QED
  BY <1>1, <1>2, <1>4

(* RateBounded in terms of Limit and Lives. *)
LEMMA BoundedSoFar ==
  ASSUME LimiterInv
  PROVE  \A i, j \in 1..Len(tried) :
           i <= j /\ tried[j].at - tried[i].at <= Minute =>
             j - i + 1 < Limit(2 + tried[j].life - tried[i].life)
<1>1. DOMAIN tried = 1..Len(tried)
  BY DEF LimiterInv
<1> QED
  BY <1>1 DEF LimiterInv, RateBounded, Limit

(* RateBounded for a history one attempt longer. *)
LEMMA BoundedOneMore ==
  ASSUME LimiterInv, NEW e \in [at : Int, life : Int], tried' = Append(tried, e),
         \A i \in 1..Len(tried) : e.at - tried[i].at <= Minute =>
           Len(tried) - i + 2 < Limit(2 + e.life - tried[i].life)
  PROVE  RateBounded'
<1> DEFINE n == Len(tried)
<1>1. tried \in Seq([at : Int, life : Int]) /\ n \in Nat
  BY HistoryTypes DEF LimiterInv
<1>2. /\ tried' \in Seq([at : Int, life : Int]) /\ Len(tried') = n + 1
      /\ tried'[n + 1] = e /\ \A i \in 1..n : tried'[i] = tried[i]
  BY <1>1, AppendProperties
<1>3. DOMAIN tried' = 1..n + 1
  BY <1>1, <1>2
<1>4. ASSUME NEW i \in 1..n + 1, NEW j \in 1..n + 1,
             i <= j, tried'[j].at - tried'[i].at <= Minute
      PROVE  j - i + 1 < Limit(2 + tried'[j].life - tried'[i].life)
  <2>1. CASE j \in 1..n
    <3>1. i \in 1..n
      BY <1>1, <1>4, <2>1
    <3> QED
      BY <1>2, <1>4, <2>1, <3>1, BoundedSoFar
  <2>2. CASE j = n + 1 /\ i \in 1..n
    <3>1. n - i + 2 < Limit(2 + e.life - tried[i].life)
      BY <1>2, <1>4, <2>2
    <3>2. j - i + 1 = n - i + 2
      BY <1>1, <2>2
    <3> QED
      BY <1>2, <2>2, <3>1, <3>2
  <2>3. CASE j = n + 1 /\ i = n + 1
    <3>1. j - i + 1 = 1 /\ 2 + e.life - e.life = 1 + 1
      BY <1>1, <2>3
    <3>2. /\ Limit(1) \in Int /\ Limit(1) >= MaxAttempts
          /\ Limit(1 + 1) = Limit(1) + MaxAttempts
      BY LimitGrows
    <3>3. 1 < Limit(1 + 1)
      BY <3>2, SessionAssumption
    <3> QED
      BY <1>2, <2>3, <3>1, <3>3
  <2> QED
    BY <1>1, <2>1, <2>2, <2>3
<1> QED
  BY <1>3, <1>4 DEF RateBounded, Limit

(* An attempt, let through or not, keeps LimiterInv. *)
LEMMA AttemptLimited ==
  ASSUME LimiterInv, NEW r, NEW step, NEW p, authAttempt(r, step, p)
  PROVE  LimiterInv'
<1> DEFINE n == Len(tried)
           max == MaxAttempts
           over == now - window > Minute
           N == (IF over THEN 0 ELSE attempts) + 1
           e == Attempt
<1>0. /\ max \in Nat \ {0} /\ Minute \in Nat
      /\ now \in Nat /\ window \in Int /\ attempts \in Nat /\ n \in Nat
      /\ window <= now
      /\ \A i \in 1..n : tried[i].at \in Int /\ tried[i].life \in Int
  BY HistoryTypes, SessionAssumption DEF LimiterInv
<1>1. Lives \in Int /\ \A i \in 1..n : tried[i].at <= now /\ tried[i].life <= Lives
  BY HistoryTypes DEF LimiterInv
<1>6. tried \in Seq([at : Int, life : Int])
  BY DEF LimiterInv
<1>2. now' = now /\ attempts' = N /\ window' = IF over THEN now ELSE window
  BY DEF authAttempt
<1>3. InWindow \in 0..max /\ InWindow <= attempts /\ Before = n - InWindow /\ Before \in 0..n
  BY <1>0 DEF InWindow, Before, LimiterInv
<1>4. CASE N <= max
  <2>1. tried' = Append(tried, e)
    BY <1>4 DEF authAttempt
  <2>2. e \in [at : Int, life : Int] /\ e.at = now /\ Lives <= e.life
    BY <1>0, <1>1 DEF Attempt
  <2>3. /\ tried' \in Seq([at : Int, life : Int]) /\ Len(tried') = n + 1
        /\ tried'[n + 1] = e /\ \A i \in 1..n : tried'[i] = tried[i]
    BY <1>6, <2>1, <2>2, AppendProperties
  <2>4. Lives' = e.life
    <3>1. tried' # << >>
      BY <2>1
    <3> QED
      BY <2>3, <3>1 DEF Lives
  <2>9. Len(tried') = n + 1 /\ tried'[n + 1] = e /\ \A i \in 1..n : tried'[i] = tried[i]
    BY <2>3
  <2>5. \A i \in 1..n + 1 : tried'[i].at <= now' /\ tried'[i].life <= Lives'
    <3>1. \A i \in 1..n : tried[i].at <= now /\ tried[i].life <= e.life
      BY <1>0, <1>1, <2>2
    <3>2. \A i \in 1..n + 1 : i \in 1..n \/ i = n + 1
      BY <1>0
    <3> QED
      BY <1>2, <2>2, <2>9, <2>4, <3>1, <3>2
  <2>6. Before' = n + 1 - N /\ N >= 1
    <3>1. InWindow' = N /\ N >= 1
      BY <1>0, <1>2, <1>4 DEF InWindow
    <3> QED
      BY <1>0, <2>9, <3>1 DEF Before
  <2>7. CASE over
    <3>1. N = 1 /\ Before' = n /\ window' = now
      BY <1>0, <1>2, <2>6, <2>7
    <3>2. ASSUME NEW i \in 1..n, now - tried[i].at <= Minute
          PROVE  n - i + 1 < Limit(1 + e.life - tried[i].life)
      <4>1. CASE attempts = 0
        <5>1. e.life = Lives + 1 /\ tried[n].life = Lives /\ n \in 1..n
          <6>1. n \in 1..n /\ tried # << >>
            BY <1>0
          <6> QED
            BY <4>1, <6>1 DEF Attempt, Lives
        <5>2. tried[n].at - tried[i].at <= Minute
          BY <1>0, <1>1, <3>2, <5>1
        <5>3. n - i + 1 < Limit(2 + Lives - tried[i].life)
          BY <5>1, <5>2, BoundedSoFar
        <5>4. 2 + Lives - tried[i].life = 1 + e.life - tried[i].life
          BY <1>0, <1>1, <5>1
        <5> QED
          BY <5>3, <5>4
      <4>2. CASE attempts > 0
        <5>1. ~(i <= Before) /\ i # Before + 1
          <6>1. /\ tried[Before + 1].at = window
                /\ i <= Before => tried[i].at <= window
            BY <4>2 DEF LimiterInv
          <6>2. tried[i].at \in Int /\ ~(tried[i].at <= window)
            BY <1>0, <2>7, <3>2
          <6>3. tried[i].at # window
            BY <1>0, <6>2
          <6> QED
            BY <6>1, <6>2, <6>3
        <5>2. n - i + 1 < max
          <6>1. Before \in Int /\ i \in Int /\ n \in Int /\ max \in Int
            BY <1>0, <1>3
          <6>2. n - Before <= max
            BY <1>0, <1>3
          <6>3. i >= Before + 2
            BY <5>1, <6>1
          <6> QED
            BY <6>1, <6>2, <6>3
        <5>3. 1 + e.life - tried[i].life \in Int /\ 1 + e.life - tried[i].life >= 1
          BY <1>0, <1>1, <2>2
        <5>4. /\ Limit(1 + e.life - tried[i].life) \in Int
              /\ Limit(1 + e.life - tried[i].life) >= max
          BY <5>3, LimitGrows
        <5> QED
          BY <1>0, <5>2, <5>4
      <4> QED
        BY <1>0, <4>1, <4>2
    <3>3. ASSUME NEW i \in 1..n, e.at - tried[i].at <= Minute
          PROVE  n - i + 2 < Limit(2 + e.life - tried[i].life)
      <4>1. n - i + 1 < Limit(1 + e.life - tried[i].life)
        BY <2>2, <3>2, <3>3
      <4>2. /\ 1 + e.life - tried[i].life \in Int
            /\ (1 + e.life - tried[i].life) + 1 = 2 + e.life - tried[i].life
        BY <1>0, <1>1, <2>2
      <4>3. /\ Limit(1 + e.life - tried[i].life) \in Int
            /\ Limit(2 + e.life - tried[i].life) = Limit(1 + e.life - tried[i].life) + max
        BY <4>2, LimitGrows
      <4> QED
        BY <1>0, <4>1, <4>3
    <3>4. RateBounded'
      BY <2>1, <2>2, <3>3, BoundedOneMore
    <3>5. \A i \in 1..n + 1 : i <= Before' =>
            /\ tried'[i].at <= window'
            /\ window' - tried'[i].at <= Minute =>
                 Before' - i + 1 < Limit(1 + Lives' - tried'[i].life)
      BY <1>0, <1>1, <2>9, <2>4, <3>1, <3>2
    <3>6. Before' < Len(tried') /\ tried'[Before' + 1].at = window'
      BY <1>0, <2>2, <2>9, <3>1
    <3>7. now' \in Nat /\ window' \in Int /\ attempts' \in Nat /\ attempts' # 0
          /\ window' <= now' /\ Before' >= 0
      BY <1>0, <1>2, <3>1
    <3> QED
      BY <2>3, <2>5, <3>4, <3>5, <3>6, <3>7, Zenon DEF LimiterInv
  <2>8. CASE ~over
    <3>1. attempts > 0
      BY <1>0, <2>8 DEF LimiterInv, LongAgo
    <3>2. /\ Before' = Before /\ window' = window /\ N = attempts + 1
          /\ InWindow = attempts /\ attempts < max /\ e.life = Lives
      BY <1>0, <1>2, <1>3, <1>4, <2>6, <2>8, <3>1 DEF InWindow, Attempt
    <3>3. ASSUME NEW i \in 1..n, e.at - tried[i].at <= Minute
          PROVE  n - i + 2 < Limit(2 + e.life - tried[i].life)
      <4>1. /\ 1 + e.life - tried[i].life \in Int
            /\ (1 + e.life - tried[i].life) + 1 = 2 + e.life - tried[i].life
            /\ 1 + e.life - tried[i].life >= 1
        BY <1>0, <1>1, <2>2
      <4>2. /\ Limit(1 + e.life - tried[i].life) \in Int
            /\ Limit(1 + e.life - tried[i].life) >= max
            /\ Limit(2 + e.life - tried[i].life) = Limit(1 + e.life - tried[i].life) + max
        BY <4>1, LimitGrows
      <4>3. CASE i <= Before
        <5>1. window - tried[i].at <= Minute
          BY <1>0, <2>2, <3>3
        <5>2. Before - i + 1 < Limit(1 + e.life - tried[i].life)
          BY <3>1, <3>2, <4>3, <5>1 DEF LimiterInv
        <5> QED
          BY <1>0, <1>3, <3>2, <4>2, <5>2
      <4>4. CASE ~(i <= Before)
        <5>1. n - i + 2 <= max
          BY <1>0, <1>3, <3>2, <4>4
        <5> QED
          BY <1>0, <4>2, <5>1
      <4> QED
        BY <4>3, <4>4
    <3>4. RateBounded'
      BY <2>1, <2>2, <3>3, BoundedOneMore
    <3>5. \A i \in 1..n + 1 : i <= Before' =>
            /\ tried'[i].at <= window'
            /\ window' - tried'[i].at <= Minute =>
                 Before' - i + 1 < Limit(1 + Lives' - tried'[i].life)
      <4>1. \A i \in 1..n + 1 : i <= Before => i \in 1..n
        BY <1>0, <1>3
      <4> QED
        BY <2>9, <2>4, <3>1, <3>2, <4>1 DEF LimiterInv
    <3>6. Before' < Len(tried') /\ tried'[Before' + 1].at = window'
      <4>1. Before + 1 \in 1..n /\ tried[Before + 1].at = window
        BY <1>0, <1>3, <3>1 DEF LimiterInv
      <4>2. tried'[Before + 1] = tried[Before + 1]
        BY <2>9, <4>1
      <4>3. Before < n + 1
        BY <1>0, <1>3
      <4> QED
        BY <2>9, <3>2, <4>1, <4>2, <4>3
    <3>7. now' \in Nat /\ window' \in Int /\ attempts' \in Nat /\ attempts' # 0
          /\ window' <= now' /\ Before' >= 0
      BY <1>0, <1>2, <1>3, <3>2
    <3> QED
      BY <2>3, <2>5, <3>4, <3>5, <3>6, <3>7, Zenon DEF LimiterInv
  <2> QED
    BY <2>7, <2>8
<1>5. CASE ~(N <= max)
  <2>1. tried' = tried
    BY <1>5 DEF authAttempt
  <2>2. ~over /\ attempts >= max
    BY <1>0, <1>5
  <2>3. Before' = Before /\ window' = window /\ Lives' = Lives /\ attempts > 0 /\ attempts' > 0
    BY <1>0, <1>2, <2>1, <2>2 DEF Before, InWindow, Lives
  <2>4. RateBounded'
    BY <2>1 DEF LimiterInv, RateBounded, Limit
  <2>5. now' \in Nat /\ window' \in Int /\ attempts' \in Nat /\ window' <= now'
    BY <1>0, <1>2, <2>2
  <2> QED
    BY <1>2, <2>1, <2>3, <2>4, <2>5 DEF LimiterInv, Limit
<1> QED
  BY <1>4, <1>5

(* The limiter's state is its own, a new process forgets it, and the clock   *)
(* only moves forward.                                                       *)
LEMMA StepLimited == LimiterInv /\ [Next]_vars => LimiterInv'
<1> SUFFICES ASSUME LimiterInv, [Next]_vars PROVE LimiterInv'
  OBVIOUS
<1>1. ASSUME UNCHANGED limiterVars, now' \in {now, now + 1} PROVE LimiterInv'
  <2>1. tried' = tried /\ window' = window /\ attempts' = attempts
    BY <1>1 DEF limiterVars
  <2>2. /\ Before' = Before /\ Lives' = Lives /\ RateBounded' = RateBounded
        /\ now' \in Nat /\ now <= now'
    BY <1>1, <2>1 DEF Before, InWindow, Lives, RateBounded, LimiterInv
  <2>3. \A i \in 1..Len(tried) : tried[i].at <= now'
    BY <2>2, HistoryTypes DEF LimiterInv
  <2>4. window' <= now'
    BY <2>1, <2>2 DEF LimiterInv
  <2> QED
    BY <2>1, <2>2, <2>3, <2>4, Zenon DEF LimiterInv
<1>2. CASE Crash
  <2>1. tried' = tried /\ attempts' = 0 /\ window' = LongAgo /\ now' = now
    BY <1>2 DEF Crash
  <2>2. window' \in Int /\ window' <= now' /\ Before' >= 0 /\ Lives' = Lives
    BY <2>1, SessionAssumption DEF LimiterInv, LongAgo, Before, InWindow, Lives
  <2> QED
    BY <2>1, <2>2 DEF LimiterInv, RateBounded
<1> QED
  BY <1>1, <1>2, AttemptLimited
  DEF Next, Tick, Boot, ResetPassword, Refuse, ChangePassword, ReadPassword, newSession,
      authenticated, Logout, Serve, vars, limiterVars

(* A minute holds fewer than twice the limit, and the limit once more for    *)
(* each restart within it.                                                   *)
THEOREM AttemptsBounded == Spec => []RateBounded
<1>1. Init => LimiterInv
  BY SessionAssumption DEF Init, LimiterInv, Before, InWindow, RateBounded, LongAgo
<1>2. LimiterInv => RateBounded
  BY DEF LimiterInv
<1> QED
  BY <1>1, <1>2, StepLimited, PTL DEF Spec

-----------------------------------------------------------------------------
(* TypeOK in named parts.                                                    *)
TimesOK ==
  /\ now \in 0..MaxTime
  /\ sessions \in [Token -> Nat \cup {NoSession}]
  /\ promised \in [Token -> Nat \cup {NoSession}]
  /\ attempts \in 0..MaxTries /\ window \in LongAgo..now
  /\ tried \in Seq([at : 0..now, life : Nat])

RequestsOK ==
  /\ password \in Admin \cup {NoAdmin} /\ passwordFile \in Admin \cup {NoAdmin}
  /\ pc \in [Request -> PC]
  /\ typed \in [Request -> Admin \cup {NoAdmin}]
  /\ cookie \in [Request -> Token \cup {NoToken}]
  /\ openedBy \in [Token -> Admin \cup {NoAdmin}]

(* A history is one at a later time, too. *)
LEMMA HistoryLater ==
  ASSUME NEW t \in Nat, NEW s \in Seq([at : 0..t, life : Nat])
  PROVE  s \in Seq([at : 0..t + 1, life : Nat])
<1>1. [at : 0..t, life : Nat] \subseteq [at : 0..t + 1, life : Nat]
  OBVIOUS
<1> QED
  BY <1>1, SeqMonotonic

(* The clock, the table and the limiter keep their types.                    *)
LEMMA TimesStep == TimesOK /\ [Next]_vars => TimesOK'
<1> SUFFICES ASSUME TimesOK, [Next]_vars PROVE TimesOK'
  OBVIOUS
<1> USE SessionAssumption DEF TimesOK, LongAgo, limiterVars
<1>1. CASE Tick
  <2>1. tried' \in Seq([at : 0..now', life : Nat])
    <3>1. tried' = tried /\ now' = now + 1 /\ now \in Nat
      BY <1>1 DEF Tick
    <3> QED
      BY <3>1, HistoryLater
  <2> QED
    BY <1>1, <2>1 DEF Tick
<1>2. CASE Crash
  BY <1>2 DEF Crash
<1>3. ASSUME NEW r \in Request, NEW step, NEW p, authAttempt(r, step, p) PROVE TimesOK'
  <2>1. attempts' \in 0..MaxTries /\ window' \in LongAgo..now'
    BY <1>3 DEF authAttempt
  <2>2. tried' \in Seq([at : 0..now', life : Nat])
    <3>1. tried' = tried \/ tried' = Append(tried, Attempt)
      BY <1>3 DEF authAttempt
    <3>2. now' = now /\ now \in 0..now
      BY <1>3 DEF authAttempt
    <3>3. Lives \in Nat
      <4>1. ASSUME tried # << >> PROVE tried[Len(tried)] \in [at : 0..now, life : Nat]
        <5>1. Len(tried) \in 1..Len(tried)
          BY <4>1
        <5> QED
          BY <5>1, ElementOfSeq
      <4> QED
        BY <4>1 DEF Lives
    <3>4. Attempt \in [at : 0..now, life : Nat]
      BY <3>2, <3>3 DEF Attempt
    <3>5. Append(tried, Attempt) \in Seq([at : 0..now, life : Nat])
      BY <3>4, AppendProperties
    <3> QED
      BY <3>1, <3>2, <3>5
  <2> QED
    BY <1>3, <2>1, <2>2 DEF authAttempt
<1>4. ASSUME NEW r \in Request, NEW t \in Token, newSession(r, t) PROVE TimesOK'
  <2>1. Purged \in [Token -> Nat \cup {NoSession}] /\ now + TTL \in Nat
    BY DEF Purged
  <2> QED
    BY <1>4, <2>1 DEF newSession
<1>5. ASSUME NEW r \in Request, NEW t \in Token, authenticated(r, t) PROVE TimesOK'
  BY <1>5 DEF authenticated
<1>6. ASSUME NEW r \in Request, Logout(r) PROVE TimesOK'
  BY <1>6 DEF Logout
<1>7. CASE UNCHANGED <<now, sessions, promised, attempts, window, tried>>
  BY <1>7
<1> QED
  BY <1>1, <1>2, <1>3, <1>4, <1>5, <1>6, <1>7
     DEF Next, vars, Boot, ResetPassword, Refuse, ChangePassword, ReadPassword, Serve

(* The passwords and the requests keep their types.                          *)
LEMMA RequestsStep == RequestsOK /\ [Next]_vars => RequestsOK'
<1> SUFFICES ASSUME RequestsOK, [Next]_vars PROVE RequestsOK'
  OBVIOUS
<1> USE DEF RequestsOK, requestVars, PC
<1>1. CASE Tick \/ Boot \/ ResetPassword
  BY <1>1 DEF Tick, Boot, ResetPassword
<1>2. CASE Crash
  BY <1>2 DEF Crash
<1>3. ASSUME NEW r \in Request, NEW step \in {"setup", "login"}, NEW p \in Admin,
             authAttempt(r, step, p)
      PROVE  RequestsOK'
  BY <1>3 DEF authAttempt
<1>4. ASSUME NEW r \in Request, Refuse(r) \/ Serve(r) PROVE RequestsOK'
  BY <1>4 DEF Refuse, Serve, Done
<1>5. ASSUME NEW r \in Request, ChangePassword(r) PROVE RequestsOK'
  BY <1>5 DEF ChangePassword, Done, Goes
<1>6. ASSUME NEW r \in Request, ReadPassword(r) PROVE RequestsOK'
  BY <1>6 DEF ReadPassword, Done, Goes
<1>7. ASSUME NEW r \in Request, NEW t \in Token, newSession(r, t) PROVE RequestsOK'
  BY <1>7 DEF newSession, Done
<1>8. ASSUME NEW r \in Request, NEW t \in Token, authenticated(r, t) PROVE RequestsOK'
  BY <1>8 DEF authenticated
<1>9. ASSUME NEW r \in Request, Logout(r) PROVE RequestsOK'
  BY <1>9 DEF Logout, Done
<1>10. CASE UNCHANGED vars
  BY <1>10 DEF vars
<1> QED
  BY <1>1, <1>2, <1>3, <1>4, <1>5, <1>6, <1>7, <1>8, <1>9, <1>10 DEF Next

(* The table, the limiter and the requests keep their types, whatever        *)
(* requests, restarts and resets follow each other.                          *)
THEOREM SessionTypes == Spec => []TypeOK
<1>1. Init => TimesOK
  BY SessionAssumption DEF Init, TimesOK, LongAgo
<1>2. Init => RequestsOK
  BY DEF Init, RequestsOK, PC
<1>3. TimesOK /\ RequestsOK /\ Shapes => TypeOK
  BY Zenon DEF TimesOK, RequestsOK, Shapes, TypeOK
<1>4. SessionInv => Shapes
  BY DEF SessionInv
<1> QED
  BY <1>1, <1>2, <1>3, <1>4, TimesStep, RequestsStep, AlwaysSession, PTL DEF Spec
=============================================================================
