--------------------------- MODULE DashboardProofs ---------------------------
(***************************************************************************)
(* Proofs about Dashboard: the interval of the tab and what a handler      *)
(* shows of its own change, for any number of handlers, changes, sessions  *)
(* and errors.                                                             *)
(***************************************************************************)
EXTENDS Dashboard, TLAPS

ShellInv ==
  /\ intervals \in {0, 1}
  /\ screen = "shell" => intervals = 1

LEMMA ShellInvInit == Init => ShellInv
  BY DEF Init, ShellInv

(* Only the frames start or stop an interval, and a frame other than the     *)
(* dashboard that keeps it is no dashboard.                                  *)
LEMMA ShellInvStep == ShellInv /\ [Next]_vars => ShellInv'
<1> SUFFICES ASSUME ShellInv, [Next]_vars PROVE ShellInv'
  OBVIOUS
<1> USE DEF ShellInv
<1>1. CASE UNCHANGED <<screen, intervals>>
  BY <1>1
<1>2. CASE screen' # "shell" /\ intervals' \in {intervals, Cleared}
  BY <1>2 DEF Cleared
<1>3. CASE screen' = "shell" /\ intervals' = Cleared + 1
  BY <1>3 DEF Cleared
<1>4. ASSUME NEW t \in Task, NEW p, Begin(t, p) PROVE UNCHANGED <<screen, intervals>>
  BY <1>4 DEF Begin, view
<1>5. CASE Elsewhere \/ PollStart \/ Navigate \/ Filter \/ Focus
  BY <1>1, <1>5 DEF Elsewhere, PollStart, Navigate, Filter, Focus, view, tab
<1>6. ASSUME NEW t \in Task,
             \/ Boot(t) \/ Setup(t) \/ FinishSetup(t) \/ Login(t) \/ Logout(t)
             \/ Change(t) \/ RefreshLists(t)
      PROVE  UNCHANGED <<screen, intervals>>
  BY <1>4, <1>6 DEF Boot, Setup, FinishSetup, Login, Logout, Change, RefreshLists, view
<1>7. ASSUME NEW b \in Caller, Progress(b)
      PROVE  \/ UNCHANGED <<screen, intervals>>
             \/ screen' # "shell" /\ intervals' \in {intervals, Cleared}
             \/ screen' = "shell" /\ intervals' = Cleared + 1
  <2>1. CASE b \in Task /\ Loaded(b)
    BY <2>1 DEF Loaded, start, refresh, shell, setTimer
  <2>2. CASE \E c \in CallsOf(b) : Serve(c) \/ Break(c)
    BY <2>2 DEF Serve, Break, view, tab
  <2>3. CASE \E c \in CallsOf(b) : Return(c)
    <3> PICK c \in CallsOf(b) : Return(c)
      BY <2>3
    <3>1. CASE Denied(c)
      BY <3>1 DEF Denied, Frame
    <3>2. CASE Failed(c)
      BY <3>2 DEF Failed, Frame, view
    <3>3. CASE Status(c) \/ SetUp(c) \/ LoggedOut(c)
      BY <3>3 DEF Status, SetUp, LoggedOut, login, Frame, view
    <3>4. CASE Ignored(c) \/ LoggedIn(c) \/ Changed(c) \/ Refreshing(c) \/ Polled(c)
      BY <3>4 DEF Ignored, LoggedIn, Changed, Refreshing, Polled, view, tab
    <3> QED
      BY <3>1, <3>2, <3>3, <3>4 DEF Return
  <2> QED
    BY <1>7, <2>1, <2>2, <2>3 DEF Progress
<1>8. CASE SetupAccount \/ SetupBack
  BY <1>2, <1>8 DEF SetupAccount, SetupBack, Frame
<1>9. CASE UNCHANGED vars
  BY <1>1, <1>9 DEF vars, view, tab
<1> QED
  BY <1>1, <1>2, <1>3, <1>5, <1>6, <1>7, <1>8, <1>9 DEF Next

(* A dashboard in view has exactly one interval.                             *)
THEOREM ShellStaysPolled == Spec => []ShellIsPolled
<1>1. ShellInv => ShellIsPolled
  BY DEF ShellInv, ShellIsPolled
<1> QED
  BY <1>1, ShellInvInit, ShellInvStep, PTL DEF Spec

-----------------------------------------------------------------------------
Types ==
  /\ version \in Nat /\ opened \in Nat /\ cookie \in Nat
  /\ calls \subseteq Call
  /\ step \in [Task -> Step] /\ told \in [Task -> Nat]

(* What a change is told of is no later than the server.                     *)
ToldPast ==
  /\ \A t \in Task : told[t] <= version
  /\ \A c \in calls : c.path = "change" /\ c.reply = "ok" => c.value <= version

(* A handler that waits for its change waits for nothing else; one that      *)
(* reloads has only replies that know of the change.                         *)
Waits ==
  \A c \in calls : c.by \in Task =>
    /\ step[c.by] = "change" => c.path = "change" /\ \A d \in calls : d.by = c.by => d = c
    /\ step[c.by] = "reload" =>
         c.path \in LoadPaths /\ (c.reply = "ok" => c.value >= told[c.by])

ReloadInv == Types /\ ToldPast /\ Waits

LEMMA ReloadInvInit == Init => ReloadInv
  BY DashboardAssumption DEF Init, ReloadInv, Types, ToldPast, Waits, Step

(* New requests are calls without a reply.                                   *)
LEMMA SentCalls ==
  ASSUME NEW b \in Caller, NEW paths \in SUBSET Path, NEW k \in Nat
  PROVE  /\ Sent(b, paths, k) \subseteq Call
         /\ \A d \in Sent(b, paths, k) : d.by = b /\ d.reply = "none" /\ d.path \in paths
  BY DEF Sent, Call

(* A reply that is handled without going on to a change or its reload.       *)
LEMMA MovesOn ==
  ASSUME ReloadInv, NEW c \in calls, NEW more \in SUBSET Call,
         \A d \in more : d.by = c.by /\ d.reply = "none",
         more = {} \/ c.by \in Task,
         NEW where \in Step \ {"change", "reload"},
         Back(c, more), Goes(c, where),
         version' = version, opened' = opened, cookie' \in Nat
  PROVE  ReloadInv'
<1>1. c \in Call
  BY DEF ReloadInv, Types
<1>2. Types'
  BY <1>1 DEF ReloadInv, Types, Back, Goes
<1>3. ToldPast'
  BY DEF ReloadInv, Types, ToldPast, Back, Goes
<1>4. Waits'
  <2> SUFFICES ASSUME NEW d \in calls', d.by \in Task
               PROVE  /\ step'[d.by] = "change" =>
                           d.path = "change" /\ \A e \in calls' : e.by = d.by => e = d
                      /\ step'[d.by] = "reload" =>
                           d.path \in LoadPaths /\ (d.reply = "ok" => d.value >= told'[d.by])
    BY DEF Waits
  <2>1. CASE d.by = c.by
    BY <2>1 DEF Goes, ReloadInv, Types
  <2>2. CASE d.by # c.by
    <3>1. d \in calls /\ \A e \in calls' : e.by = d.by => e \in calls
      BY <2>2 DEF Back
    <3>2. step'[d.by] = step[d.by] /\ told'[d.by] = told[d.by]
      BY <2>2 DEF Goes, ReloadInv, Types
    <3> QED
      BY <3>1, <3>2 DEF ReloadInv, Waits
  <2> QED
    BY <2>1, <2>2
<1> QED
  BY <1>2, <1>3, <1>4 DEF ReloadInv

(* A reply of the server: a change is answered with the version it made, and *)
(* half of a load with the version there is.                                 *)
LEMMA Answered ==
  ASSUME ReloadInv, NEW c \in calls, NEW r \in {"ok", "denied", "error"}, NEW v \in Nat,
         Replied(c, r, v), version' \in Nat, version <= version', opened' \in Nat,
         r = "ok" /\ c.path = "change" => v <= version',
         r = "ok" /\ c.path \in LoadPaths => v = version,
         UNCHANGED <<cookie, step, told>>
  PROVE  ReloadInv'
<1> DEFINE a == [c EXCEPT !.reply = r, !.value = v]
<1>1. /\ c \in Call /\ a \in Call /\ a.by = c.by /\ a.path = c.path
      /\ a.reply = r /\ a.value = v
  BY DEF ReloadInv, Types, Call
<1>2. calls' = (calls \ {c}) \cup {a}
  BY DEF Replied
<1> HIDE DEF a
<1>3. Types'
  BY <1>1, <1>2 DEF ReloadInv, Types
<1>4. ToldPast'
  <2>1. \A t \in Task : told'[t] <= version'
    BY DEF ReloadInv, Types, ToldPast
  <2>2. \A d \in calls : d.value \in Nat
    BY DEF ReloadInv, Types, Call
  <2>3. \A d \in calls' : d.path = "change" /\ d.reply = "ok" => d.value <= version'
    BY <1>1, <1>2, <2>2 DEF ReloadInv, Types, ToldPast
  <2> QED
    BY <2>1, <2>3 DEF ToldPast
<1>5. Waits'
  <2>1. ASSUME NEW d \in calls', d.by \in Task, step[d.by] = "change"
        PROVE  d.path = "change" /\ \A e \in calls' : e.by = d.by => e = d
    BY <1>1, <1>2, <2>1 DEF ReloadInv, Waits
  <2>2. ASSUME NEW d \in calls', d.by \in Task, step[d.by] = "reload"
        PROVE  d.path \in LoadPaths /\ (d.reply = "ok" => d.value >= told[d.by])
    <3>1. CASE d = a
      <4>1. c.path \in LoadPaths /\ d.path \in LoadPaths
        BY <1>1, <2>2, <3>1 DEF ReloadInv, Waits
      <4>2. told[d.by] \in Nat /\ told[d.by] <= version /\ version \in Nat
        BY <2>2 DEF ReloadInv, Types, ToldPast
      <4> QED
        BY <1>1, <3>1, <4>1, <4>2
    <3>2. CASE d \in calls
      BY <2>2, <3>2 DEF ReloadInv, Waits
    <3> QED
      BY <1>2, <3>1, <3>2
  <2> QED
    BY <2>1, <2>2 DEF Waits
<1> QED
  BY <1>3, <1>4, <1>5 DEF ReloadInv

LEMMA ServeKeeps ==
  ASSUME ReloadInv, NEW c \in calls, Serve(c)
  PROVE  ReloadInv'
<1>1. version \in Nat /\ opened \in Nat /\ version + 1 \in Nat /\ opened + 1 \in Nat
  BY DEF ReloadInv, Types
<1>2. UNCHANGED <<cookie, step, told>>
  BY DEF Serve
<1>3. CASE Replied(c, "ok", opened + 1) /\ c.path \in {"login", "setup"} /\ opened' = opened + 1
           /\ UNCHANGED version
  BY <1>1, <1>2, <1>3, Answered DEF LoadPaths
<1>4. CASE /\ Replied(c, "ok", IF ~registered THEN 2 ELSE IF c.cookie \in sessions THEN 1 ELSE 0)
           /\ c.path = "status" /\ UNCHANGED server
  BY <1>1, <1>2, <1>4, Answered DEF LoadPaths, server
<1>5. CASE (Replied(c, "denied", 0) \/ Replied(c, "error", 0)) /\ UNCHANGED server
  BY <1>1, <1>2, <1>5, Answered DEF server
<1>6. CASE Replied(c, "ok", 0) /\ c.path = "logout" /\ UNCHANGED <<version, opened>>
  BY <1>1, <1>2, <1>6, Answered DEF LoadPaths
<1>7. CASE Replied(c, "ok", version + 1) /\ c.path = "change" /\ version' = version + 1
           /\ UNCHANGED opened
  BY <1>1, <1>2, <1>7, Answered DEF LoadPaths
<1>8. CASE Replied(c, "ok", version) /\ c.path \in LoadPaths \cup {"refresh"}
           /\ UNCHANGED server
  BY <1>1, <1>2, <1>8, Answered DEF server
<1> QED
  BY <1>3, <1>4, <1>5, <1>6, <1>7, <1>8 DEF Serve

(* A new handler has no calls but its own.                                   *)
LEMMA BeginKeeps ==
  ASSUME ReloadInv, NEW t \in Task, NEW paths \in SUBSET Path, NEW p \in Step, p # "reload",
         p = "change" => paths = {"change"},
         Free(t), step' = [step EXCEPT ![t] = p],
         calls' = calls \cup Sent(t, paths, cookie),
         UNCHANGED <<server, cookie, told>>
  PROVE  ReloadInv'
<1>1. /\ Sent(t, paths, cookie) \subseteq Call
      /\ \A d \in Sent(t, paths, cookie) : d.by = t /\ d.reply = "none" /\ d.path \in paths
  BY SentCalls DEF ReloadInv, Types, Caller
<1>2. p = "change" => \A d, e \in Sent(t, paths, cookie) : d = e
  BY DEF Sent
<1>3. \A d \in calls : d.by # t
  BY DEF Free, CallsOf
<1>4. UNCHANGED <<version, opened, cookie, told>>
  BY DEF server
<1>5. Types' /\ ToldPast'
  BY <1>1, <1>3, <1>4 DEF ReloadInv, Types, ToldPast
<1>6. Waits'
  <2> SUFFICES ASSUME NEW d \in calls', d.by \in Task
               PROVE  /\ step'[d.by] = "change" =>
                           d.path = "change" /\ \A e \in calls' : e.by = d.by => e = d
                      /\ step'[d.by] = "reload" =>
                           d.path \in LoadPaths /\ (d.reply = "ok" => d.value >= told'[d.by])
    BY DEF Waits
  <2>1. CASE d.by = t
    BY <1>1, <1>2, <1>3, <1>4, <2>1 DEF ReloadInv, Types
  <2>2. CASE d.by # t
    <3>1. d \in calls /\ \A e \in calls' : e.by = d.by => e \in calls
      BY <1>1, <1>3, <2>2
    <3>2. step'[d.by] = step[d.by] /\ told'[d.by] = told[d.by]
      BY <1>4, <2>2 DEF ReloadInv, Types
    <3> QED
      BY <3>1, <3>2 DEF ReloadInv, Waits
  <2> QED
    BY <2>1, <2>2
<1> QED
  BY <1>5, <1>6 DEF ReloadInv

(* The change is over: its only call came back, and the reload is sent.      *)
LEMMA ChangedKeeps ==
  ASSUME ReloadInv, NEW c \in calls, Changed(c)
  PROVE  ReloadInv'
<1> DEFINE t == c.by
           more == Sent(t, LoadPaths, cookie)
<1>1. /\ t \in Task /\ step[t] = "change" /\ c.path = "change" /\ c.reply = "ok"
      /\ \A e \in calls : e.by = t => e = c
  BY DEF Changed, Awaited, ReloadInv, Waits
<1>2. c.value \in Nat /\ c.value <= version
  BY <1>1 DEF ReloadInv, Types, ToldPast, Call
<1>3. /\ more \subseteq Call
      /\ \A d \in more : d.by = t /\ d.reply = "none" /\ d.path \in LoadPaths
  BY <1>1, SentCalls DEF ReloadInv, Types, Caller, Path
<1>4. /\ calls' = (calls \ {c}) \cup more
      /\ step' = [step EXCEPT ![t] = "reload"] /\ told' = [told EXCEPT ![t] = c.value]
      /\ UNCHANGED <<version, opened, cookie>>
  BY DEF Changed, Back, server
<1> HIDE DEF more
<1>5. Types'
  BY <1>1, <1>2, <1>3, <1>4 DEF ReloadInv, Types, Step
<1>6. ToldPast'
  BY <1>1, <1>2, <1>3, <1>4 DEF ReloadInv, Types, ToldPast
<1>7. Waits'
  <2> SUFFICES ASSUME NEW d \in calls', d.by \in Task
               PROVE  /\ step'[d.by] = "change" =>
                           d.path = "change" /\ \A e \in calls' : e.by = d.by => e = d
                      /\ step'[d.by] = "reload" =>
                           d.path \in LoadPaths /\ (d.reply = "ok" => d.value >= told'[d.by])
    BY DEF Waits
  <2>1. CASE d.by = t
    <3>1. d \in more /\ step'[d.by] = "reload"
      BY <1>1, <1>4, <2>1 DEF ReloadInv, Types
    <3> QED
      BY <1>3, <3>1
  <2>2. CASE d.by # t
    <3>1. d \in calls /\ \A e \in calls' : e.by = d.by => e \in calls
      BY <1>3, <1>4, <2>2
    <3>2. step'[d.by] = step[d.by] /\ told'[d.by] = told[d.by]
      BY <1>4, <2>2 DEF ReloadInv, Types
    <3> QED
      BY <3>1, <3>2 DEF ReloadInv, Waits
  <2> QED
    BY <2>1, <2>2
<1> QED
  BY <1>5, <1>6, <1>7 DEF ReloadInv

(* Steps that change no handler and only take calls away or send a poll.     *)
LEMMA OthersKeep ==
  ASSUME ReloadInv,
         \A c \in calls' : c \in calls \/ (c \in Call /\ c.by = Poll /\ c.reply = "none"),
         version' \in Nat, version <= version', opened' = opened, cookie' = cookie,
         step' = step, told' = told
  PROVE  ReloadInv'
<1>1. Types'
  BY DEF ReloadInv, Types
<1>2. ToldPast'
  <2>1. \A t \in Task : told[t] <= version'
    BY DEF ReloadInv, Types, ToldPast
  <2>2. \A c \in calls : c.value \in Nat
    BY DEF ReloadInv, Types, Call
  <2>3. \A c \in calls' : c.path = "change" /\ c.reply = "ok" => c.value <= version'
    BY <2>2 DEF ReloadInv, Types, ToldPast
  <2> QED
    BY <2>1, <2>3 DEF ToldPast
<1>3. Waits'
  BY DashboardAssumption DEF ReloadInv, Waits
<1> QED
  BY <1>1, <1>2, <1>3 DEF ReloadInv

LEMMA ReturnKeeps ==
  ASSUME ReloadInv, NEW c \in calls, Return(c)
  PROVE  ReloadInv'
<1>1. version \in Nat /\ cookie \in Nat /\ c \in Call /\ c.by \in Caller /\ c.value \in Nat
  BY DEF ReloadInv, Types, Call
<1>2. \A d \in {} : d.by = c.by /\ d.reply = "none"
  OBVIOUS
<1>3. {"idle", "start", "bootload"} \subseteq Step \ {"change", "reload"}
  BY DEF Step
<1>4. CASE Denied(c)
  BY <1>1, <1>2, <1>3, <1>4, MovesOn DEF Denied, server
<1>5. CASE Failed(c)
  BY <1>1, <1>2, <1>3, <1>5, MovesOn DEF Failed, server
<1>6. CASE Ignored(c) \/ Polled(c)
  <2>1. calls' \subseteq calls
    BY <1>6 DEF Ignored, Polled, Back
  <2>2. UNCHANGED <<version, opened, cookie, step, told>>
    BY <1>6 DEF Ignored, Polled, server
  <2> QED
    BY <1>1, <2>1, <2>2, OthersKeep
<1>7. ASSUME NEW k \in Nat, c.by \in Task
      PROVE  /\ Sent(c.by, LoadPaths, k) \subseteq Call
             /\ \A d \in Sent(c.by, LoadPaths, k) : d.by = c.by /\ d.reply = "none"
  BY <1>1, <1>7, SentCalls DEF Path
<1>8. CASE Status(c)
  <2>1. c.by \in Task /\ version' = version /\ opened' = opened /\ cookie' \in Nat
    BY <1>1, <1>8 DEF Status, Awaited, server
  <2>2. CASE c.value = 1
    <3>1. Back(c, Sent(c.by, LoadPaths, cookie)) /\ Goes(c, "bootload")
      BY <1>8, <2>2 DEF Status
    <3> QED
      BY <1>1, <1>3, <1>7, <2>1, <3>1, MovesOn
  <2>3. CASE c.value # 1
    <3>1. Back(c, {}) /\ Goes(c, "idle")
      BY <1>8, <2>3 DEF Status
    <3> QED
      BY <1>2, <1>3, <2>1, <3>1, MovesOn
  <2> QED
    BY <2>2, <2>3
<1>9. CASE LoggedIn(c)
  <2>1. c.by \in Task /\ version' = version /\ opened' = opened /\ cookie' \in Nat
    BY <1>1, <1>9 DEF LoggedIn, Awaited, server
  <2>2. Back(c, Sent(c.by, LoadPaths, c.value)) /\ Goes(c, "start")
    BY <1>9 DEF LoggedIn
  <2> QED
    BY <1>1, <1>3, <1>7, <2>1, <2>2, MovesOn
<1>10. CASE SetUp(c) \/ LoggedOut(c) \/ Refreshing(c)
  <2>1. Back(c, {}) /\ Goes(c, "idle")
    BY <1>10 DEF SetUp, LoggedOut, Refreshing
  <2>2. version' = version /\ opened' = opened /\ cookie' \in Nat
    BY <1>1, <1>10 DEF SetUp, LoggedOut, Refreshing, server
  <2> QED
    BY <1>2, <1>3, <2>1, <2>2, MovesOn
<1>11. CASE Changed(c)
  BY <1>11, ChangedKeeps
<1> QED
  BY <1>4, <1>5, <1>6, <1>8, <1>9, <1>10, <1>11 DEF Return

LEMMA LoadedKeeps ==
  ASSUME ReloadInv, NEW t \in Task, Loaded(t)
  PROVE  ReloadInv'
<1> PICK o \in CallsOf(t), s \in CallsOf(t) : start(t, o, s) \/ refresh(t, o, s)
  BY DEF Loaded
<1>1. /\ CallsOf(t) = {o, s} /\ calls' = calls \ {o, s}
      /\ step' = [step EXCEPT ![t] = "idle"]
      /\ told' \in {told, [told EXCEPT ![t] = 0]}
      /\ UNCHANGED <<version, opened, cookie>>
  BY DEF start, refresh, load, server
<1>2. \A d \in calls' : d.by # t /\ d \in calls
  BY <1>1 DEF CallsOf
<1>3. Types' /\ ToldPast'
  BY <1>1 DEF ReloadInv, Types, ToldPast, Step
<1>4. Waits'
  BY <1>1, <1>2 DEF ReloadInv, Types, Waits
<1> QED
  BY <1>3, <1>4 DEF ReloadInv

LEMMA ReloadInvStep == ReloadInv /\ [Next]_vars => ReloadInv'
<1> SUFFICES ASSUME ReloadInv, [Next]_vars PROVE ReloadInv'
  OBVIOUS
<1>1. version \in Nat /\ cookie \in Nat
  BY DEF ReloadInv, Types
<1>2. CASE Elsewhere
  <2>1. /\ version' \in Nat /\ version <= version'
        /\ UNCHANGED <<opened, cookie, calls, step, told>>
    BY <1>1, <1>2 DEF Elsewhere
  <2> QED
    BY <2>1, OthersKeep
<1>3. CASE PollStart
  <2>1. /\ Sent(Poll, {"overview"}, cookie) \subseteq Call
        /\ \A d \in Sent(Poll, {"overview"}, cookie) : d.by = Poll /\ d.reply = "none"
    BY <1>1, SentCalls DEF Caller, Path, LoadPaths
  <2>2. /\ calls' = calls \cup Sent(Poll, {"overview"}, cookie)
        /\ UNCHANGED <<version, opened, cookie, step, told>>
    BY <1>3 DEF PollStart, server
  <2> QED
    BY <1>1, <2>1, <2>2, OthersKeep
<1>4. ASSUME NEW b \in Caller, Progress(b) PROVE ReloadInv'
  <2>1. CASE b \in Task /\ Loaded(b)
    BY <2>1, LoadedKeeps
  <2>2. ASSUME NEW c \in calls, Break(c) PROVE ReloadInv'
    BY <1>1, <2>2, Answered DEF Break, server, ReloadInv, Types
  <2>3. ASSUME NEW c \in calls, Serve(c) PROVE ReloadInv'
    BY <2>3, ServeKeeps
  <2>4. ASSUME NEW c \in calls, Return(c) PROVE ReloadInv'
    BY <2>4, ReturnKeeps
  <2> QED
    BY <1>4, <2>1, <2>2, <2>3, <2>4 DEF Progress, CallsOf
<1>5. ASSUME NEW t \in Task,
             \/ Boot(t) \/ Setup(t) \/ FinishSetup(t) \/ Login(t) \/ Logout(t)
             \/ Change(t) \/ RefreshLists(t)
      PROVE  ReloadInv'
  <2>1. ASSUME NEW p \in {"status", "setup", "login", "logout", "change", "refresh"}, Begin(t, p)
        PROVE  ReloadInv'
    <3>1. p \in Step /\ p # "reload" /\ {p} \in SUBSET Path /\ (p = "change" => {p} = {"change"})
      BY DEF Path, Step
    <3>2. /\ Free(t) /\ step' = [step EXCEPT ![t] = p]
          /\ calls' = calls \cup Sent(t, {p}, cookie)
          /\ UNCHANGED <<server, cookie, told>>
      BY <2>1 DEF Begin
    <3> QED
      BY <3>1, <3>2, BeginKeeps
  <2>2. CASE FinishSetup(t)
    <3>1. "start" \in Step /\ LoadPaths \in SUBSET Path
      BY DEF Path, Step
    <3>2. /\ Free(t) /\ step' = [step EXCEPT ![t] = "start"]
          /\ calls' = calls \cup Sent(t, LoadPaths, cookie)
          /\ UNCHANGED <<server, cookie, told>>
      BY <2>2 DEF FinishSetup
    <3> QED
      BY <3>1, <3>2, BeginKeeps
  <2> QED
    BY <1>5, <2>1, <2>2 DEF Boot, Setup, Login, Logout, Change, RefreshLists
<1>6. CASE UNCHANGED vars \/ SetupAccount \/ SetupBack \/ Navigate \/ Filter \/ Focus
  BY <1>6 DEF vars, SetupAccount, SetupBack, Navigate, Filter, Focus, server, ReloadInv, Types,
    ToldPast, Waits
<1> QED
  BY <1>2, <1>3, <1>4, <1>5, <1>6 DEF Next

(* A handler's reload never shows less than its own change.                  *)
THEOREM OwnChangeShown == Spec => ShowsOwnChange
<1>1. ASSUME ReloadInv, NEW t \in Task, step[t] = "reload", Loaded(t)
      PROVE  overview' >= told[t] /\ settings' >= told[t]
  <2>1. PICK o \in CallsOf(t), s \in CallsOf(t) : refresh(t, o, s)
    BY <1>1 DEF Loaded, start
  <2>2. /\ o \in calls /\ s \in calls /\ o.by = t /\ s.by = t
        /\ o.reply = "ok" /\ s.reply = "ok"
        /\ overview' = o.value /\ settings' = s.value
    BY <2>1 DEF refresh, load, CallsOf
  <2> QED
    BY <1>1, <2>2 DEF ReloadInv, Waits
<1>2. ReloadInv /\ [Next]_vars =>
        [\A t \in Task : step[t] = "reload" /\ Loaded(t) =>
           overview' >= told[t] /\ settings' >= told[t]]_vars
  BY <1>1
<1> QED
  BY <1>2, ReloadInvInit, ReloadInvStep, PTL DEF Spec, ShowsOwnChange
=============================================================================
