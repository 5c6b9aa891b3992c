------------------------------ MODULE Dashboard ------------------------------
(***************************************************************************)
(* One browser tab of the dashboard (app.js) against the server. Every     *)
(* await of api() is a gap in which other handlers run: the poll, clicks   *)
(* whose buttons differ, replies in any order. A handler in progress is a  *)
(* task; the poll is one more caller. What happens from one await to the   *)
(* next is one step, since JavaScript does not interrupt it.               *)
(*                                                                         *)
(* The server's state is a version that every change increments; overview  *)
(* and settings stand for the version they were read at, and a drawn page  *)
(* for the overview it was drawn with. Until a first setup there is nobody *)
(* to sign in as.                                                          *)
(***************************************************************************)
EXTENDS Naturals, FiniteSets

CONSTANTS
  Task,        \* bound: handlers at a time
  Signing,     \* bound: those of them that only boot and sign in
  Poll,        \* the callback of setInterval
  NoTask,      \* nobody has pressed the button
  NoData,      \* null, or no page
  MaxVersion,  \* bound: changes of the server's state
  MaxSession,  \* bound: sessions opened
  Flaky        \* bound: the requests of a handler that may end in an error

(* The overview and the lists, which a poll draws again; the query log, of   *)
(* which it replaces the results; the rules and the settings.                *)
Page == {"live", "queries", "still"}

LoadPaths == {"overview", "settings"}
Path == LoadPaths \cup {"status", "setup", "login", "logout", "change", "refresh"}

ASSUME DashboardAssumption ==
  /\ Poll \notin Task /\ NoTask \notin Task /\ Signing \subseteq Task
  /\ NoData \notin Nat
  /\ MaxVersion \in Nat /\ MaxSession \in Nat \ {0}
  /\ Flaky \subseteq Path

VARIABLES
  version, sessions, opened,  \* the server: sessions are numbered
  registered, \* the server has an administrator password
  cookie,     \* the tab's quietdns_session, 0 without one
  calls,      \* the requests of api() that have not come back
  step,       \* step[t]: the await the task is at
  told,       \* history: told[t], the version of the change the task was told of
  screen,     \* the frame that shell(), login() or authFrame() drew last
  main,       \* the overview the page in #main was drawn with, or NoData: the
              \* element has the content of the frame
  page,       \* which page renderPage() draws
  focused,    \* an input, select or button has the focus
  pressed,    \* the task that disabled the button of the frame (busy)
  overview, settings,
  intervals,  \* intervals that run; timer is the last one
  polling

server == <<version, sessions, opened, registered>>
view == <<screen, main, page, focused>>
tab == <<view, pressed, overview, settings, intervals, polling>>
vars == <<server, cookie, calls, step, told, tab>>

Caller == Task \cup {Poll}
Step == {"idle", "status", "bootload", "setup", "login", "start", "logout", "change", "reload",
         "refresh"}
Call == [by : Caller, path : Path, cookie : Nat, reply : {"none", "ok", "denied", "error"}, value : Nat]
CallsOf(b) == {c \in calls : c.by = b}

Sent(b, paths, k) ==
  {[by |-> b, path |-> p, cookie |-> k, reply |-> "none", value |-> 0] : p \in paths}

(* The browser loads the page, maybe with the cookie of an earlier session.  *)
Init ==
  /\ version = 0 /\ opened \in {0, 1} /\ sessions = 1..opened
  /\ registered \in {TRUE, opened = 1}
  /\ cookie \in {0, opened} /\ calls = {}
  /\ step = [t \in Task |-> "idle"] /\ told = [t \in Task |-> 0]
  /\ screen = "loading" /\ main = NoData /\ pressed = NoTask
  /\ page = "live" /\ focused = FALSE
  /\ overview = NoData /\ settings = NoData
  /\ intervals = 0 /\ polling = FALSE

-----------------------------------------------------------------------------
(* The server.                                                               *)
Replied(c, reply, value) ==
  calls' = (calls \ {c}) \cup {[c EXCEPT !.reply = reply, !.value = value]}

Serve(c) ==
  /\ c.reply = "none"
  /\ \/ /\ \/ c.path = "login" /\ registered
           \/ c.path = "setup" /\ ~registered
        /\ opened < MaxSession
        /\ opened' = opened + 1 /\ sessions' = sessions \cup {opened + 1}
        /\ registered' = TRUE
        /\ Replied(c, "ok", opened + 1) /\ UNCHANGED version
     \/ /\ c.path = "setup" /\ registered
        /\ Replied(c, "error", 0) /\ UNCHANGED server
     \/ /\ c.path = "status"
        /\ Replied(c, "ok", IF ~registered THEN 2 ELSE IF c.cookie \in sessions THEN 1 ELSE 0)
        /\ UNCHANGED server
     \/ /\ c.path \notin {"setup", "login", "status"} /\ c.cookie \notin sessions
        /\ Replied(c, "denied", 0) /\ UNCHANGED server
     \/ /\ c.path = "logout" /\ c.cookie \in sessions
        /\ sessions' = sessions \ {c.cookie}
        /\ Replied(c, "ok", 0) /\ UNCHANGED <<version, opened, registered>>
     \/ /\ c.path = "change" /\ c.cookie \in sessions /\ version < MaxVersion
        /\ version' = version + 1
        /\ Replied(c, "ok", version + 1) /\ UNCHANGED <<sessions, opened, registered>>
     \/ /\ c.path \in LoadPaths \cup {"refresh"} /\ c.cookie \in sessions
        /\ Replied(c, "ok", version) /\ UNCHANGED server
  /\ UNCHANGED <<cookie, step, told, tab>>

(* No connection, an unreadable reply or an error of the route.              *)
Break(c) ==
  /\ c.reply = "none"
  /\ \/ c.by = Poll \/ c.path \in Flaky
     \/ c.path = "login" /\ opened = MaxSession
     \/ c.path = "change" /\ version = MaxVersion
  /\ Replied(c, "error", 0)
  /\ UNCHANGED <<server, cookie, step, told, tab>>

(* Another administrator, the clock or a restart; or this tab's own request, *)
(* whose reply is then lost.                                                 *)
Elsewhere ==
  /\ \/ version < MaxVersion /\ version' = version + 1 /\ UNCHANGED <<sessions, registered>>
     \/ \E k \in sessions : sessions' = sessions \ {k} /\ UNCHANGED <<version, registered>>
     \/ ~registered /\ registered' = TRUE /\ UNCHANGED <<version, sessions>>
  /\ UNCHANGED <<opened, cookie, calls, step, told, tab>>

-----------------------------------------------------------------------------
(* What the frames and pages do to the tab. An element that is replaced      *)
(* loses the focus. The clearInterval of timer stops the one that runs.      *)
Cleared == IF intervals = 0 THEN 0 ELSE intervals - 1

Frame(name) ==
  /\ screen' = name /\ main' = NoData /\ pressed' = NoTask /\ focused' = FALSE
  /\ UNCHANGED page

login == Frame("login") /\ intervals' = Cleared

(* #main is there in every frame, the results of the query log on its page.  *)
renderPage == main' = overview'
renderQueries == main' = IF main = NoData THEN NoData ELSE overview'

shell == screen' = "shell" /\ renderPage /\ pressed' = NoTask /\ focused' = FALSE

(* Mutant: a dashboard that is drawn again leaves the old interval running. *)
setTimer_Keeps == intervals' = intervals + 1

setTimer == intervals' = Cleared + 1

(* busy() enables its own button again.                                      *)
Released(t) == IF pressed = t THEN NoTask ELSE pressed

-----------------------------------------------------------------------------
(* The user.                                                                 *)
Free(t) == step[t] = "idle" /\ CallsOf(t) = {}

Begin(t, path) ==
  /\ Free(t) /\ (t \in Signing => path \in {"status", "login"})
  /\ step' = [step EXCEPT ![t] = path]
  /\ calls' = calls \cup Sent(t, {path}, cookie)
  /\ UNCHANGED <<server, cookie, told, view, overview, settings, intervals, polling>>

(* boot(), once when the page is loaded and at every click on "Try again".   *)
Boot(t) ==
  /\ \/ screen = "loading" /\ \A u \in Task : step[u] = "idle"
     \/ screen = "retry" /\ main = NoData
  /\ Begin(t, "status") /\ UNCHANGED pressed

(* The steps of setup(): the first asks the server nothing, and "Back" is    *)
(* not disabled while the second waits.                                      *)
SetupAccount ==
  /\ screen = "account" /\ main = NoData
  /\ Frame("protection")
  /\ UNCHANGED <<server, cookie, calls, step, told, overview, settings, intervals, polling>>

SetupBack ==
  /\ screen = "protection" /\ main = NoData
  /\ Frame("account")
  /\ UNCHANGED <<server, cookie, calls, step, told, overview, settings, intervals, polling>>

Setup(t) ==
  /\ screen = "protection" /\ main = NoData /\ pressed = NoTask
  /\ Begin(t, "setup") /\ pressed' = t

(* "Open my dashboard" calls start().                                        *)
FinishSetup(t) ==
  /\ screen = "ready" /\ main = NoData /\ pressed = NoTask /\ Free(t) /\ t \notin Signing
  /\ step' = [step EXCEPT ![t] = "start"]
  /\ calls' = calls \cup Sent(t, LoadPaths, cookie)
  /\ pressed' = t
  /\ UNCHANGED <<server, cookie, told, view, overview, settings, intervals, polling>>

(* The two buttons that busy() disables for the whole frame.                 *)
Login(t) ==
  /\ screen = "login" /\ main = NoData /\ pressed = NoTask
  /\ Begin(t, "login") /\ pressed' = t

Logout(t) ==
  /\ screen = "shell" /\ pressed = NoTask
  /\ Begin(t, "logout") /\ pressed' = t

(* A rule, a pause, a list, the settings or the history: each has a button   *)
(* of its own. They are on pages, and the check of the upstreams, which      *)
(* changes nothing, is left out.                                             *)
Change(t) == main # NoData /\ Begin(t, "change") /\ UNCHANGED pressed
RefreshLists(t) == main # NoData /\ Begin(t, "refresh") /\ UNCHANGED pressed

(* A link of the navigation, which the listener heeds in the dashboard only. *)
Navigate ==
  /\ screen = "shell"
  /\ page' \in Page /\ UNCHANGED overview /\ renderPage /\ focused' = FALSE
  /\ UNCHANGED <<server, cookie, calls, step, told, screen, pressed, settings, intervals,
                 polling>>

(* The tabs of the rules and the filters of the query log draw what the tab  *)
(* has.                                                                      *)
Filter ==
  /\ page # "live" /\ UNCHANGED overview /\ renderQueries
  /\ UNCHANGED <<server, cookie, calls, step, told, screen, page, focused, pressed,
                 settings, intervals, polling>>

(* The user enters or leaves a field or a button; other pages take no notice. *)
Focus ==
  /\ page = "live" /\ focused' = ~focused
  /\ UNCHANGED <<server, cookie, calls, step, told, screen, main, page, pressed, overview,
                 settings, intervals, polling>>

-----------------------------------------------------------------------------
(* The replies, as api() and the handlers that await it take them.           *)
Back(c, more) == calls' = (calls \ {c}) \cup more
Goes(c, where) ==
  /\ step' = IF c.by \in Task THEN [step EXCEPT ![c.by] = where] ELSE step
  /\ told' = IF c.by \in Task THEN [told EXCEPT ![c.by] = 0] ELSE told
Awaited(c, where) == c \in calls /\ c.reply = "ok" /\ c.by \in Task /\ step[c.by] = where

(* 401: the form is drawn before the handler sees the error, whatever it was *)
(* waiting for; boot() draws its own frame over it.                          *)
Denied(c) ==
  /\ c.reply = "denied" /\ Back(c, {})
  /\ IF c.by \in Task /\ step[c.by] = "bootload" THEN Frame("retry") ELSE Frame("login")
  /\ intervals' = Cleared
  /\ Goes(c, "idle")
  /\ polling' = (polling /\ c.by # Poll)
  /\ UNCHANGED <<server, cookie, overview, settings>>

(* Any other error is shown and ends the handler.                            *)
Failed(c) ==
  /\ c.reply = "error" /\ Back(c, {})
  /\ IF c.by \in Task /\ step[c.by] \in {"status", "bootload"}
     THEN Frame("retry")
     ELSE pressed' = Released(c.by) /\ UNCHANGED view
  /\ Goes(c, "idle")
  /\ polling' = (polling /\ c.by # Poll)
  /\ UNCHANGED <<server, cookie, overview, settings, intervals>>

(* The other half of a load() that was given up.                             *)
Ignored(c) ==
  /\ Awaited(c, "idle") /\ Back(c, {})
  /\ UNCHANGED <<server, cookie, step, told, tab>>

Status(c) ==
  /\ Awaited(c, "status")
  /\ IF c.value = 1
     THEN /\ Back(c, Sent(c.by, LoadPaths, cookie)) /\ Goes(c, "bootload")
          /\ UNCHANGED <<view, pressed, intervals>>
     ELSE /\ Back(c, {}) /\ Goes(c, "idle")
          /\ IF c.value = 2 THEN Frame("account") /\ UNCHANGED intervals ELSE login
  /\ UNCHANGED <<server, cookie, overview, settings, polling>>

(* The last step of setup(), on whatever frame is in view.                   *)
SetUp(c) ==
  /\ Awaited(c, "setup")
  /\ cookie' = c.value
  /\ Back(c, {}) /\ Goes(c, "idle") /\ Frame("ready")
  /\ UNCHANGED <<server, overview, settings, intervals, polling>>

LoggedIn(c) ==
  /\ Awaited(c, "login")
  /\ cookie' = c.value
  /\ Back(c, Sent(c.by, LoadPaths, c.value)) /\ Goes(c, "start")
  /\ UNCHANGED <<server, tab>>

LoggedOut(c) ==
  /\ Awaited(c, "logout")
  /\ cookie' = 0
  /\ Back(c, {}) /\ Goes(c, "idle") /\ login
  /\ UNCHANGED <<server, overview, settings, polling>>

Changed(c) ==
  /\ Awaited(c, "change")
  /\ Back(c, Sent(c.by, LoadPaths, cookie))
  /\ step' = [step EXCEPT ![c.by] = "reload"]
  /\ told' = [told EXCEPT ![c.by] = c.value]
  /\ UNCHANGED <<server, cookie, tab>>

(* overview.updating is set and the page drawn; nothing is reloaded.         *)
Refreshing(c) ==
  /\ Awaited(c, "refresh") /\ Back(c, {}) /\ Goes(c, "idle")
  /\ UNCHANGED overview /\ renderPage
  /\ UNCHANGED <<server, cookie, screen, page, focused, pressed, settings, intervals, polling>>

(* Mutant: load() assigns the settings only. *)
load_SettingsOnly(t, o, s) ==
  /\ CallsOf(t) = {o, s} /\ o.path = "overview" /\ s.path = "settings"
  /\ o.reply = "ok" /\ s.reply = "ok"
  /\ settings' = s.value
  /\ overview' = IF overview = NoData THEN o.value ELSE overview
  /\ calls' = calls \ {o, s}

(* load(): both replies are there, and are assigned together.                *)
load(t, o, s) ==
  /\ CallsOf(t) = {o, s} /\ o.path = "overview" /\ s.path = "settings"
  /\ o.reply = "ok" /\ s.reply = "ok"
  /\ overview' = o.value /\ settings' = s.value
  /\ calls' = calls \ {o, s}

(* start() opens the page that the address of the tab names.                 *)
start(t, o, s) ==
  /\ step[t] \in {"start", "bootload"} /\ load(t, o, s)
  /\ step' = [step EXCEPT ![t] = "idle"]
  /\ page' \in Page /\ shell /\ setTimer
  /\ UNCHANGED <<server, cookie, told, polling>>

(* refresh() draws the page into #main, which every frame has.               *)
refresh(t, o, s) ==
  /\ step[t] = "reload" /\ load(t, o, s)
  /\ step' = [step EXCEPT ![t] = "idle"] /\ told' = [told EXCEPT ![t] = 0]
  /\ renderPage
  /\ UNCHANGED <<server, cookie, screen, page, focused, pressed, intervals, polling>>

(* The interval fires, and the tab is not hidden and its dialog not open.    *)
PollStart ==
  /\ intervals > 0 /\ ~polling
  /\ polling' = TRUE
  /\ calls' = calls \cup Sent(Poll, {"overview"}, cookie)
  /\ UNCHANGED <<server, cookie, step, told, view, pressed, overview, settings, intervals>>

(* Mutant: the results of the query log are taken for a part of its page. *)
Polled_SkipsQueries(c) ==
  /\ c.by = Poll /\ c.reply = "ok" /\ Back(c, {})
  /\ overview' = c.value /\ polling' = FALSE
  /\ IF page = "live" /\ ~focused THEN renderPage ELSE UNCHANGED main
  /\ UNCHANGED <<server, cookie, step, told, screen, page, focused, pressed, settings,
                 intervals>>

(* A page whose field or button has the focus is left alone; the results of  *)
(* the query log are not part of that.                                       *)
Polled(c) ==
  /\ c.by = Poll /\ c.reply = "ok" /\ Back(c, {})
  /\ overview' = c.value /\ polling' = FALSE
  /\ \/ page = "live" /\ ~focused /\ renderPage
     \/ page = "queries" /\ renderQueries
     \/ page = "live" /\ focused /\ UNCHANGED main
     \/ page = "still" /\ UNCHANGED main
  /\ UNCHANGED <<server, cookie, step, told, screen, page, focused, pressed, settings,
                 intervals>>

Return(c) ==
  \/ Denied(c) \/ Failed(c) \/ Ignored(c) \/ Status(c) \/ SetUp(c) \/ LoggedIn(c)
  \/ LoggedOut(c) \/ Changed(c) \/ Refreshing(c) \/ Polled(c)

Loaded(t) == \E o, s \in CallsOf(t) : start(t, o, s) \/ refresh(t, o, s)

(* What goes on without the user: the network and the server.                *)
Progress(b) ==
  \/ \E c \in CallsOf(b) : Serve(c) \/ Break(c) \/ Return(c)
  \/ b \in Task /\ Loaded(b)

Next ==
  \/ Elsewhere \/ PollStart \/ SetupAccount \/ SetupBack \/ Navigate \/ Filter \/ Focus
  \/ \E b \in Caller : Progress(b)
  \/ \E t \in Task :
       \/ Boot(t) \/ Setup(t) \/ FinishSetup(t) \/ Login(t) \/ Logout(t)
       \/ Change(t) \/ RefreshLists(t)

Spec == Init /\ [][Next]_vars

(* Somebody looks at the tab again when the interval fires, the poll comes   *)
(* back, be it with an error, and not every poll ends in an error.           *)
FairSpec ==
  /\ Spec
  /\ WF_vars(PollStart) /\ WF_vars(Progress(Poll))
  /\ SF_vars(\E c \in CallsOf(Poll) : Serve(c))

-----------------------------------------------------------------------------
TypeOK ==
  /\ version \in 0..MaxVersion /\ opened \in 0..MaxSession
  /\ sessions \subseteq 1..opened /\ cookie \in 0..opened /\ registered \in BOOLEAN
  /\ calls \subseteq Call
  /\ step \in [Task -> Step] /\ told \in [Task -> 0..version]
  /\ screen \in {"loading", "retry", "account", "protection", "ready", "login", "shell"}
  /\ main \in 0..version \cup {NoData} /\ page \in Page /\ focused \in BOOLEAN
  /\ pressed \in Task \cup {NoTask}
  /\ overview \in 0..version \cup {NoData} /\ settings \in 0..version \cup {NoData}
  /\ intervals \in Nat /\ polling \in BOOLEAN

(* A dashboard in view is polled, by one interval: whatever logins, expired  *)
(* sessions and reconnects went before it, and in whatever order their       *)
(* replies came, no interval is lost or left behind (start, login and api).  *)
ShellIsPolled ==
  /\ intervals <= 1
  /\ screen = "shell" => intervals = 1

(* A change that was answered is in what its handler then shows, however     *)
(* many polls, reloads and changes overlap with it (await in the handlers,   *)
(* Promise.all in load).                                                     *)
ShowsOwnChange ==
  [][\A t \in Task :
       step[t] = "reload" /\ Loaded(t) =>
         overview' >= told[t] /\ settings' >= told[t]]_vars

(* What the tab knows is the server's state, and the query log as it is      *)
(* drawn shows it. So do the overview and the lists, unless a field or       *)
(* button has the focus. The rules and the settings are drawn again by their *)
(* own handlers only.                                                        *)
Fresh == overview = version /\ (page = "still" \/ main = version \/ (page = "live" /\ focused))

(* A dashboard in view catches up with the server, whatever is clicked and   *)
(* answered beside the polls, and even when a reply computed earlier arrives *)
(* late (the interval of start, its redrawing and its finally).              *)
CatchesUp == screen = "shell" /\ ~Fresh ~> screen # "shell" \/ Fresh

(* "Sign out" leads to the "Welcome back." form (browser.mjs), and login()   *)
(* stops the interval so that nothing is drawn over it. Violated: a poll     *)
(* that is under way at the logout still draws its page.                     *)
SignedOutShowsForm == screen = "login" => main = NoData
=============================================================================
