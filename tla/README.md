# QuietDNS in TLA+

QuietDNS is a DNS blocker for a home network: one Go process that answers DNS over UDP and TCP, keeps its
configuration and query history in files, downloads blocklists, and serves an embedded dashboard with its HTTP API.
This directory models that process in TLA+, model-checks it with TLC, and proves with TLAPS what matters most.

Paths below are those of the repository's files; every definition that models code is listed with its lines in the
`map` of `PROJECT.json`.

## 1. The system

| Component | State | Operations | What makes it correct |
|---|---|---|---|
| Domain policy (`lists.go`, `store.go`) | none: pure | `canonical`, `validDomain`, `matches`, `parseList`, the two maps of `rebuildLocked`, the decision of `policy` | a list entry covers itself and its subdomains, however it is spelled; a bad or unreadable file is refused as a whole; an allow rule beats everything, a pause lifts every block |
| Atomic files (`store.go:97`) | one path, temporary files | `atomicWrite` | a reader, after a crash or a power loss too, finds a whole file that some caller wrote |
| Configuration store (`store.go`, routes of `api.go`, `reset-password` in `main.go`) | settings in memory and in `settings.json`, lists in memory and in files, the maps `blocked` and `allowed` | `newStore`, `change`, the six routes that call it, the password reset | what was acknowledged is durable; the maps always follow settings and lists; one rule per domain; a first setup cannot be overwritten |
| List refresh (`lists.go:39`) | `updating`, `refreshPending`, the goroutines | `refreshLists`, started by the timer, `POST /api/refresh`, setup and enabling a list | one refresher at a time; file and memory agree; a failed download loses nothing; a request is served |
| Query history (`store.go:144-169`) | queries and five-minute buckets, in memory and in `history.json` | `record`, `flush`, `clearHistory`, the opt-out, `newStore` | limits of number and age; the chart counts the list; an opt-out holds |
| Resolver (`dns.go`) | 128 slots, the locals of every query | `ServeDNS`, `resolve`, `POST /api/check` | every answer rests on decisions in force; failover is complete; no slot is lost; every query ends |
| Sessions and limiter (`api.go:47-58`, `79-100`) | session table, attempt window | `authAttempt`, setup, login, `authenticated`, logout | sessions match the password in force and end when they should; attempts are bounded |
| Lifecycle (`main.go:32-60`) | three servers, the goroutine of the timers, the signal's context, the deadline of the shutdown | start, signal, failure of a listener, snapshots, shutdown, last flush, exit | an orderly stop saves what was recorded, every stop ends, and in time; snapshots go on for as long as the process runs |
| Dashboard (`app.js`, `model.mjs`) | the last overview and settings, the poll timer, the frame and page in view, requests in flight | setup wizard, poll, mutate and reload, log in and out, the points of the chart | what is in view catches up with the server; a handler shows its own change; one interval per dashboard in view; the login form stays after a logout; no bucket counts in two points |
| HTTP envelope (`api.go:42-78`) | none | host, origin, content-type and body checks | each request on its own |
| Deployment (`install.sh`, `compose.yaml`, `Dockerfile`, workflows) | none at run time | | |

**How they interact.** All components of the Go process share one `Store` and its `RWMutex`. `change` holds the
write lock from the copy of the settings to their publication, with the write and rename of `settings.json` in
between; `record`, `flush` and `clearHistory` take the same lock, `policy`, `upstreams` and `snapshotSettings` its read
half. `refreshLists` takes the lock in short sections and downloads and writes outside it. The session table has a
mutex of its own. Resolver goroutines call `policy` and `upstreams` several times for one query, and `record` at its
end. Routes call `change` and then, some of them, a second operation: `clearHistory`, a refresh, a new session. The
dashboard polls `overview` and reloads everything after each mutation. `run` starts the servers and the timers, and
ends them in a fixed order: web, UDP, TCP, timers, last flush.

**What is hard.** A query spans seconds and several reads of a configuration that changes (`dns.go:19-27`); queries
are stamped before they wait for the lock and recorded out of order (`dns.go:43`); file writes and publications are
separate steps and the process may die between them (`store.go:130-131`, `lists.go:54-56`); an opt-out is two critical
sections (`api.go:107-108`); a refresh asked for during another is only a note (`lists.go:40-41`); a login reads the
password long before it opens a session (`api.go:95`); limits evict, wipe or refuse; a shutdown shares one deadline
among servers that may hang, or may not have started yet (`main.go:55-56`). Section `hazards` of
`PROJECT.json` lists these at their lines with the properties that cover them.

## 2. The modules

| Module | Models | Proofs |
|---|---|---|
| `DomainPolicy` | `canonical`, `validDomain`, `matches`, `parseList`, `rebuildLocked`, `policy` as operators on names (sequences of labels) | `PurePartsProofs` |
| `AtomicRegister` | abstract: what `atomicWrite` promises | |
| `AtomicFile` | `atomicWrite`, one action per system call, several callers, failures, process death and power loss | `AtomicFileProofs` |
| `DurableCell` | abstract: a value in memory and on disk | |
| `Store` (extends `DomainPolicy`) | `newStore`, `change`, every route that calls it, crash, reset | `StoreProofs` |
| `ListRefresh` (extends `Store`) | `refreshLists` beside all of `Store` | `StoreProofs` |
| `QueryHistory` | `record`, `pruneLocked`, `flush`, `clearHistory`, opt-out and opt-in | `QueryHistoryProofs` |
| `Resolver` (extends `DomainPolicy`) | `ServeDNS`, `resolve`, `POST /api/check` over a changing configuration | `ResolverProofs` |
| `AdminSession` | setup, login, logout, authentication, the limiter | `AdminSessionProofs` |
| `Lifecycle` | `run()` of `main.go` beside its servers and its timer, up to the last write | `LifecycleProofs` |
| `Dashboard` | one browser tab: the handlers of `app.js`, the poll and `api()` against a server reduced to a version, its sessions and whether it is set up | `DashboardProofs` |
| `Chart` | the buckets `overview` selects and the points `chartPoints` makes of them, as operators | `PurePartsProofs` |
| `PureParts` (extends `DomainPolicy` and `Chart`) | their inputs, one list file, rule, pause, query or sequence of buckets at a time, as states, and what the operators owe for each | `PurePartsProofs` |
| `MCPureParts`, `MCStore`, `MCListRefresh`, `MCResolver`, `MCAdminSession` | finite constants for TLC | |

### How the models correspond to the code

*Steps.* A critical section of a mutex is one step, except where it writes a file: `change` is `Persist` (copy,
closure, validation, write and rename) and `Publish` (assignment, rebuild, unlock), and everyone else who needs the
lock waits for `MutexFree`. In `QueryHistory`, where no reader looks between the two, such a section is one step and
`Crash` may cut it after the write; `AdminSession` does the same with the password. A failed validation or a failed
write changes nothing and is no step in `Store`, and a nondeterministic outcome in the others.

*Names* are sequences of labels. The root dot is a trailing empty label, `lower` is a function on labels, and the
tests on characters and lengths in `validDomain` are membership in `BadLabel` and `LongName`. A list file is a set of
lines; `LongLine` is one over the 1 MiB of the scanner's buffer, which makes `scanner.Err` refuse the file
(`lists.go:28`, `34`).

*Settings.* `rules` is the sequence the code keeps; `sources` is a set, since the order of the list ids only orders
the downloads. Names and upstream lists are members of small sets with a subset that `validateSettings` accepts. The
clock starts at 1, so that 0 is a pause in the past, as the zero `time.Time` is. `Logging` is in `QueryHistory`, not
in `Store`.

*Two processes.* `reset-password` is modelled as the documentation has it run (`README.md:84-86`), while the server is
down. `AtomicFile` allows overlapping writers of one path all the same.

*Refresh.* A route that starts a refresh names its goroutine when it persists (`AskingRoute`) and the goroutine starts
at the publication. `ScheduledRefresh` stands for the refresh at the start and the daily ticker, which may fire at any
time. `due` is a history variable for one liveness property.

*History.* `pending[h]` is the time stamp that `ServeDNS` takes before `record` waits for the lock; `MaxLag` is how
long that may last. The latency and the blocked and error counts of a bucket follow the total and are left out.
`acked`, `refused` and `evicted` are history variables, and `before` marks queries older than an opt-out. For the
history an orderly shutdown is `Flush` followed by `Crash`; its order is the matter of `Lifecycle`. The clock does not
step back.

*Lifecycle.* `pc` is where `run()` is, `stage` the server it shuts down, `cancelled` the context of `NotifyContext`,
which a signal and `stop()` cancel. `at[h]` is the server whose request a goroutine handles. The history is the number
of queries recorded in memory and on disk: what is in it is `QueryHistory`. How `net/http` and `miekg/dns` shut down
is external and modelled from what `run()` relies on: a web server ends its `Serve` at once and its `Shutdown` returns
when no request is left; a DNS server ends after its handlers, and one that has not started yet refuses the shutdown
and starts all the same (`Close`). `clock` counts the seconds of a shutdown; the waits and the writes take time, and
the writes at most `DiskTime`. `Exit` is the return of `main`, `Crash` any other death; the next process finds the
disk. `clean` is a history variable.

*Chart.* A bucket is a record of a time and two counts; server and browser have a clock each. What `filter` selects of
the buckets is the set of their positions, whose counts are then added. The points are counted from 1.

*Resolver.* `config` is what `Store` publishes in one critical section, or what changes when a pause runs out; that
its maps belong together is `PolicyFollowsConfig`, which `Store` states and the refreshes of `ListRefresh` keep. One
action per read of the store and per exchange with an upstream. `seen[h]` is a history variable: the configurations in
force since the query arrived.

*Sessions.* A password stands for its owner; a token is never drawn twice. The expiry is read and entered in one step.
`openedBy`, `promised` and `tried` are history variables; unlike the limiter, which is memory of the process
(`main.go:39`, `api.go:34-35`), `tried` outlives a restart and says for each attempt which process let it through.

*Dashboard.* A handler in progress is a task, `step[t]` the `await` it is at, and everything up to the next `await` is
one step. A request of `api()` is a record in `calls` until its reply is taken, so replies arrive in any order and
after logouts, and a `Promise.all` that one error ended still has its other half in flight (`Ignored`). The server is
`version`, which every change increments, and its sessions; `overview` and `settings` are the versions they were read
at. `main` is what is drawn: the overview the page in `#main` was made of, or `NoData` when it has the content of its
frame; `renderPage` draws into it whatever the frame is (`app.js:55`, `59`). Of the five pages a poll redraws the
overview and the lists unless an input, a select or a button has the focus, in the query log the results in any case,
and the rules and the settings never (`app.js:58`): `page` tells these three classes apart, and `focused` is the
focus, which the user moves as he likes (`Focus`) and loses when the frame or the page changes (`Navigate`). `Filter`
draws the results of the query log or the rules again from what the tab has (`app.js:73`, `98-99`). `Signing` is a
bound of the run: handlers that only boot and sign in. `document.hidden` and an open dialog only delay `PollStart`.
`Begin` asks for a task without requests in flight, and every change has a button of its own, so a task is a bound on
what overlaps and not a rule of the code; logging in and out, "Create my network" and "Open my dashboard" have one
button per frame (`pressed`). The first step of the wizard and its "Back" ask the server nothing and are not disabled
while the second step's request is under way (`SetupAccount`, `SetupBack`), and `setup()` draws its last step over
whatever is in view (`SetUp`). Loading the page again is a new tab. `told` is a history variable.

### Not modelled

Message sizes, EDNS and truncation of the reply to the client (`dns.go:39`); the texts and status words of answers and
errors; the status lines of the sources (`sourceStatus`); of `overview`, which only reads, all but the selection and
the sums of the buckets; the health check (`main.go:19-29`), which sends two requests and keeps nothing; the HTTP
envelope, each of whose checks is a function of one request; of the dashboard the check of the upstreams, which
changes nothing, the contents and formats of the pages and the text of a filter (`filterQueries`, `percent` and
`escapeHTML` work on one value), markup and styles; `browser.mjs`, `model.test.mjs` and `core_test.go`, which are
tests; the installer, the container files and the workflows, of which only the grace period of `compose.yaml:21` is a
constant of `Lifecycle`.

## 3. The runs

| Run | Configuration | States | What it shows |
|---|---|---|---|
| `pure_parts` | names of up to 3 of 5 labels, list files of up to 2 lines, one too long among them, up to 2 rules over 3 domains, every pause; 2 buckets at any time, hours of 4, 2 of them, both clocks to 13 | 389,398 | `EntryCoversItsSubtree`, `RefusesOnlyBadFiles`, `AllowRuleWins` against definitions that do not walk along the dots; `ChartCountsEachBucketOnce` |
| `atomic_file` | 2 writers, 2 contents | 1,296 | `NeverTorn`; `atomicWrite` implements `AtomicRegister` |
| `store` | 2 lists, 2 administrators, 5 spellings of 3 valid names, at most 2 rules, clock to 3 | 305,928 | one rule per domain, a saved rule is active, one setup wins, the settings are a `DurableCell` |
| `list_refresh` | 1 list, 2 goroutines, contents good (2), too short and with a line too long, fair scheduling | 129,021 | the maps follow settings and lists through every change, restart and update (`PolicyFollowsConfig`); exclusion without a held lock, restart keeps the policy, no working copy lost, lists are `DurableCell`s; a request is never forgotten (`RefreshOwed`) and is served; an update ends |
| `query_history` | 2 goroutines, 1 client that opts out, window 2, buckets of 2, limit 2, lag 1, clock to 5 | 1.56 million | limit, order, chart, retention, opt-out |
| `opt_out` | as above | | violation, see Findings |
| `resolver` | 1 query of every kind, 4 configurations, 8 answers | 15,469 | `DecisionInForce`, `FailoverIsComplete`; no step takes a query back (`QueryAdvances`) |
| `resolver_slots` | 2 goroutines, 1 slot | 118,596 | `SlotsAccounted`, and every query ends |
| `admin_session` | 2 requests, 3 tokens, 2 administrators, 2 sessions, 2 attempts a minute, clock to 5 | 2.12 million | sessions, revocation, limiter |
| `dashboard` | 1 handler that does everything, 1 that boots and signs in, the poll, 3 kinds of page, the focus, 1 change, 1 session (of before, or opened by the tab), errors of the poll and of every request but the login's and the reloads' | 639,591 | one interval, own changes are shown, the view catches up |
| `lifecycle` | 2 requests, 3 servers, deadline 5, writes 3, grace 15, 2 records, fair scheduling | 103,922 | `DrainedIsSaved`, `StopsWithinGrace`; a stop ends; snapshots go on |
| `dashboard_sign_out` | 1 handler, no errors | | violation, see Findings |

Every property has a mutant in `PROJECT.json`: a plausible bug of the mapped code with which TLC finds the property
violated under the run's own configuration.

### Why the bounds are enough

*Limits* are at their smallest value with a state below, at and above them: two rules of three possible, two queries
of up to four, one slot for two goroutines, two sessions for three tokens. *Time*: the clock runs to more than twice
the window of the history, and past two windows of the limiter, in one process or several. The hours of the chart
divide the time into parts below, at and above an edge, for two clocks that differ by anything. The times of
`Lifecycle` are the code's own, in seconds; `DiskTime` leaves them the slack the assumption `Deadline + DiskTime <
Grace` asks for. *Actors*: two goroutines suffice for `updating`/`refreshPending`, where a third request leaves the
same note; the resolver goroutines share only the configuration, which changes freely, and the slots, so one query is
checked against all configurations and two against one slot. *The tab*: a handler, another that boots or signs in and
the poll overlap in every order, with the user on any page and in or out of a field. Two handlers that both change
something, or with one session a 401 of an old one that arrives after a new login, are not reached; the proofs of the
two safety properties have no such bound, and `CatchesUp` needs nothing of a handler. One list shows what one
goroutine can do to it; that lists do not disturb each other is proved for any number. Two requests are one that hangs
and one that does not. *Data*: a list file is good in two ways, too short or unreadable, an upstream answer is usable,
refused, truncated or foreign, with CNAME targets that are blocked or not. The invariants behind the theorems of
section 5 hold for all values, so for those the bounds only matter for the mutants.

The runs do not turn deadlock checking off: some action is always possible in every model.

### Fairness

`FairRefreshSpec` assumes that `change` returns (`WF` on `PublishConfig`) and that a refresh goroutine goes on (`SF`
on its steps). The steps are disabled whenever somebody holds the mutex; weak fairness would let the others take it
each time before the goroutine, but a Go mutex in starvation mode hands the lock to the goroutine that has waited
longest, and a download ends within the 45 seconds of `listClient`. `FairSpec` of `Resolver` is weak fairness of every
goroutine's steps: an exchange ends after 2 seconds and readers of the policy are admitted by the `RWMutex`.
`FairSpec` of `Dashboard` is about the poll only: the interval fires and somebody looks at the tab again, the request
of a poll comes back, with an error if need be, and not every poll ends in an error (`SF` on serving one), since the
view cannot catch up with a server that never answers. Handlers may wait for ever, users need not act; a field or
button that keeps the focus keeps its page from being redrawn, and `CatchesUp` says so (`Fresh`). `FairSpec` of
`Lifecycle` is weak fairness of `run()`, of the timer's return, of time and of the end of a DNS server and its
queries, which `EveryQueryEnds` of `Resolver` justifies; a request of the dashboard may hang, so the deadline is what
ends its wait. Strong fairness of a snapshot says that its timer fires and the disk does not fail at every one. No
fairness is assumed of clients, administrators, the refresh timer, restarts or the network's answers.

## 4. Findings

`opt_out`: the README says "Logging opt-out stops both and clears existing data." (`README.md:77`), and the settings
page the same (`app.js:54`). The route persists the opt-out and clears the history afterwards (`api.go:107-108`). If
the process dies between the two, the next start clears the history in memory (`store.go:82`) while `history.json`
still holds it; nothing is lost from view until logging is turned on again and the process dies once more before the
next flush: the start after that loads and shows the queries of before the opt-out. The window is small and each flush
closes it. `OptOutHolds` states, and the proof shows, that an opt-out that *was* answered with ok cannot be undone in
this way.

`dashboard_sign_out`: after "Sign out" the test expects the heading "Welcome back." (`browser.mjs:67`), and `login()`
clears the interval so that nothing is drawn over the form (`app.js:60`). A poll that the server answered before the
logout and whose reply is taken after it still runs to its end: `app.js:58` assigns `overview` and calls `renderPage`,
and `authFrame` has an element `#main` too (`app.js:55`, `59`). The form is replaced by a page of the session that has
ended, and stays so until the page is loaded again or a click on it ends in a 401. A reload that is in flight does the
same (`app.js:57`).

The limiter's "ten-per-minute" (`ARCHITECTURE.md:36`) is per fixed window that begins with an attempt. `RateBounded`
states what that gives for an arbitrary minute: fewer than twice the limit from one process, and the limit once more for
each restart within the minute, since the counter is memory of the process.

Likewise the chart "over the last 24 hours" (`app.js:37`) has 24 points that begin at the hour, the last one the current
hour, so it covers between 23 and 24 hours: what the headline total counts and the chart does not are the buckets of the
oldest hour, which is no longer 24 hours in full. `ChartCountsEachBucketOnce` states exactly this difference.

A DNS server whose shutdown is refused because it has not started yet (`main.go:56`) goes on serving until `main`
returns. A stop in the first moments of the process is therefore not orderly in the sense of `DrainedIsSaved`, whose
condition is that every shutdown returned without an error.

## 5. What is proved

All theorems are for arbitrary values of the constants under the named assumptions `ContentAssumption`,
`LabelAssumption`, `NameAssumption`, `InputAssumption`, `ChartAssumption`, `StoreAssumption`, `RefreshAssumption`,
`HistoryAssumption`, `ResolverAssumption`, `SessionAssumption`, `LifecycleAssumption` and `DashboardAssumption`, which
TLC evaluates in the runs. They say no more than that limits are naturals (positive where the code divides by or indexes
with them), that sentinel values are distinct from proper ones, that names and contents are built from labels and a name
asked over DNS has no empty label but the root's, that defaults and the reserved name are valid, that a bucket spans no
more than the history keeps, and that the grace period has room for the deadline and the writes. The last one is not the
code's: nothing in `main.go` bounds how long a write takes, so `StopsWithinGrace` says that the shutdowns leave the
writes all of the grace period but the one deadline.

| Module | Theorems | Argument |
|---|---|---|
| `AtomicFileProofs` | `AlwaysWhole` (`NeverTorn`), `AtomicWriteIsAtomic` (refinement of `AtomicRegister`) | a temporary file past `Write` holds the caller's bytes, past `Sync` it is secured, and only such a file is renamed |
| `StoreProofs` | `SettingsAreDurable` (refinement of `DurableCell`), `OneSetupWins`, `StoreTypes`, `OneRuleEach` (`OneRulePerDomain`), `SavedRulesRule` (`SavedRuleIsActive`) | `ConfigInv`: with the mutex free, memory and file agree; while it is held, the file has exactly the staged settings; the maps are those of settings and lists. `RouteWrites` reduces all routes to one `Persist`. `RulesInv` adds that the file is valid and has one rule per domain: a replaced rule is the only one of its domain, and leaving rules out keeps their order and their difference (`ReplacedDistinct`, `WithoutDistinct`), so a saved rule meets no other of its domain in the maps (`RulesDecide`) |
| `StoreProofs`, refresh | `PolicyNeverStale` (`PolicyFollowsConfig`), `UpdatesKeepRules` (`SavedRuleIsActive`), `RefreshesExclude` (`OneRefresher`), `RefreshTypes`, `ActiveIsCached`, `ListsAreCells`, `WorkingCopyKept`, `RestartChangesNothing`, `NoRequestForgotten` (`RefreshOwed`), `UpdatesAdvance` | `IInv`: `updating` is a lock, so what a goroutine wrote is still in the file when it publishes; it rebuilds the maps in the step that replaces a list, and of the rules an update changes nothing. `OwedInv` adds what `RefreshOwed` needs of the steps that enable lists: nothing is owed by a process that is down, and a change that starts no refresh enables nothing; then `Enter` leaves its note only to a running goroutine, whose last step turns it into another round |
| `QueryHistoryProofs` | `HistoryAlmostSorted`, `HistoryWithinLimit`, `RetentionHolds`, `OptOutIsKept`, `HistoryTypes`, `ChartCounts` (`ChartCountsList`) | the queries in memory and on disk are no later than the clock and out of order by at most `MaxLag` (`Fits`), and the buckets by at most that and the rest of a period (`Slack`, `BucketInv`), which makes pruning a prefix of each sufficient; an acknowledged opt-out implies both histories empty and logging off in file and memory. `ChartInv`: for every period that begins inside the window, list and buckets count the same, or the list less once the limit has pushed a query out, since neither its buckets nor its queries are old enough to be pruned. Both sides are sets of positions, compared by a bijection |
| `ResolverProofs` | `ResolverTypes`, `NoSlotLost`, `VerdictsInForce`, `FailoverNeverSkips`, `QueriesAdvance` (`QueryAdvances`) | `ResolverInv`: for each point of `resolve` what its locals are worth, and a witness in `seen` for every decision taken so far; the slots in use are the goroutines that hold one. Its types are what makes the steps left of a query a natural number |
| `AdminSessionProofs` | `SessionsFollowPassword`, `RevocationHolds`, `SignedInUntil`, `AttemptsBounded`, `SessionTypes` | `SessionInv`: a request about to open a session carries the password in force, and the table agrees with the cookies; `LimiterInv`: a window begins with its first attempt, and those of the last minute before it are fewer than the limit, or than the limit once for each restart more; one window adds at most the limit (`LimitGrows`) |
| `LifecycleProofs` | `LifecycleTypes`, `GraceSuffices` (`StopsWithinGrace`), `OrderlyStopSaves` (`DrainedIsSaved`) | `TimeInv`: a shutdown's clock is bounded by the one deadline, and by `DiskTime` after it; `DrainInv`: a server that was shut down without an error has no request left and gets none, so between the last record and the last flush nothing is added |
| `DashboardProofs` | `ShellStaysPolled` (`ShellIsPolled`), `OwnChangeShown` (`ShowsOwnChange`) | `ShellInv`: only frames start or stop the interval; `ReloadInv`: a reload's requests were sent after the handler was told of its change, so they are answered with that version or a later one |
| `PurePartsProofs` | `EntriesCover` (`EntryCoversItsSubtree`), `BadFilesRefused` (`RefusesOnlyBadFiles`), `AllowWins` (`AllowRuleWins`), `ChartOnce` (`ChartCountsEachBucketOnce`) | `CanonicalShape` and `PlainIs`: a canonical name is plain, its label sequence without the root dot; `WalkMeetsDomain`: the walk of `matches` along the dots finds exactly the plain domains at or above the name; `ParseIs`: what a file without an over-long line yields is what its good fields spell; `HourOf`: the hours of the chart are disjoint and one of them holds a given time |

**Only model-checked:** the six liveness properties (`RefreshServed`, `UpdateEnds`, `EveryQueryEnds`, `CatchesUp`,
`StopEnds`, `SnapshotsGoOn`), since the prover has neither fairness nor `ENABLED`. What they need of the steps is proved
for three of them: `RefreshOwed` says that whoever `RefreshServed` waits for exists, `UpdateAdvances` and
`QueryAdvances` that every step of an update or a query leaves less to do. Every invariant and every action property of
the runs is proved, and so are both refinements.

The chart is compared by the selections of buckets whose counts are added: that the counts of a split selection add up
to those of the whole is induction over a set, which the prover cannot do, and a matter of addition, not of this code.
`ListsAreDurable` is written as a conjunction of initial predicates and step relations rather than a quantified
specification, because TLC cannot check the latter; it means the same. The types of `Store`, `ListRefresh`, `Resolver`,
`AdminSession` and `Lifecycle`, `ActiveListIsCached` and `UpdateAdvances` are proved and take no place in a run.

## 6. The plan

Written, in this order: `DomainPolicy`, `AtomicFile`, `Store`, `ListRefresh`, `QueryHistory`, `Resolver`,
`AdminSession`, `Dashboard`, `Lifecycle`, `Chart`, all with their proofs.

What a further step could add: a tab whose requests are those of `AdminSession`, so that the 401 of an old session and a
new login are both real; a refinement that gives the resolver's `config` from `Store` and one that gives the records of
`Lifecycle` from `QueryHistory`; the status lines of the sources beside `updating`.
