# Formal models of xi-ray

xi-ray is a panel for Xiaomi routers that sends the guest Wi-Fi through an xray
VPN: a Go process with a web UI, some shell scripts on the router, and the xray
process, the iptables rules and the files they all work on. The modules here
model what is hard to test about it: calls that overlap without a lock, scripts
that run beside the panel, processes that die half way, lists that change while
they are fetched. TLC checks them on small instances, and TLAPS proves every
invariant of the runs for any number of callers, processes, servers,
configurations and rules, some under named restrictions.

    tlc -workers 2 -config GuestStack_attended.cfg MCGuestStack.tla
    tlapm GuestStackProofs.tla

Every run below is one `.cfg`, named `<module>_<run>.cfg`, for the module
`MC<module>`, or, where there is none (SelfUpdate, Panel), for the module itself.
`PROJECT.json` lists runs, mutants, hazards and, for each definition, the source
lines it stands for.

## Inventory

| Component | Source (under `src/`) | State | Operations |
|---|---|---|---|
| Apply | `internal/service/apply.go`, `postupdate.go` | staging file, xray config and iptables script on USB, the xray process, the redirect rules | `Apply`, `Restart`, called by HTTP handlers, scheduler, watchdog, post-update run |
| Fail-open | `internal/service/failopen.go`, `internal/xray/iptables.go` | marker file in `/data`, the rules | `Enable`, `MaybeEnable`, `Disable` |
| Watchdog, status | `watchdog.go`, `watchdog_outage.go`, `status.go` | last run, `last_alert`, cached node health | periodic `runOnce`: repair or recovery |
| Router scripts | `internal/setup/scripts/` | none of their own; processes, rules, marker, locks | guard (every minute), rules refresh (every two), startup |
| Server list and selection | `service/panel.go`, `selection.go`, `subscription_reselect.go`, `subscription_scheduler.go`, `internal/subscription/` | subscriptions, nodes, active and fallback IDs | add, refresh, refresh all, delete, manual node, select, sanitise |
| Configuration store | `internal/config/panel.go`, `migrate.go`, `service/backup.go`, `reset.go` | the configuration in memory, its mutex, `panel.json`, its `.tmp` | `Load`, `Get`, `Update`, `Save`, `Replace`, restore, reset |
| Self-update | `internal/update/`, `panel-updater.sh` | `state.json`, staged and backup binaries, lock, health | check, download, verify, apply, health check, rollback, resume |
| Downloads | `update/download.go`, `setup/xray_download.go`, `geo_assets.go` | partial and final files | download, resume, verify |
| Boot, autostart | `boot-xiaomi-vless.sh`, `deploy/` | locks, processes | start panel, updater, xray |
| Rules and teardown scripts | `internal/xray/iptables.go`, run by Apply, fail-open and the router scripts | chains, jumps, policy route | the commands of the two scripts |
| Config generation, routing | `internal/xray/`, `config/routing.go` | none | `Generate`, `Normalize`, `ValidateRouting`, `BuildRouting`, preview |
| Parsing | `internal/subscription/parser.go`, `protocols.go` | none | links and bodies to nodes |
| HTTP server, onboarding | `internal/server/`, `service/onboarding.go` | sessions; password and onboarding in the store | middleware, handlers |
| Guest network, paths, logs, i18n | `internal/network`, `internal/setup`, ... | none, or files | checks, wording |

How they interact. Everything in the panel shares one `config.Store`; `Update`
holds its mutex, but an operation that reads, works and writes (a refresh, an
Apply) holds it only for its parts. The stack itself has no owner: any HTTP
handler, the scheduler and the watchdog call `Apply` concurrently, and the guard,
the cron refresh and the startup script change processes, rules and marker from
outside the panel. What connects these is the file system and `pidof`.

What makes each part correct:

* stack: guests are redirected only to an xray that serves them, or to one that
  somebody is attending to; what runs is what was installed and tested; after
  faults the loops converge;
* server list: a selection of IDs survives lists whose IDs change; xray follows
  the list; requests that overlap lose nobody's servers;
* store: what a request was told is saved stays, on disk and in memory; `panel.json`
  always parses, or somebody was told that saving failed;
* rules: a whole script repairs whatever earlier ones left; the router and the home
  network stay reachable at every command in between;
* routing: what the page shows is what xray gets, and no rule gets lost on the way;
* update: there is always a panel that starts, and an update that fails its
  health check is rolled back, across reboots.

## The modules

### GuestStack

The variables `staging`, `live`, `script` are the files, `xray` the
configuration the running process was started with (or `None`), `rules` the script
the hooked rules came from (or `None`), `marker` the fail-open marker, `link`
whether VPN servers answer, `want` what `panel.json` would generate. A
configuration is one value that stands for an xray config together with its iptables
script; `Good` are those xray accepts. `pc`, `op`, `snap` are the control
state of each panel thread: the next step, which operation it is in (an Apply from a
handler, a Restart, the watchdog's recovery, refresh, outage or alarm) and the
configuration it generated.

`Apply` is a sequence of actions in the order of the source: `Generate`
(apply.go 40-62), `WriteStaging`, `TestPasses`/`TestFails`, `WriteScripts`,
`TruncateLive`, `WriteLive`, then `restartStack` (`StopXray`, `StartXray`,
`WaitForXray`, `RunIptables`), then `ProbeSucceeds` and `Disable`, or
`ProbeTimesOut` and fail-open (`Teardown`, `WriteMarker`). Between any two, other
threads and scripts may act. Error returns are `PrepareFails`, `InstallFails`,
`SysctlFails`, `ClientGone`; `Failed` and `Return` say where control goes. The
watchdog is the thread `Dog`: it looks at the process first and at the
probe later (`DogLooks`, `DogProbes`), as `GetStatus` does, repairs with an Apply
and looks again. Each script is a small automaton (`guard`, `cron`, `startup`)
whose checks and effects are separate steps.

Abstracted: the iptables commands (one step for a script; GuestRules has them),
`EnsureSystemScripts`, logs, the debug copy of the config, alerts. `pidof` is true of a
process that will exit a moment later (`BadXrayExits`). A second xray
cannot bind the ports, so `Launch` keeps the first. `WriteScripts` is one step, although
`os.WriteFile` truncates first (apply.go 86): no half-written rules script is run. The
guard tests marker and process in one step, and an xray that has exited is gone, although
nobody waits for it (apply.go 172) and `pidof` may go on showing it. The errors before the
first write (apply.go 41-58) happen under the disk fault of `PrepareFails`.

### Selection

`subs`, `nodes` (a sequence of `[id, link, sub]`), `mode`, `active`, `fallback`
are the fields of `panel.json`; `config` the links in xray's config file, `running` those
xray was started with, none while it is down; `feed` what each subscription URL returns. Per caller, `pc`, `todo`, `old`,
`got`, `dirty` are the locals of `RefreshAllSubscriptionsManaged` and
`refreshSubscriptionStore`: subscriptions left, the hashes before the fetch, the
fetched list, `needsApply`. A server is its hash (`Links`); an ID is a
number, and `Fresh` hands out those nothing refers to, which stands for new UUIDs.
`Merge`, `Without`, `Sanitized`, `Selected`, `Reselect` follow
`MergeNodes`, `RemoveNodesBySubscription`, `sanitizeSelection`, `selectedNodes`
and `reselectAfterSubscriptionUpdate`. A fetch is a step between snapshot and
store; a store is one `Update`. `Merge` keeps the first of the servers a list has twice, as
`MergeNodes` does (`Once`). An Apply is four steps: `Sanitize` and
`Generate`, as it reads the store twice (apply.go 33, 40), `Install` of what was
generated then (95), and `Restart` with what the file has by then (103); it may fail at
each (`ApplyFails`). So Applies that overlap may install in the other order than they read.
Two ghosts say when: `overtaken`, who is about to write a config although a newer one has
been generated, and `lagging`, that the newest was not installed or not as the last. `UpdateSelection` gets what the
servers page sends: the same ticked IDs as active and fallback list; other clients
may send any fallback order (panel.go 268-272), which the model leaves out. Which server
answers a ping fastest is free (`Picks`).

`Kept`, the part of a sequence that passes a filter, is in `Sublists`, since Routing
filters rules as Selection filters servers.

Abstracted: latency and health, names, `updated_at`, the onboarding
import (which is an `AddSubscription` or `AddManualNode` with a selection).

### SelfUpdate

`phase` is that of `updates/state.json`; `archive` and `staging` the downloaded file
(in part, with a gap, whole, or no release) and what was unpacked from it, `bin` and `prev` the panel binary and `panel.previous`,
each a version or torn or missing; `panel` the version of the running process. `pc`
is the next step of each of its tasks: `main` before the server starts, the requests
that wait for something, the health check. `Downloads` are the requests that may be in
`Download` at the same time. `spawned` are updater scripts that were
started and have not tried their lock yet, `script` and `job` the one that has it,
`boot` the boot script. `fd` says which lock's descriptor 9 the panel and xray
inherited: flock holds a lock as long as any process has it open.

The panel's actions follow `ResumeOrVerify`, `StartHealthCheckIfNeeded`, `Check`,
`Download` (`BeginDownload`, `Fetch`, `Receive`, `FetchBreaks`, `Unpack`, `Unpacked`,
`Validate`, `Verified`),
`Cancel`, `Confirm`, `Apply`, `Rollback`, the polled status (`Poll`) and the health
check. The script's follow `panel-updater.sh` and the binary's own command line, which
the script calls: `Cli...` actions are steps of `cli.go`, `Script...` actions of the
shell. `Boot...` is `boot-xiaomi-vless.sh`, which cron runs when there is no panel.
`PowerFails` takes processes and `/tmp`, and leaves files as they are, half
written or not; `CopyFails` is a full disk.

Nothing in `Download` keeps a second one from starting (service.go 156), and neither
`Check` nor `Cancel` stops the first: they write one archive, one may empty `staging` while
the other unpacks into it or saves "verified", and the updater may copy from it meanwhile.
All of that is in the model. The ghost `disturbed` records it: it is set when a download begins,
or a `Cancel`, `Confirm` or passed health check removes the release, while another
download or an updater works on the files, and cleared when a download begins alone.
`VerifiedIsComplete`, `PanelStartable`, `WayBack` and `FailedCheckRollsBack` are about releases that were
not disturbed; without that, TLC finds each of the first three violated by two downloads.

Conventions. Requests that wait for nothing are one step, `Cancel` and `Confirm` too, so
no crash comes between their removals. "completed" is saved and reset
by one step. `Offered` is what the settings page has enabled in each phase; with "page"
in `Faults` users act on an older page. Of each kind of request but downloads there is one at a time. Some
faults bound the environment by name: "again" (a download when there is a backup
already), "slow" (a step of more than 90 s, so that `Poll` may start a resume beside
it), "cron" (the watchdog looks just while the panel is being restarted). The
systemd branches are left out: the router has none. The xray of the startup script does
not hold the boot lock, since that script opens its own descriptor 9. The updater keeps its
lock for two seconds after it has started the panel (panel-updater.sh 129-133), which is no
step here. A second panel looks at the phase as the first does and ends when it
cannot listen (`SecondPanel`); that it may resume a download before (main.go 108) is left out.

### ConfigStore, DurableConfig

`mem` and `mutex` are the `config.Store` of each of two processes, the panel and a
`panel -reset` or `panel -post-update`; `disk` and `tmp` are `panel.json` and
`panel.json.tmp`. A request is the sequence of store calls its handler makes (`todo`);
`pc` is where a thread is in its call, `copy` what it is writing, `at` which name
the inode it has open has by now. A configuration is the set of choices somebody made,
`DefaultPanelConfig` the empty set; "legacy" stands for what `migrate.go` rewrites.

`Update` is `ChangeMemory` under the mutex, then `OpenTmp` (os.WriteFile truncates),
`WriteFile`, `RenameTmp`, which releases the mutex. `Save` is `CopyMemory` and the same
three without the mutex. `Replace` is `ReplaceMemory`. `Load` and `NewStore` are
`StartPanel`, `StartCli`, with the write-back of a migration. `OpenFails`, `WriteFails`,
`RenameFails` are the error returns; memory stays changed, as in the code. Two
ghosts serve the properties: `returned`, what successful Updates have settled, and `failed`,
that a request failed or was cut off.

`DurableConfig` is what this amounts to for its users: a configuration in memory and a
saved one, with the steps start, change, persist, stop. `ImplementsDurable` says that
ConfigStore, seen through `Memory` and `disk`, implements it. With `Overlap` empty, a
restore waits for the other requests (`MayBegin`) and no second process runs beside the panel.
The code ensures neither (`backup.go` 28-52, `panel.go` 388, `main.go` 72-89): it is a
restriction of the run `configuration` and of the theorems that name it, and what may happen
without it is the subject of `writers`.

An Update that fails counts as reported when its caller gets the error; some callers drop it
(onboarding.go 167, 336). Of the command line's start with a missing file (panel.go
320-325) only what a migration can meet is modelled.

### Panel

ConfigStore with the requests of the panel: each route of `Server.Router` that changes
the configuration, and the store calls its handler makes, in order. `tokens` are the
sessions; `Handle` is the middleware (authentication, then the onboarding gate), then
the handler. The test of the current password in front of a new one (routes.go 424)
is left out, and a browser can always log in, so the gate that matters is that of
onboarding. `Background` is everything that updates the store without changing a choice
(notes of the watchdog and the scheduler).

### GuestRules, Routing, GuestTraffic

`GuestRules` runs the rules and the teardown script one command at a time, by several
processes at once. `kernel` holds for each of nat and mangle whether our chain is there,
what it returns before its REDIRECT, and how many jumps lead to it, and the policy
rule and route for UDP; `todo` the commands each process has left. A script can be killed
(`Cut`), lose a command to the xtables lock (`LosesCommand`), and the firmware can
reload its firewall. `last` and `clean` are ghosts: the script that last ran undisturbed,
and whether anything was disturbed since.

`Routing` has no variables. It translates the saving of a routing (`Normalize`,
`ValidateRouting`), the building (`BuildRouting`), the page (`BuildRoutingPreview`), and how
xray reads the result (`Decide`). A matcher is the destination it covers. `Routings` are
the decoded bodies: any text as action or in the order, rules in any number.

The eight private ranges (iptables.go 115-120) and the loop over the VPN servers' addresses
(122-124) are one command each, so a loss or a cut between them is not seen, and the policy
rule is there or not, so a doubled one is not seen either.

`GuestTraffic` composes the two: saves and restores change the routing in `panel.json`, an Apply
builds the config and restarts xray with it, the rules script is started later, by that Apply
or by others (`Refresh`) or not at all, fail-open starts the teardown. `Path` is what
becomes of a guest's packet.

### Proof modules and instances

`GuestStackProofs`, `SelfUpdateProofs`, `SelectionProofs`, `ConfigStoreProofs`,
`PanelProofs`, `GuestTrafficProofs` and `RoutingProofs` hold the theorems about the module
they are named after (RoutingProofs those about `TrafficSpec` that concern the rules xray
gets), `SublistsProofs` the lemmas about filters that two of them need; see below.
`MCGuestStack`, `MCSelection`, `MCConfigStore`, `MCGuestTraffic` hold the symmetry sets
and the lists, requests and routings of the instances.

Some definitions are commented "(Slip: ...)". No specification uses them. Each is
the definition after it with one plausible mistake, and each property of a
passing run is known to fail when that mistake is made (`mutants` in
`PROJECT.json`).

## The runs

| Run | Question | Answer |
|---|---|---|
| GuestStack `attended` | does a call ever return and leave guests redirected into a dead port? | no, with one caller, watchdog and guard, under link, edit, disk and sysctl faults |
| `onewriter` | with one caller, is what is installed tested, does a stale xray survive, do rules and process match at rest, and does the cron guard alone end each redirect to a dead xray? | all well, beside guard, cron, startup, Restarts and crashes of xray |
| `converges` | after crashes, reboots, lost clients and outages, do guests get the VPN back for good when it is reachable, and direct internet when not? | yes; the latter again and again: the watchdog redirects them for each of its attempts |
| Selection `edits` | are the lists consistent and the selection usable under all requests and edits, also when a list has a server twice? | yes, in multi mode |
| `reaches` | after refreshes and Applies that overlap, fail or are lost in a crash, does xray run what is selected, and does a changed list reach it in the end? | yes; at once unless the newest config was not installed or an older one after it, and by the next refresh then |
| SelfUpdate `startable` | is what is called verified complete, is there always a panel that starts, is it started again, does a download end? | yes, with flock, under power cuts, crashes, broken transfers, full disks and cron, for one download at a time beside checks and cancels; cron starts the panel unless xray holds the boot lock |
| `rollsBack` | does a version that fails its health check give way to the old one, also when downloads overlap it and each other? | yes, without flock, where nothing interrupts the scripts, for a release that was not disturbed |
| `watchdog` | does cron start a panel that went down, as `docs/autostart.md` 14 says? | no, with flock (violation): the xray it restarted keeps the boot script's descriptor 9 |
| `offered` | is Download disabled during a download, as `CHANGELOG.md` 55 says? | no (violation): a check saves "idle" during the download |
| Panel `configuration` | does what a request was told is saved stay, does `panel.json` always parse, is an own password the end of onboarding, is the store an atomic configuration? | yes, for all requests and resets, with crashes and failed writes at every step, when nothing overlaps a restore and one process runs at a time |
| ConfigStore `writers` | and when they do overlap? | `panel.json` can come out torn, but then somebody got an error; settings can be lost silently |
| GuestTraffic `path` | do whole scripts repair what broken or overlapping ones left, is the home network safe in between, is the page right, is every rule built once? | yes; overlapping rules scripts alone can redirect the home network until the next refresh, and xray's own bypass catches it if it is on |

`RefreshReachesXray` rests on what looks like a mistake, that
`refreshSubscriptionStore` removes the servers before it merges: a refresh
after a crash finds the selection stale and applies. The mutant
`StoreListOnly`, the obvious repair, breaks both properties of `reaches`.

### Seen while modelling, without a run

These follow from the models, by other instances of them or by reading a trace.
GuestStack:

* With the observatory off, the health of the last manual probe (`status.go` 259) may
  mask an outage from the watchdog for ever (`GuestsGoDirect` fails with
  `ObservatoryOn` FALSE and `CachedAlive` TRUE).
* With overlapping Applies, Restarts and startup scripts no stale xray survives either;
  that is proved (`NoStaleProcess`) and no run is kept.
* Two Applies share the staging file, so one may test the other's config and install
  its own (`InstalledIsTested` fails with two handlers), and may leave the script of one
  beside the config of the other (`RulesMatchXray`).
* Each recovery attempt of the watchdog hooks the redirect while the fail-open marker
  is set (`watchdog.go` 116; the page says "direct internet").
* The cron refresh checks for fail-open first and runs its script later.

Selection:

* Two Applies may install their configs in the other order than they read the store (`apply.go`
  40, 95), so that xray runs the older servers until the next refresh (`IdleMeansApplied`
  without `~lagging` fails after 22 steps).
* Strategy keep ("Keep current (if available)", `server/static/locales/en.json`) does not
  keep: a refresh removes the servers before it merges (`panel.go` 132), so those that are
  still listed get new IDs and the active one is not found.
* In single mode the fallback order is not cut as the active list is; when the active
  server is deleted, Apply may find no server although there are some (`panel.go` 253).
* A subscription deleted during its refresh leaves its servers behind (`panel.go` 125).
* As every refresh changes all IDs, every refresh finds the selection stale and applies,
  whether or not the list changed (`subscription_reselect.go` 118).

SelfUpdate:

* A power cut, a full disk, or after a panel crash the killall of the boot script, which
  also ends the updater's command line: when one comes after the panel was replaced and
  before "restarting" is saved, the resumed apply backs up again, and `panel.previous` is the new version (`cli.go` 57).
* A rollback interrupted between its rename and the end of its copy leaves no panel
  that starts (`cli.go` 172-174). The killall of a boot script that cron starts
  meanwhile is enough.
* Two downloads at once tear the release under each other: one saves "verified" while the
  other has just emptied `staging`, or the updater copies a panel that is being unpacked
  (`service.go` 156, `download.go` 121); see `disturbed` above.
* `Cancel` does not stop a download; its "verified" is applied at the next start.
* "rolled_back" is saved while the restored panel checks its health, whose
  result resets the phase.
* A download of a file that is whole gets 416, whose body replaces it (`download.go` 53).
* A resume that the polling page starts during a slow step applies what is verified
  by the time it runs.
* A download that state.json holds when the panel is replaced is refused by the new
  panel and stays "downloading".
* With flock the panel the updater starts holds the updater's lock, so the rollback
  after its failed health check finds "another updater is running" (`FailedCheckRollsBack`
  fails with `Flock` TRUE).

ConfigStore and Panel:

* A restore beside another request, or the post-update process beside the panel, loses the
  setting that was saved in between: `Save` writes an older copy, and each process its
  own memory (`panel.go` 388, `panel-updater.sh` 209).
* When a migration's rename fails because another process renamed the file, `NewStore`
  takes it for a missing file and saves the defaults (`panel.go` 320).
* An Update that fails has changed memory all the same; the next one saves it.
* `SkipOnboarding` does not end onboarding while the password is the default one, and
  `PUT /api/auth/password` accepts "admin", which starts onboarding again.
* A changed password leaves the sessions of other browsers as they are.
* If the data directory cannot be written at start, as on a full USB stick,
  `AdaptPathsForEnvironment` changes the paths, and the next Update that works
  persists that (`bootstrap.go` 123; not modelled).

GuestTraffic:

* Both scripts end with a command that succeeds, so "iptables apply failed" (`apply.go` 182)
  and the retry of `startup_xray_guest.sh` 52 never happen; lost commands go unnoticed
  until the next refresh.
* A rules script killed between `ip rule del` and `ip rule add` leaves UDP redirected
  to nowhere until the next one.
* While a chain is flushed and rebuilt, guests go direct for a moment; every refresh does it.
* Overlapping rules scripts can leave a REDIRECT before the bypasses.
* A restored backup is not validated: an enabled rule without matchers is shown by the
  preview and not built.
* The routing rule that bypasses VPN hosts matches by domain only; traffic to the address
  of a server given as an IP is matched by none (`routing.go` 25).

### Bounds

GuestStack: one or two handlers besides the watchdog, since each race found needs two
writers and the proofs cover more; one or two good configurations and one bad.
All counters of the code are deadlines and are abstracted, so the state
space is finite without bounds. Symmetry is used where only invariants are
checked (`writers`, `path`).

Selection: one subscription and servers added by hand, two links, two or three lists: in `edits` the
empty one, one with a server twice, and lists that share a server; in `reaches` two that
share one. Five or six IDs are enough: servers, dead IDs in the fallback order and
a new one. Where they are too few TLC reports an error, as `Fresh` has no such
element. `edits` has one caller beside the requests of one step, as its properties are
about single stores and the theorems take any number; `reaches` has two callers, the least whose Applies
overlap. Lists there are never empty, because `AddSubscription` selects for an empty selection but does not
apply, by design. A caller that is idle after it is refreshed again may go on
for ever.

SelfUpdate: two versions, which is one update; one request of a kind, and one or two downloads at
a time; the state space is finite without counters. `startable` has one, with every fault that
interrupts something, `rollsBack` two, as the first pair that overlaps disturbs the release and a third
would find nothing else. Two downloads with those faults take TLC longer than a run should; what it
says of them is proved for any number. `startable` leaves out "rollback", as one that is
interrupted leaves no panel to start (`PanelComesBack` fails and the system stops), and
`rollsBack` leaves out "power", "panel", "disk" and "cron", which interrupt the updater, for
what the list above says comes of it. `startable`, `watchdog` have flock, `rollsBack` has
not. There is no procd: the router's shell as the scripts' fallback branches expect it.

Panel: two goroutines beside the main one and a second process with one, every request of the
panel and each reset, four choices: the two the code looks at (password, onboarding), one that
stands for any other section, and what migration removes. Two goroutines are enough
for what the mutex is for, and the proofs cover more. One browser, as sessions do not
interact. `writers` takes two requests of the panel and two of the second process, which between them have each
kind of call, because every interleaving of two file writes multiplies them.
Crashes stop and start the processes without end, so nothing needs a bound.

GuestTraffic: two processes that run scripts; one site, one table (mangle, which also
needs the policy route: no property relates two tables, and their commands differ in
nothing the model keeps); `MaxHooks` = 2 jumps to one chain, as each overlap of two
scripts can leave one more and nothing distinguishes two from three, for `-D` removes one
at a time. Two submitted routings, with the bypass and without, hold overlapping rules, an
incomplete and a repeated order, an unknown action, and an empty rule; one selection has
no server, the other two and the balancer. The theorems take any routing over `Texts`.

Deadlock is checked in all runs but `writers`: `NewStore` refuses a file that cannot be
parsed, so with a torn `panel.json` nothing starts any more, which is what that run is about.

### Fairness

`GuestStack!Fairness`: a goroutine inside a call takes its next step (calls
have timeouts everywhere), the watchdog ticks, cron runs its jobs, a startup
script that began goes on, an xray that cannot run exits. Nobody has to call Apply,
and no fault has to happen or to end. The liveness properties say "once
nothing but these steps happens" (`Calm`). This is stated by the steps that do
happen (`Routine`), because a crash of an idle panel cannot be told from the
return of a call. A guard that checks between the kill and the start of an Apply is
not routine either: it sets a marker on a healthy stack, which the watchdog clears
with another Apply, which the guard may hit again; the code does not
exclude that for ever.

ConfigStore, Panel and GuestTraffic state safety only: no fairness.

`Selection!Fairness`: a request goes on, and the scheduler refreshes again and again
(a ticker, `subscription_scheduler.go` 44-56).

`SelfUpdate!Fairness`: goroutines and scripts go on, a started script tries its lock,
cron looks for the panel every minute. Nobody has to request anything, poll,
or restart xray, and no transfer has to succeed before it is given up: `Fetch` and
`FetchBreaks` are bounded by `maxDownloadAttempts`, which is abstracted to "breaks only
finitely often" by `Calm`. `Calm` has the shape of GuestStack's: from some time on only
steps of `Routine` happen.

## The proofs

Every invariant of a passing run has a theorem, and so have the action and refinement
properties `OthersSurvive`, `PanelStartable` and `ImplementsDurable`. A restriction ("for ...") is an `ASSUME`
of the theorem: it says under which requests, faults or overlaps the property holds, and
what it excludes can go wrong (see "Seen while modelling" and the end of this chapter). There is no other assumption than
the `ASSUME`s on the constants of each module.

### GuestStackProofs

From `StackAssumption` (the constants are disjoint and
of their kind) and, for all but the first, a restriction of the instance given as
`ASSUME` of the theorem.

* `TypeCorrect`: `Spec => []TypeOK`. No restriction. TypeOK includes that a
  thread about to write holds a configuration, which makes it inductive.
* `NoStaleProcess`: `Spec => []RunningIsInstalled`, for faults other than "panel",
  "sysctl", "disk". Each of those lets a call end between writing the config and the
  restart, with the old process running the old config, which is what the code
  does. The property is inductive relative to `TypeOK`: a step that changes `live` is
  of a thread that is `Rewriting` afterwards, and a thread leaves `Rewriting` only
  by killing xray.
* `Attended`: `Spec => []BlackHoleIsAttended`, for callers of Apply, watchdog and guard,
  fail-open enabled, faults "link", "edit", "sysctl", "disk". The invariant
  `AttendedInv` adds `OnlyApplies`: no thread is in a Restart, whose errors
  do not lead to fail-open. A thread leaves `InRestart` in three ways: healthy, after a
  probe that proves `xray \in Good`; by the teardown, after which there are no rules;
  or not at all with fail-open disabled, which is excluded. "disconnect", "panel",
  "xray", "reboot", "restart" and "startup" are excluded because they do leave a hole
  behind; `onewriter` and `converges` show who closes it.
* `InstalledTested`: `Spec => []InstalledIsTested`, for `Writers \subseteq {w}`, under
  every fault. The invariant `TestedInv` adds that the one thread that holds
  a tested configuration holds a good one, and that the staging file is its own from
  `WriteStaging` on. With two writers it fails, as said above.
* `RulesAlwaysMatch`: `Spec => []RulesMatchXray`, for `Writers \subseteq {w}` and faults among
  "xray", "link", "edit" and "disconnect", beside guard, cron and startup. The invariant
  `MatchInv`, relative to `TypeOK` and `RunningIsInstalled`, says who may be between two of
  the files: script and config are of one configuration unless the writer is between
  writing them, and the rules are from the script unless somebody is between starting
  xray and hooking (`Switching`, `Starting`) or there is no xray.

### ConfigStoreProofs, PanelProofs

From `StoreAssumption`: threads are distinct, file states are no configurations, and every
request is a sequence of updates, or a replacement and a save (`IsPlan`), which is what the handlers
do. All but `TypeCorrect`, `TornAlwaysReported` and `PanelUsesStore` assume `Overlap = {}`: no restore
runs beside another request and no second process beside the panel. Nothing in the code
guarantees that; the theorems say what holds as long as it is so.

* `TypeCorrect`: `Spec => []TypeOK`, with any overlap. TypeOK alone is not inductive: the main
  goroutine's error ends the panel, so no handler may be busy then (`MainFirst`).
* `DiskAlwaysWhole`: `Spec => []DiskIsWhole`. `Save` writes without the mutex, so the mutex does not
  say that there is one writer. The invariant `IInv` does: one process (`OneProcess`), what
  is left of each request has a known form (`Shape`), a restore is alone
  (`RestoreAlone`), hence `OneWriter`; the writer has the mutex or makes a save, and
  has a copy of what is in memory (`WriterOwns`); and the temporary file is whole
  when it is renamed (`TmpIsWhole`).
* `ReturnedAlwaysSurvives`: `Spec => []ReturnedSurvives`, relative to `IInv`, with what is being
  written added (`UpdateIsCopied`) and that nobody writes what migration removes (`NoLegacy`).
* `TornAlwaysReported`: `Spec => []TornIsReported`, with any overlap, any number of writers,
  failures and crashes. As long as nobody has failed, a torn `panel.json` has a writer that
  is still to come, and the last writer either finds a good temporary file, which
  repairs it, or none, which is an error (`TornInv`).
* `StoreImplementsDurable`: `Spec => ImplementsDurable`. Under `IInv` a start maps to Start, a change
  in memory to Change, a rename to Persist because what is renamed equals memory, an end to
  Stop, the rest to stuttering.
* `PanelUsesStore`: `PanelSpec => Spec`, if the panel's requests are among `Plans`: every
  step of the panel is one of the store. `PanelImplementsDurable` follows, and so would
  the other three.
* `OwnPasswordSettles`: `PanelSpec => []OwnPasswordEndsOnboarding`, under the same assumptions. The
  flag is saved one call after the password, so the invariant (`PasswordInv`, relative to
  `IInv` and `ReturnedInv`) says what the calls still to be made will do: nobody sets a
  password without onboarding being over or the same request ending it next
  (`PasswordFirst`); once a password is settled, onboarding is over in memory or a request is
  about to end it (`PasswordSet`). That this request may fail or die does not matter: its
  update was in memory before (`WriterOwns`, `UpdateIsCopied`), and a restart takes the
  password for the flag. `MainSaves` says that the main goroutine changes no choice.

### SelfUpdateProofs

No restriction on `Flock`, `Procd`, `Passing` and the number of `Downloads` anywhere, so the branches
no run takes are covered.

* `TypeCorrect`: `Spec => []TypeOK`, for all requests and faults. `TaskInv`, which the other
  proofs are relative to, adds that requests, downloads and health checks wait for `main`
  (`OneTask`).
* `VerifiedAlwaysComplete`: `Spec => []VerifiedIsComplete`, and `PanelAlwaysStartable`: `Spec =>
  PanelStartable`, for all requests and faults: any crash, power cut, full disk, overlap of
  scripts, any number of downloads, cancels and checks. Both follow from `StagedInv`: as long as the release
  is not disturbed (`Staged`), one task at most works on it, it is whole when that task is
  about to save "verified", in the phases "verified" and "applying", and while a script is
  between backup and replacement, and nobody downloads then. The panel is replaced by a rename, so
  what is renamed must be whole. That a
  health check, which deletes the release, may run beside a download that the new panel resumed is why
  `disturbed` is set there, too. Without the exemption both properties are false.
* `WayBackAlways`: `Spec => []WayBack`, for faults without "power", "panel", "disk" and "cron"
  (`Uninterrupted`); with all requests and any number of downloads, slow steps and stale pages
  included. `WayInv`, relative to `StagedInv`: panel and binaries are whole or a script is at work on them
  (`Unbroken`); the old panel does not outlive the script that replaced it (`OldPanel`); and once the
  panel has been replaced nothing leads to a second replacement, whose backup would be
  the new version (`OnceReplaced`). With any of "power", "panel" and "disk" TLC finds it violated; "cron" is
  excluded because the boot script it starts may kill the command line the updater is waiting for.

### SelectionProofs

* `ActiveAlwaysListed`: `Spec => []ActiveIsListed`, for all requests, modes and faults, any number of
  callers. `Listed` says that each active ID is that of a listed server; it is stated for
  the IDs drawn so far, since nothing bounds those a fresh one comes from.
* `OthersAlwaysSurvive`: `Spec => OthersSurvive`: a refresh leaves every server of another
  subscription in the list under its ID.
* `ApplyAlwaysUsesSelection`: `Spec => []ApplyUsesSelection`, where IDs do not run out
  (`EnoughIds`: they are UUIDs) and who selects by hand selects in multi mode
  (`MultiOnly`). The invariant is that what is listed of the fallback order is nothing, or is what
  is listed of the active servers (`Agrees`).
* `TypeCorrect`: `Spec => []TypeOK`, with `EnoughIds`. This is the statement that no ID and no hash is in
  the list twice, whatever overlaps and also when a fetched list has a server twice: `AddsInv` says
  that two callers never add one
  subscription, `ServersInv` that servers differ in ID and hash.
* `AppliedWhenIdle`: `Spec => []IdleMeansApplied`, with `EnoughIds`, where nothing is chosen or
  deleted by hand and no list is empty (`OnlyRefreshes`); any
  strategy, number of callers and interleaving, Applies that fail and crashes included. `Covered` is the
  reason: unless a caller will still generate a config, the newest one is that of what is selected, and
  it is in the file, about to be written, or `lagging` says that it was lost or overtaken; a caller that
  stores a list whose IDs are stale becomes such a caller in the same step. `Restarted` says
  that what is in the file runs or a caller is about to restart.

### GuestTrafficProofs

No restriction: any number of processes, sites and tables, scripts that overlap, are killed, lose
commands, firmware reloads, reboots. What remains of a script is
handled with proof outlines: `Takes(A, P, cmds, Q)` says that there are assertions from `A`, one before each
command, that lead from `P` to `Q`. A lemma for each kind of command gives one step, lemmas on
concatenation put scripts together table by table, and commands for one table leave the
others alone. `ScriptsInv` then says:

* `AloneInv`: what an undisturbed script has left takes the kernel to what the script is for,
  from any kernel it found (`Fulfilled`);
* `CleanInv`: while scripts run one at a time, each command keeps "nothing jumps into
  a chain without its bypasses" (`Sealed`).

Theorems: `TypeCorrect` ([]TypeOK), `TeardownAlwaysFrees` ([]TeardownFrees), `RulesAlwaysRepair`
([]RulesRepair), `NeverHalfRedirected` ([]NoHalfRedirect).

### SublistsProofs, RoutingProofs

`Kept(seq, keep)` of `Sublists` selects the members that are in a set, `Once` each where it is first. Their lemmas (what it contains, that it
keeps order and injectivity, its length, how it distributes over concatenation and
filters twice) need induction over sequences. The library's induction theorems take an
operator and cannot be used, so `NatInd` is derived from a least element of a set of naturals,
and `SeqInd` says that a set of sequences that has the empty one and is closed
under `Append` has all; the set plays the part of the operator.

* `PreviewAlwaysBuilt`: `TrafficSpec => []PreviewIsBuilt`, `RulesNeverLost`: `TrafficSpec =>
  []NoRuleIsLost`, for all routings that can be decoded and all selections. `OrderOf`: whatever order
  is sent, what is saved has each of the three actions once. Hence the rules built, action by
  action, are each valid rule once (`BuiltCounts`), and a routing that passes validation has
  no rule that only the preview shows.
* `PrivateAlwaysLocal`: `TrafficSpec => []PrivateStaysLocal`. With scripts one at a time nothing private
  is redirected (`NoHalfRedirect`); otherwise xray runs rules that were built from a normalized
  routing (`RunningInv`), in which the bypass precedes every rule of the user (`PrivateDirect`).

### Only model-checked

* The liveness properties `GuardClosesHole`, `GuestsRecover`, `GuestsGoDirect`,
  `RefreshReachesXray`, `DownloadEnds`, `FailedCheckRollsBack`, `PanelComesBack`, which the
  provers do not handle, and the two violations `WatchdogStartsPanel`, `NotOfferedTwice`.

Of what the restrictions of the theorems exclude nothing is left to a run but `TornIsReported` for
overlapping restores and processes. Instances of
the models outside of them fail: `WayBack` with "power", "panel" or "disk",
`IdleMeansApplied` with an empty list, `RulesMatchXray` with "reboot" or a second caller,
`ReturnedSurvives` with an overlap.

Two things of tlapm 1.4.5 shape the modules: it expands a nested `@` wrongly, so
`Trimmed` names the inner record, and it does not know that string literals are in
STRING, so `Texts` is a set of the model's own.

## Plan

1. Done: GuestStack, Selection, SelfUpdate, ConfigStore, Panel, GuestRules, Routing and
   GuestTraffic, with theorems for all their safety properties.
2. An abstract update: the router has the old version or the new one, and one that
   starts; SelfUpdate refines it where `PanelAlwaysStartable` and `WayBackAlways` hold.
3. An abstract guest network (served, direct, cut off) that GuestStack implements.
4. `RulesMatchXray` and `InstalledIsTested` for several callers when their Applies do not
   overlap, in place of one caller.
5. The downloads of xray and of the geo files (a partial file left by a broken
   transfer, the fallback mirrors).

## Not modelled

* Transport and URL formats (`protocols.go`, `transport.go`, `outbounds.go`): strings to
  data, without state.
* Guest network detection, logs, i18n, probes on request: they read and show.
* Installers and `deploy/`: run once, by hand, with nothing beside them.
* `EnsureSystemScripts`, `Bootstrap`: at start, before anything else runs. They rewrite the
  scripts that cron may be running at that moment, which depends on how the shell reads
  its file.
* The slices that copies of the configuration share (`Store.Get`): a data race whose writes
  leave saved values as they are.
* Locks of the router scripts: the startup script is one at a time in GuestStack.
