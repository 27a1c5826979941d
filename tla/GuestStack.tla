----------------------------- MODULE GuestStack -----------------------------
(***************************************************************************)
(* The guest VPN stack of the router: the xray process, the iptables rules *)
(* that redirect the guest network into it, the fail-open marker, and      *)
(* everything that changes them.  In the panel process any number of       *)
(* callers of ApplyService run concurrently (HTTP handlers, the            *)
(* subscription scheduler, the post-update run) together with the          *)
(* watchdog goroutine; no mutex covers an Apply.  Outside the panel run    *)
(* the cron guard, the cron iptables refresh and the boot startup script.  *)
(*                                                                         *)
(* A "configuration" stands for what one panel.json generates: an xray     *)
(* config and the iptables script with the ports and bypass addresses that *)
(* belong to it.  It carries no structure; Good holds those `xray -test`   *)
(* accepts.  Operators commented "(Slip: ...)" are not part of Next: each   *)
(* is the step that follows it with a mistake a maintainer could make, for *)
(* trying whether the properties notice.                                   *)
(***************************************************************************)
EXTENDS Naturals

CONSTANTS
  Handlers,           \* callers of Apply and Restart other than the watchdog
  Dog,                \* the watchdog goroutine
  Configs,            \* configurations the user can ask for
  Good,               \* those xray accepts and keeps running with
  None,               \* no process, no rules, no snapshot
  Torn,               \* a config file truncated and not yet written
  Ops,                \* what handlers call: "apply", "restart"
  Jobs,               \* what is installed: "watchdog", "guard", "cron", "startup"
  Faults,             \* disturbances that may happen (see Environment, ApplyFault)
  FailOpenEnabled,    \* fail_open.enabled
  RestoreOnRecovery,  \* fail_open.restore_on_recovery
  RefreshOnOutage,    \* watchdog.refresh_subscriptions_on_outage and auto apply
  ObservatoryOn,      \* observatory.enabled: node health comes from the xray API
  CachedAlive         \* an active node has LastHealth "ok" in panel.json

AllFaults == {"xray", "panel", "reboot", "link", "edit", "disconnect", "sysctl", "disk"}

ASSUME StackAssumption ==
  /\ Good \subseteq Configs /\ Good # {}
  /\ None \notin Configs /\ Torn \notin Configs /\ None # Torn
  /\ Dog \notin Handlers
  /\ Ops \subseteq {"apply", "restart"}
  /\ Jobs \subseteq {"watchdog", "guard", "cron", "startup"}
  /\ Faults \subseteq AllFaults
  /\ {FailOpenEnabled, RestoreOnRecovery, RefreshOnOutage, ObservatoryOn, CachedAlive}
       \subseteq BOOLEAN

VARIABLES
  want,     \* what panel.json generates now
  staging,  \* the staging config in the panel data directory, shared by all Applies
  live,     \* the xray config on USB
  script,   \* the iptables script on USB
  xray,     \* the config of the running xray process, or None
  rules,    \* the script the redirect rules came from, or None when not hooked
  marker,   \* the fail-open marker file exists
  link,     \* the VPN servers answer
  pc, op, snap,          \* per thread: next step, operation, generated config
  guard, cron, startup   \* next step of each script

disk  == <<want, staging, live, script>>
local == <<pc, op, snap>>
jobs  == <<guard, cron, startup>>
vars  == <<want, staging, live, script, xray, rules, marker, link, pc, op, snap, guard, cron, startup>>

Threads == Handlers \cup {Dog}

\* Callers that can be inside Apply in this instance.
Writers == Handlers \cup (IF "watchdog" \in Jobs THEN {Dog} ELSE {})

Steps == {"idle", "generated", "staged", "tested", "scripted", "truncated", "written",
          "stopped", "started", "hooking", "probing", "healthy", "failing", "torndown",
          "sawUp", "recheck", "recheckUp"}

\* Where an Apply still has to write what it generated.
Holding == {"generated", "staged", "tested", "scripted", "truncated"}

Operations == {"none", "apply", "restart", "recover", "refresh", "outage", "alarm"}

(***************************************************************************)
(* The router has just booted with an installation that worked: its files  *)
(* agree, nothing runs, and a marker may be left in /data.                 *)
(***************************************************************************)
Init ==
  /\ want \in Good
  /\ staging = want /\ live = want /\ script = want
  /\ xray = None /\ rules = None
  /\ marker \in BOOLEAN
  /\ link \in BOOLEAN
  /\ pc = [t \in Threads |-> "idle"]
  /\ op = [t \in Threads |-> "none"]
  /\ snap = [t \in Threads |-> None]
  /\ guard = "idle" /\ cron = "idle" /\ startup = "idle"

-----------------------------------------------------------------------------
(* Control of a panel thread.                                              *)

At(t, step) == pc[t] = step

Goto(t, step) == pc' = [pc EXCEPT ![t] = step] /\ UNCHANGED <<op, snap>>

Finish(t) ==
  /\ pc' = [pc EXCEPT ![t] = "idle"]
  /\ op' = [op EXCEPT ![t] = "none"]
  /\ snap' = [snap EXCEPT ![t] = None]

\* (Slip: the generated bytes are lost.)
GenerateEmpty(t, operation) ==
  /\ pc' = [pc EXCEPT ![t] = "generated"]
  /\ op' = [op EXCEPT ![t] = operation]
  /\ UNCHANGED snap

\* Apply reads panel.json once and generates everything from that copy.
Generate(t, operation) ==
  /\ pc' = [pc EXCEPT ![t] = "generated"]
  /\ op' = [op EXCEPT ![t] = operation]
  /\ snap' = [snap EXCEPT ![t] = want]

\* Where a call of Apply (or Enable) returns to.
Return(t) ==
  \/ op[t] = "refresh" /\ Generate(t, "outage")
  \/ op[t] = "outage"  /\ Goto(t, "recheck")
  \/ op[t] \notin {"refresh", "outage"} /\ Finish(t)

\* restartStack returned an error: Apply tries fail-open, Restart just returns.
Failed(t) == IF op[t] = "restart" THEN Finish(t) ELSE Goto(t, "failing")

\* A guest request sent through the SOCKS port gets an answer.
Connected == xray \in Good /\ link

-----------------------------------------------------------------------------
(* ApplyService.Apply and ApplyService.Restart.                            *)

BeginApply(t) ==
  /\ t \in Handlers /\ "apply" \in Ops /\ At(t, "idle")
  /\ Generate(t, "apply")
  /\ UNCHANGED <<disk, xray, rules, marker, link, jobs>>

BeginRestart(t) ==
  /\ t \in Handlers /\ "restart" \in Ops /\ At(t, "idle")
  /\ pc' = [pc EXCEPT ![t] = "written"]
  /\ op' = [op EXCEPT ![t] = "restart"]
  /\ UNCHANGED <<snap, disk, xray, rules, marker, link, jobs>>

WriteStaging(t) ==
  /\ At(t, "generated")
  /\ staging' = snap[t]
  /\ Goto(t, "staged")
  /\ UNCHANGED <<want, live, script, xray, rules, marker, link, jobs>>

\* /data is full, or the geo files xray needs cannot be downloaded.
PrepareFails(t) ==
  /\ "disk" \in Faults /\ pc[t] \in {"generated", "staged"}
  /\ Return(t)
  /\ UNCHANGED <<disk, xray, rules, marker, link, jobs>>

\* (Slip: the test result is ignored.)
TestIgnored(t) ==
  /\ At(t, "staged")
  /\ Goto(t, "tested")
  /\ UNCHANGED <<disk, xray, rules, marker, link, jobs>>

\* `xray run -test` reads the staging file, not the thread's own bytes.
TestPasses(t) ==
  /\ At(t, "staged") /\ staging \in Good
  /\ Goto(t, "tested")
  /\ UNCHANGED <<disk, xray, rules, marker, link, jobs>>

TestFails(t) ==
  /\ At(t, "staged") /\ staging \notin Good
  /\ Return(t)
  /\ UNCHANGED <<disk, xray, rules, marker, link, jobs>>

\* (Slip: the script is generated from panel.json read a second time.)
WriteFreshScripts(t) ==
  /\ At(t, "tested")
  /\ script' = want
  /\ Goto(t, "scripted")
  /\ UNCHANGED <<want, staging, live, xray, rules, marker, link, jobs>>

WriteScripts(t) ==
  /\ At(t, "tested")
  /\ script' = snap[t]
  /\ Goto(t, "scripted")
  /\ UNCHANGED <<want, staging, live, xray, rules, marker, link, jobs>>

\* writeConfigFile opens the live config with O_TRUNC and then writes it.
TruncateLive(t) ==
  /\ At(t, "scripted")
  /\ live' = Torn
  /\ Goto(t, "truncated")
  /\ UNCHANGED <<want, staging, script, xray, rules, marker, link, jobs>>

WriteLive(t) ==
  /\ At(t, "truncated")
  /\ live' = snap[t]
  /\ Goto(t, "written")
  /\ UNCHANGED <<want, staging, script, xray, rules, marker, link, jobs>>

\* The USB stick is full or gone: Apply returns, nothing is restarted.
InstallFails(t) ==
  /\ "disk" \in Faults /\ pc[t] \in {"tested", "scripted", "truncated"}
  /\ Return(t)
  /\ UNCHANGED <<disk, xray, rules, marker, link, jobs>>

SysctlFails(t) ==
  /\ "sysctl" \in Faults /\ At(t, "written")
  /\ Failed(t)
  /\ UNCHANGED <<disk, xray, rules, marker, link, jobs>>

\* (Slip: the old process is not killed.)
LeaveXray(t) ==
  /\ At(t, "written")
  /\ Goto(t, "stopped")
  /\ UNCHANGED <<disk, xray, rules, marker, link, jobs>>

StopXray(t) ==
  /\ At(t, "written")
  /\ xray' = None
  /\ Goto(t, "stopped")
  /\ UNCHANGED <<disk, rules, marker, link, jobs>>

\* A second xray cannot bind the ports and exits; the first one stays.
Launch == xray' = IF xray = None THEN live ELSE xray

StartXray(t) ==
  /\ At(t, "stopped")
  /\ Launch
  /\ Goto(t, "started")
  /\ UNCHANGED <<disk, rules, marker, link, jobs>>

\* waitForXray: pidof finds any xray process, whoever started it.
WaitForXray(t) ==
  /\ At(t, "started")
  /\ IF xray # None THEN Goto(t, "hooking") ELSE Failed(t)
  /\ UNCHANGED <<disk, xray, rules, marker, link, jobs>>

RunIptables(t) ==
  /\ At(t, "hooking")
  /\ rules' = script
  /\ IF op[t] = "restart" THEN Finish(t) ELSE Goto(t, "probing")
  /\ UNCHANGED <<disk, xray, marker, link, jobs>>

\* waitHealthy: a probe through the SOCKS port succeeds before the deadline...
ProbeSucceeds(t) ==
  /\ At(t, "probing") /\ Connected
  /\ Goto(t, "healthy")
  /\ UNCHANGED <<disk, xray, rules, marker, link, jobs>>

\* ... or the last one before it fails.
ProbeTimesOut(t) ==
  /\ At(t, "probing") /\ ~Connected
  /\ Goto(t, "failing")
  /\ UNCHANGED <<disk, xray, rules, marker, link, jobs>>

\* (Slip: the marker stays.)
KeepMarker(t) ==
  /\ At(t, "healthy")
  /\ Return(t)
  /\ UNCHANGED <<disk, xray, rules, marker, link, jobs>>

\* FailOpenService.Disable
Disable(t) ==
  /\ At(t, "healthy")
  /\ marker' = FALSE
  /\ Return(t)
  /\ UNCHANGED <<disk, xray, rules, link, jobs>>

\* The client of an HTTP Apply went away: the test command, waitHealthy and the
\* teardown command all run under the cancelled context, so Apply returns from
\* them without fail-open.  (restartStack runs under WithoutCancel.)
ClientGone(t) ==
  /\ "disconnect" \in Faults /\ op[t] = "apply"
  /\ pc[t] \in {"staged", "probing", "failing"}
  /\ Finish(t)
  /\ UNCHANGED <<disk, xray, rules, marker, link, jobs>>

-----------------------------------------------------------------------------
(* FailOpenService.MaybeEnable: teardown first, then the marker.           *)

\* (Slip: fail-open only touches the marker.)
NoTeardown(t) ==
  /\ At(t, "failing") /\ FailOpenEnabled
  /\ Goto(t, "torndown")
  /\ UNCHANGED <<disk, xray, rules, marker, link, jobs>>

Teardown(t) ==
  /\ At(t, "failing") /\ FailOpenEnabled
  /\ rules' = None
  /\ Goto(t, "torndown")
  /\ UNCHANGED <<disk, xray, marker, link, jobs>>

WriteMarker(t) ==
  /\ At(t, "torndown")
  /\ marker' = TRUE
  /\ Return(t)
  /\ UNCHANGED <<disk, xray, rules, link, jobs>>

NoFailOpen(t) ==
  /\ At(t, "failing") /\ ~FailOpenEnabled
  /\ Return(t)
  /\ UNCHANGED <<disk, xray, rules, marker, link, jobs>>

-----------------------------------------------------------------------------
(* Watchdog.runOnce.                                                       *)

\* GetObservatory: live health when the xray API answers, else the cached one.
NodesAlive == IF ObservatoryOn /\ xray \in Good THEN link ELSE CachedAlive

\* DetectWatchdogOutage, once xray was seen running.
OutageUp == ~Connected /\ ~NodesAlive

StartOutage(t) ==
  \/ Generate(t, "outage")
  \/ RefreshOnOutage /\ Generate(t, "refresh")

DogLooks ==
  /\ "watchdog" \in Jobs /\ At(Dog, "idle")
  /\ IF xray = None THEN StartOutage(Dog) ELSE Goto(Dog, "sawUp")
  /\ UNCHANGED <<disk, xray, rules, marker, link, jobs>>

DogProbes ==
  /\ At(Dog, "sawUp")
  /\ \/ OutageUp /\ StartOutage(Dog)
     \/ ~OutageUp /\ marker /\ RestoreOnRecovery /\ Generate(Dog, "recover")
     \/ ~OutageUp /\ ~(marker /\ RestoreOnRecovery) /\ Finish(Dog)
  /\ UNCHANGED <<disk, xray, rules, marker, link, jobs>>

\* After the outage Apply: status again, and fail-open if it did not help.
Alarm(t) ==
  IF FailOpenEnabled
  THEN /\ pc' = [pc EXCEPT ![t] = "failing"]
       /\ op' = [op EXCEPT ![t] = "alarm"]
       /\ UNCHANGED snap
  ELSE Finish(t)

DogLooksAgain ==
  /\ At(Dog, "recheck")
  /\ IF xray = None THEN Alarm(Dog) ELSE Goto(Dog, "recheckUp")
  /\ UNCHANGED <<disk, xray, rules, marker, link, jobs>>

DogProbesAgain ==
  /\ At(Dog, "recheckUp")
  /\ IF OutageUp THEN Alarm(Dog) ELSE Finish(Dog)
  /\ UNCHANGED <<disk, xray, rules, marker, link, jobs>>

-----------------------------------------------------------------------------
(* The scripts on the router, outside the panel.                           *)

\* (Slip: a marker is taken to mean that the rules are gone.)
GuardTrustsMarker ==
  /\ "guard" \in Jobs /\ guard = "idle"
  /\ rules # None /\ xray = None /\ ~marker
  /\ guard' = "teardown"
  /\ UNCHANGED <<disk, xray, rules, marker, link, local, cron, startup>>

\* xiaomi-vless-failopen-guard.sh, every minute
GuardChecks ==
  /\ "guard" \in Jobs /\ guard = "idle"
  /\ rules # None /\ xray = None
  /\ guard' = "teardown"
  /\ UNCHANGED <<disk, xray, rules, marker, link, local, cron, startup>>

GuardTearsDown ==
  /\ guard = "teardown"
  /\ rules' = None
  /\ guard' = "mark"
  /\ UNCHANGED <<disk, xray, marker, link, local, cron, startup>>

GuardMarks ==
  /\ guard = "mark"
  /\ marker' = TRUE
  /\ guard' = "idle"
  /\ UNCHANGED <<disk, xray, rules, link, local, cron, startup>>

\* xray-guest-iptables-cron.sh, every two minutes
CronChecks ==
  /\ "cron" \in Jobs /\ cron = "idle"
  /\ ~marker /\ xray # None
  /\ cron' = "run"
  /\ UNCHANGED <<disk, xray, rules, marker, link, local, guard, startup>>

CronRuns ==
  /\ cron = "run"
  /\ rules' = script
  /\ cron' = "idle"
  /\ UNCHANGED <<disk, xray, marker, link, local, guard, startup>>

\* startup_xray_guest.sh: run at boot, by procd and by the updater, one at a time
StartupKills ==
  /\ "startup" \in Jobs /\ startup = "idle"
  /\ xray' = None
  /\ startup' = "launch"
  /\ UNCHANGED <<disk, rules, marker, link, local, guard, cron>>

StartupLaunches ==
  /\ startup = "launch"
  /\ Launch
  /\ startup' = "check"
  /\ UNCHANGED <<disk, rules, marker, link, local, guard, cron>>

StartupChecks ==
  /\ startup = "check"
  /\ startup' = IF xray = None THEN "failopen" ELSE "iptables"
  /\ UNCHANGED <<disk, xray, rules, marker, link, local, guard, cron>>

StartupTearsDown ==
  /\ startup = "failopen"
  /\ rules' = None
  /\ startup' = "mark"
  /\ UNCHANGED <<disk, xray, marker, link, local, guard, cron>>

StartupMarks ==
  /\ startup = "mark"
  /\ marker' = TRUE
  /\ startup' = "idle"
  /\ UNCHANGED <<disk, xray, rules, link, local, guard, cron>>

StartupHooks ==
  /\ startup = "iptables"
  /\ rules' = script
  /\ startup' = "unmark"
  /\ UNCHANGED <<disk, xray, marker, link, local, guard, cron>>

StartupUnmarks ==
  /\ startup = "unmark"
  /\ marker' = FALSE
  /\ startup' = "idle"
  /\ UNCHANGED <<disk, xray, rules, link, local, guard, cron>>

-----------------------------------------------------------------------------
(* The environment.                                                        *)

\* An xray started on a config it rejects is a process for a moment.
BadXrayExits ==
  /\ xray \notin Good \cup {None}
  /\ xray' = None
  /\ UNCHANGED <<disk, rules, marker, link, local, jobs>>

XrayCrashes ==
  /\ "xray" \in Faults /\ xray # None
  /\ xray' = None
  /\ UNCHANGED <<disk, rules, marker, link, local, jobs>>

Quiesced == [t \in Threads |-> "idle"]

\* The panel process dies and is started again; xray lives on in its own session.
PanelCrashes ==
  /\ "panel" \in Faults /\ pc # Quiesced
  /\ pc' = Quiesced
  /\ op' = [t \in Threads |-> "none"]
  /\ snap' = [t \in Threads |-> None]
  /\ UNCHANGED <<disk, xray, rules, marker, link, jobs>>

Reboots ==
  /\ "reboot" \in Faults
  /\ xray' = None /\ rules' = None
  /\ pc' = Quiesced
  /\ op' = [t \in Threads |-> "none"]
  /\ snap' = [t \in Threads |-> None]
  /\ guard' = "idle" /\ cron' = "idle" /\ startup' = "idle"
  /\ UNCHANGED <<disk, marker, link>>

LinkChanges ==
  /\ "link" \in Faults
  /\ link' = ~link
  /\ UNCHANGED <<disk, xray, rules, marker, local, jobs>>

UserEdits ==
  /\ "edit" \in Faults
  /\ want' \in Configs
  /\ UNCHANGED <<staging, live, script, xray, rules, marker, link, local, jobs>>

-----------------------------------------------------------------------------
ApplyStep(t) ==
  \/ WriteStaging(t) \/ TestPasses(t) \/ TestFails(t) \/ WriteScripts(t)
  \/ TruncateLive(t) \/ WriteLive(t) \/ StopXray(t) \/ StartXray(t)
  \/ WaitForXray(t) \/ RunIptables(t) \/ ProbeSucceeds(t) \/ ProbeTimesOut(t)
  \/ Disable(t) \/ Teardown(t) \/ WriteMarker(t) \/ NoFailOpen(t)

ApplyFault(t) ==
  PrepareFails(t) \/ InstallFails(t) \/ SysctlFails(t) \/ ClientGone(t)

DogStep == DogLooks \/ DogProbes \/ DogLooksAgain \/ DogProbesAgain

GuardStep == GuardChecks \/ GuardTearsDown \/ GuardMarks

CronStep == CronChecks \/ CronRuns

StartupStep ==
  \/ StartupLaunches \/ StartupChecks \/ StartupTearsDown \/ StartupMarks
  \/ StartupHooks \/ StartupUnmarks

Environment == XrayCrashes \/ PanelCrashes \/ Reboots \/ LinkChanges \/ UserEdits

Next ==
  \/ \E t \in Threads : BeginApply(t) \/ BeginRestart(t) \/ ApplyStep(t) \/ ApplyFault(t)
  \/ DogStep \/ GuardStep \/ CronStep \/ StartupKills \/ StartupStep
  \/ BadXrayExits \/ Environment

(***************************************************************************)
(* A thread that is inside a call takes its next step; the watchdog ticks; *)
(* cron runs its jobs; a started startup script goes on; a process that    *)
(* cannot run exits.  Nobody has to call Apply, start the startup script   *)
(* or disturb the system.                                                  *)
(***************************************************************************)
Fairness ==
  /\ \A t \in Threads : WF_vars(ApplyStep(t))
  /\ WF_vars(DogStep)
  /\ WF_vars(GuardStep)
  /\ WF_vars(CronStep)
  /\ WF_vars(StartupStep)
  /\ WF_vars(BadXrayExits)

Spec == Init /\ [][Next]_vars

FairSpec == Spec /\ Fairness

-----------------------------------------------------------------------------
(* Properties.                                                             *)

StackTypes ==
  /\ want \in Configs /\ staging \in Configs /\ script \in Configs
  /\ live \in Configs \cup {Torn}
  /\ xray \in Configs \cup {Torn, None}
  /\ rules \in Configs \cup {None}
  /\ marker \in BOOLEAN /\ link \in BOOLEAN

JobTypes ==
  /\ guard \in {"idle", "teardown", "mark"}
  /\ cron \in {"idle", "run"}
  /\ startup \in {"idle", "launch", "check", "failopen", "mark", "iptables", "unmark"}

ThreadTypes ==
  /\ pc \in [Threads -> Steps]
  /\ op \in [Threads -> Operations]
  /\ snap \in [Threads -> Configs \cup {None}]
  /\ \A t \in Threads : pc[t] \in Holding => snap[t] \in Configs

\* Every variable holds a value of its kind, and a thread that is going to write
\* a configuration has generated one (apply.go: the bytes are made before any file).
TypeOK == StackTypes /\ JobTypes /\ ThreadTypes

\* Guests are redirected into a port nobody serves: their internet is gone.
BlackHole == rules # None /\ xray \notin Good

\* A call that will notice: it still has to probe, or is on its way to fail-open.
InRestart(t) == pc[t] \in {"stopped", "started", "hooking", "probing", "failing"}

(***************************************************************************)
(* restartStack kills xray with the redirect rules in place, so guests are *)
(* cut off for a while by design.  Whatever the interleaving of Applies,   *)
(* the hole belongs to a call that is still running: none returns, with or *)
(* without an error, and leaves guests in it.  (apply.go: each error after *)
(* the kill goes through MaybeEnable, and OK is reported after a probe.)   *)
(***************************************************************************)
BlackHoleIsAttended == BlackHole => \E t \in Threads : InRestart(t)

(***************************************************************************)
(* The process that runs has the config that is on USB, unless a call has  *)
(* rewritten the file and not yet restarted: after any overlap of Applies, *)
(* Restarts, crashes of xray and startup scripts no stale process survives.*)
(***************************************************************************)
Rewriting(t) == pc[t] \in {"truncated", "written"}

RunningIsInstalled ==
  xray \in {None, live} \/ \E t \in Threads : Rewriting(t)

(***************************************************************************)
(* With one caller of Apply at a time, the config on USB is one `xray      *)
(* -test` accepted (or a file being written): apply.go tests the staging   *)
(* file and then writes its own copy of the same bytes.                    *)
(***************************************************************************)
InstalledIsTested == live \in Good \cup {Torn}

(***************************************************************************)
(* With one caller of Apply at a time and no crash, whenever no call is in *)
(* progress the redirect rules and the running process come from the same  *)
(* configuration: guests are sent to the port xray listens on.             *)
(***************************************************************************)
Resting ==
  /\ \A t \in Threads : pc[t] \in {"idle", "sawUp", "recheck", "recheckUp"}
  /\ startup = "idle"

RulesMatchXray ==
  Resting /\ rules # None /\ xray # None => rules = xray

(***************************************************************************)
(* The cron guard alone closes every black hole of a dead xray, also those *)
(* a crash of the panel, of xray or a stray cron refresh left behind.      *)
(***************************************************************************)
GuardClosesHole == (rules # None /\ xray = None) ~> (rules = None \/ xray # None)

\* The steps of the stack's own control loops: no request, no fault, no edit.  A
\* guard check that falls between the kill and the start of an Apply is not one.
Routine ==
  \/ \E t \in Threads : ApplyStep(t)
  \/ DogStep \/ CronStep \/ StartupStep \/ BadXrayExits
  \/ GuardStep /\ ~(GuardChecks /\ \E t \in Threads : pc[t] \in {"stopped", "started"})

\* From some time on nothing else happens.  (Stated by what does happen: a crash of an
\* idle panel looks like the return of a call.)
Calm == <>[][Routine]_vars

Served == rules # None /\ Connected /\ ~marker

(***************************************************************************)
(* Once the disturbances end with the VPN reachable and a configuration    *)
(* xray accepts, guests end up on the VPN for good, with fail-open         *)
(* cleared, whatever state the disturbances left: watchdog, guard and cron *)
(* refresh pull in one direction.                                          *)
(***************************************************************************)
GuestsRecover == Calm /\ <>[](link /\ want \in Good) => <>[]Served

(***************************************************************************)
(* Once the disturbances end with the VPN unreachable, guests get direct   *)
(* internet again and again: no state is left with the redirect in place   *)
(* for ever.  (The watchdog's own Apply puts it back for each attempt.)    *)
(***************************************************************************)
GuestsGoDirect == Calm /\ <>[](~link) => []<>(rules = None)

=============================================================================
