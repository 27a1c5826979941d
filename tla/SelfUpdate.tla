------------------------------ MODULE SelfUpdate ------------------------------
(***************************************************************************)
(* The panel updates itself on a router with procd or with nothing but     *)
(* shell: the panel process downloads and verifies a release, a detached   *)
(* script (panel-updater.sh) swaps the binary with the help of the binary's *)
(* own command line and restarts the panel, the new panel checks its       *)
(* health and asks for a rollback when it fails, and after a power cut     *)
(* panel, boot script and updater pick up at the phase in state.json.      *)
(*                                                                         *)
(* Nothing locks state.json: every actor loads it, works, and saves it.    *)
(* What is locked is the updater script and the boot script, each by flock *)
(* on descriptor 9, which the processes they start inherit: a lock is held *)
(* until the last of these is gone.                                        *)
(*                                                                         *)
(* Operators commented "(Slip: ...)" are not part of Next; each is the     *)
(* definition that follows it with a mistake a maintainer could make.      *)
(***************************************************************************)

CONSTANTS
  Downloads,  \* what can run Download at the same time: one per request that is not answered
  Passing,    \* versions whose health check passes on this router
  Requests,   \* what users ask for: "check", "download", "cancel", "apply", "rollback",
              \* "confirm", "status", and "again": a download after a backup was made
  Faults,     \* "power": it may fail, "panel": the panel may crash, "net": transfers
              \* break, "disk": it is full, "xray": others restart xray, "page": users act
              \* on a page that shows an earlier phase, "slow": a step takes over 90 s,
              \* "cron": it looks for the panel just while a script restarts it
  Flock,      \* the router has flock (otherwise a directory is the lock)
  Procd       \* procd restarts the panel (otherwise the script starts it itself)

ASSUME UpdateAssumption ==
  /\ {"main", "check", "apply", "rollback", "health"} \cap Downloads = {}
  /\ Passing \subseteq {"old", "new"}
  /\ Requests \subseteq {"check", "download", "cancel", "apply", "rollback", "confirm", "status",
                   "again"}
  /\ Faults \subseteq {"power", "panel", "net", "disk", "xray", "page", "slow", "cron"}
  /\ Flock \in BOOLEAN /\ Procd \in BOOLEAN

VARIABLES
  phase,     \* in updates/state.json
  archive,   \* the downloaded file: "none", "part", "gap" (some of its
             \* middle is missing), "full", or "bad" (no release)
  staging,   \* the unpacked release: "none", "part", "new"
  bin,       \* the panel binary: a version, "torn" while it is written, or "none"
  prev,      \* panel.previous, likewise
  panel,     \* the version of the running panel, or "none"
  pc,        \* next step of each task in the panel process
  spawned,   \* updater scripts that were started and have not tried the lock yet
  script,    \* next step of the updater script that holds the lock
  job,       \* what that script is doing
  boot,      \* next step of the boot script
  fd,        \* the lock panel and xray inherited: "none", "update", "boot"
  disturbed  \* ghost: archive and staging were not left to the download asked for last

bundle  == <<archive, staging>>
image   == <<bin, prev>>
process == <<panel, pc>>
updater == <<script, job>>
vars    == <<phase, archive, staging, bin, prev, panel, pc, spawned, script, job, boot, fd,
             disturbed>>

Versions == {"old", "new"}

Tasks == {"main", "check", "apply", "rollback", "health"} \cup Downloads

\* Downloads run in requests, and in main before the server starts.
Downloaders == Downloads \cup {"main"}

Quiet == [t \in Tasks |-> "idle"]

NeedsResume == {"downloading", "extracting", "applying", "restarting", "health_check"}

\* A router that was booted with the old version, which has not been updated before.
Init ==
  /\ phase = "idle" /\ archive = "none" /\ staging = "none"
  /\ bin = "old" /\ prev = "none"
  /\ panel = "old" /\ pc = [Quiet EXCEPT !["main"] = "serving"]
  /\ spawned = {} /\ script = "idle" /\ job = "none" /\ boot = "idle"
  /\ disturbed = FALSE
  /\ fd \in IF Flock THEN [panel : {"boot"}, xray : {"boot", "none"}]
                     ELSE {[panel |-> "none", xray |-> "none"]}

-----------------------------------------------------------------------------
(* Processes and locks.                                                    *)

UpdateLocked == script # "idle" \/ "update" \in {fd.panel, fd.xray}
BootLocked   == boot # "idle" \/ "boot" \in {fd.panel, fd.xray}

\* (Slip: a started panel counts as the holder of a lock that is a directory.)
AlwaysInherited(l) == l

\* The descriptor a child of a process with descriptor l gets.
Inherited(l) == IF Flock THEN l ELSE "none"

\* A second panel looks at the phase as the first one did, and exits as it cannot bind the port.
SecondPanel ==
  /\ phase' = IF phase = "restarting" THEN "health_check" ELSE phase
  /\ \/ UNCHANGED spawned
     \/ phase \in {"verified", "applying"} /\ spawned' = spawned \cup {"resume"}
  /\ UNCHANGED <<process, fd>>

StartPanel(l) ==
  \/ bin \notin Versions /\ UNCHANGED <<phase, process, spawned, fd>>
  \/ bin \in Versions /\ panel # "none" /\ SecondPanel
  \/ /\ bin \in Versions /\ panel = "none"
     /\ panel' = bin
     /\ pc' = [Quiet EXCEPT !["main"] = "resume"]
     /\ fd' = [fd EXCEPT !.panel = Inherited(l)]
     /\ UNCHANGED <<phase, spawned>>

KillPanel == panel' = "none" /\ pc' = Quiet /\ fd' = [fd EXCEPT !.panel = "none"]

\* An Apply started by a process with descriptor l restarts xray, or fails before.
ApplyStack(l) == fd' \in {fd, [fd EXCEPT !.xray = Inherited(l)]}

-----------------------------------------------------------------------------
(* The panel process.                                                      *)

At(t, step) == pc[t] = step

Goto(t, step) == pc' = [pc EXCEPT ![t] = step]

End(t) == Goto(t, IF t = "main" THEN "watch" ELSE "idle")

\* What the settings page offers in each phase.
Offered(t) ==
  CASE t = "download" -> phase \in {"idle", "failed", "rolled_back"}
    [] t = "cancel"   -> phase \in {"downloading", "extracting", "verified"}
    [] t = "apply"    -> phase = "verified"
    [] t = "confirm"  -> phase = "health_check"
    [] t = "rollback" -> prev \notin {"none", panel}
    [] OTHER          -> TRUE

\* One request of each kind but "download" is under way at a time; more would be no different.
Asked(t) ==
  /\ t \in Requests /\ At("main", "serving")
  /\ t \in Tasks \ Downloads => At(t, "idle")
  /\ Offered(t) \/ "page" \in Faults

Downloading(t) == pc[t] \in {"fetch", "receive", "unpack", "unpacking", "validate", "verified"}

\* From the backup until the old panel is gone a script works with the staged release.
Replacing == script \in {"backup", "backedUp", "replace", "install", "hooks", "mark", "kill"}

Another(t, step) == \E o \in Downloaders \ {t} : At(o, step)

InUse == Replacing \/ \E t \in Downloaders : Downloading(t)

\* (Slip: the staged release is trusted when the power failed while it was unpacked.)
ResumesTrustingStaging ==
  /\ At("main", "resume")
  /\ Goto("main", IF phase = "extracting" THEN "verified" ELSE "watch")
  /\ UNCHANGED <<phase, bundle, image, panel, spawned, updater, boot, fd, disturbed>>

\* (Slip: unpacking is not resumed.)
ResumesDownloadsOnly ==
  /\ At("main", "resume")
  /\ Goto("main", IF phase = "downloading" /\ panel = "old" THEN "fetch" ELSE "watch")
  /\ UNCHANGED <<phase, bundle, image, panel, spawned, updater, boot, fd, disturbed>>

\* ResumeOrVerify.  A panel that is not older than the release downloads nothing.
MainResumes ==
  /\ At("main", "resume")
  /\ \/ /\ phase = "downloading" /\ panel = "old"
        /\ Goto("main", "fetch")
        /\ disturbed' = (disturbed \/ Replacing)
        /\ UNCHANGED <<phase, spawned>>
     \/ /\ phase = "extracting" /\ archive # "none"
        /\ Goto("main", "unpack")
        /\ disturbed' = (disturbed \/ Replacing)
        /\ UNCHANGED <<phase, spawned>>
     \/ /\ phase = "extracting" /\ archive = "none"
        /\ phase' = "failed"
        /\ End("main")
        /\ UNCHANGED <<spawned, disturbed>>
     \/ /\ phase \in {"verified", "applying"}
        /\ spawned' = spawned \cup {"resume"}
        /\ End("main")
        /\ UNCHANGED <<phase, disturbed>>
     \/ /\ phase \notin {"extracting", "verified", "applying"}
        /\ phase = "downloading" => panel # "old"
        /\ End("main")
        /\ UNCHANGED <<phase, spawned, disturbed>>
  /\ UNCHANGED <<bundle, image, panel, updater, boot, fd>>

\* StartHealthCheckIfNeeded, and the server starts
MainWatches ==
  /\ At("main", "watch")
  /\ LET unchecked == phase \in {"restarting", "health_check"}
     IN  /\ phase' = IF unchecked THEN "health_check" ELSE phase
         /\ pc' = [pc EXCEPT !["main"] = "serving",
                             !["health"] = IF unchecked THEN "post" ELSE @]
  /\ UNCHANGED <<bundle, image, panel, spawned, updater, boot, fd, disturbed>>

BeginCheck ==
  /\ Asked("check")
  /\ phase \in {"idle", "completed", "rolled_back", "downloading"}
  /\ Goto("check", "fetch")
  /\ UNCHANGED <<phase, bundle, image, panel, spawned, updater, boot, fd, disturbed>>

\* The release is known; the phase is saved as it was decided before the request went out.
EndCheck ==
  /\ At("check", "fetch")
  /\ phase' = "idle"
  /\ Goto("check", "idle")
  /\ UNCHANGED <<bundle, image, panel, spawned, updater, boot, fd, disturbed>>

\* Neither the phase nor a download that is under way keeps Download from starting.
BeginDownload(t) ==
  /\ Asked("download") /\ panel = "old" /\ At(t, "idle")
  /\ prev # "none" => "again" \in Requests
  /\ phase' = "downloading"
  /\ Goto(t, "fetch")
  /\ disturbed' = InUse
  /\ UNCHANGED <<bundle, image, panel, spawned, updater, boot, fd>>

\* DownloadArchive asks for what is missing; but to a file that is whole the server answers
\* 416, and the body of that answer becomes the archive.
Fetch(t) ==
  /\ At(t, "fetch")
  /\ archive' = IF archive \in {"none", "part"} THEN "part" ELSE "bad"
  /\ Goto(t, "receive")
  /\ UNCHANGED <<phase, staging, image, panel, spawned, updater, boot, fd, disturbed>>

\* The rest arrives, unless the file was removed.  Where two write one file the first to end
\* may leave a gap, which the second may fill.
Receive(t) ==
  /\ At(t, "receive")
  /\ \/ archive \in {"part", "gap"} /\ archive' = "full"
     \/ archive = "part" /\ Another(t, "receive") /\ archive' = "gap"
     \/ archive # "part" /\ UNCHANGED archive
  /\ phase' = "extracting"
  /\ Goto(t, "unpack")
  /\ UNCHANGED <<staging, image, panel, spawned, updater, boot, fd, disturbed>>

\* It breaks off, and is tried again or given up.
FetchBreaks(t) ==
  /\ "net" \in Faults /\ pc[t] \in {"fetch", "receive"}
  /\ \/ phase' = "downloading" /\ Goto(t, "fetch")
     \/ phase' = "failed" /\ End(t)
  /\ \/ UNCHANGED archive
     \/ archive = "part" /\ Another(t, "receive") /\ archive' = "gap"
  /\ UNCHANGED <<staging, image, panel, spawned, updater, boot, fd, disturbed>>

\* ExtractArchive empties staging first.
Unpack(t) ==
  /\ At(t, "unpack")
  /\ staging' = "part"
  /\ Goto(t, "unpacking")
  /\ UNCHANGED <<phase, archive, image, panel, spawned, updater, boot, fd, disturbed>>

\* What another download or a Cancel has removed meanwhile is missing.
Unpacked(t) ==
  /\ At(t, "unpacking")
  /\ \/ /\ archive = "full"
        /\ Goto(t, "validate")
        /\ \/ staging' = "new"
           \/ staging = "none" /\ staging' = "part"
           \/ Another(t, "unpacking") /\ staging' = "part"
        /\ UNCHANGED phase
     \/ /\ archive # "full"
        /\ phase' = "failed" /\ End(t)
        /\ UNCHANGED staging
  /\ UNCHANGED <<archive, image, panel, spawned, updater, boot, fd, disturbed>>

\* Manifest and checksums
Validate(t) ==
  /\ At(t, "validate")
  /\ IF staging = "new"
     THEN Goto(t, "verified") /\ UNCHANGED phase
     ELSE phase' = "failed" /\ End(t)
  /\ UNCHANGED <<bundle, image, panel, spawned, updater, boot, fd, disturbed>>

Verified(t) ==
  /\ At(t, "verified")
  /\ phase' = "verified"
  /\ End(t)
  /\ UNCHANGED <<bundle, image, panel, spawned, updater, boot, fd, disturbed>>

\* Requests that wait for nothing are one step.  Cancel and Confirm remove the archive that
\* state.json names, if it still names one; Cancel does not stop a download.
Cleanup ==
  /\ archive' \in {"none", archive} /\ staging' = "none"
  /\ phase' = "idle"
  /\ disturbed' = (disturbed \/ InUse)
  /\ UNCHANGED <<image, process, spawned, updater, boot, fd>>

Cancel == Asked("cancel") /\ Cleanup

Confirm == Asked("confirm") /\ phase \in {"health_check", "completed"} /\ Cleanup

\* Service.Apply: the phase is checked and saved, then the script is started.
BeginApply ==
  /\ Asked("apply") /\ phase = "verified" /\ staging # "none"
  /\ phase' = "applying"
  /\ Goto("apply", "spawn")
  /\ UNCHANGED <<bundle, image, panel, spawned, updater, boot, fd, disturbed>>

BeginRollback ==
  /\ Asked("rollback") /\ prev # "none"
  /\ phase' = "restarting"
  /\ Goto("rollback", "spawn")
  /\ UNCHANGED <<bundle, image, panel, spawned, updater, boot, fd, disturbed>>

\* spawnUpdaterScript
Spawn(t, action) ==
  /\ At(t, "spawn")
  /\ spawned' = spawned \cup {action}
  /\ Goto(t, "idle")
  /\ UNCHANGED <<phase, bundle, image, panel, updater, boot, fd, disturbed>>

AtWork ==
  script # "idle" \/ spawned # {} \/ boot # "idle" \/ pc # [Quiet EXCEPT !["main"] = "serving"]

\* The status page finds a phase that has not moved for 90 s.
Poll ==
  /\ "status" \in Requests /\ At("main", "serving")
  /\ phase \in NeedsResume
  /\ AtWork => "slow" \in Faults
  /\ spawned' = spawned \cup {"resume"}
  /\ UNCHANGED <<phase, bundle, image, process, updater, boot, fd, disturbed>>

HealthPosts ==
  /\ At("health", "post")
  /\ ApplyStack(fd.panel)
  /\ Goto("health", "check")
  /\ UNCHANGED <<phase, bundle, image, panel, spawned, updater, boot, disturbed>>

\* RunHealthChecks
Healthy == panel \in Passing /\ bin # "none"

\* "completed" is saved and reset at once; the archive stays.
HealthPasses ==
  /\ At("health", "check") /\ Healthy
  /\ staging' = "none"
  /\ phase' = "idle"
  /\ Goto("health", "idle")
  /\ disturbed' = (disturbed \/ InUse)
  /\ UNCHANGED <<archive, image, panel, spawned, updater, boot, fd>>

\* (Slip: the failure is saved but nobody is told to roll back.)
HealthFailsQuietly ==
  /\ At("health", "check") /\ ~Healthy
  /\ phase' = "health_check"
  /\ Goto("health", "idle")
  /\ UNCHANGED <<bundle, image, panel, spawned, updater, boot, fd, disturbed>>

HealthFails ==
  /\ At("health", "check") /\ ~Healthy
  /\ phase' = "health_check"
  /\ Goto("health", "spawn")
  /\ UNCHANGED <<bundle, image, panel, spawned, updater, boot, fd, disturbed>>

-----------------------------------------------------------------------------
(* panel-updater.sh and the command line of the panel it calls.            *)

ScriptGoes(step) == script' = step /\ UNCHANGED job

ScriptExits == script' = "idle" /\ job' = "none"

\* with_lock: "another updater is running"
ScriptStarts(action) ==
  /\ action \in spawned
  /\ spawned' = spawned \ {action}
  /\ IF UpdateLocked THEN UNCHANGED updater ELSE script' = "begin" /\ job' = action
  /\ UNCHANGED <<phase, bundle, image, process, boot, fd, disturbed>>

\* read_phase: without a binary that runs, the answer is "idle".
ReadPhase == IF bin \in Versions THEN phase ELSE "idle"

\* do_apply and do_resume up to their first effect
ScriptReads ==
  /\ script = "begin" /\ job \in {"apply", "resume"}
  /\ \/ ReadPhase \in {"verified", "applying"} /\ script' = "accept" /\ job' = "apply"
     \/ job = "resume" /\ ReadPhase = "restarting" /\ ScriptGoes("kill")
     \/ job = "resume" /\ ReadPhase = "health_check" /\ script' = "kill" /\ job' = "restart"
     \/ /\ ReadPhase \notin {"verified", "applying"}
        /\ job = "apply" \/ ReadPhase \notin {"restarting", "health_check"}
        /\ ScriptExits
  /\ UNCHANGED <<phase, bundle, image, process, spawned, boot, fd, disturbed>>

\* CLIUpdaterApply checks the phase again, saves it, and looks for the staged panel.
CliAccepts ==
  /\ script = "accept"
  /\ \/ /\ phase \in {"verified", "applying"}
        /\ phase' = "applying"
        /\ \/ staging # "none" /\ ScriptGoes("backup")
           \/ staging # "new" /\ ScriptExits
     \/ /\ phase \notin {"verified", "applying"}
        /\ ScriptExits
        /\ UNCHANGED phase
  /\ UNCHANGED <<bundle, image, process, spawned, boot, fd, disturbed>>

\* backupPanel: panel.previous is truncated, then written.
CliBacksUp ==
  /\ script = "backup"
  /\ prev' = "torn"
  /\ ScriptGoes("backedUp")
  /\ UNCHANGED <<phase, bundle, bin, process, spawned, boot, fd, disturbed>>

\* (Slip: the panel is replaced first, and then backed up.)
BacksUpReplaced ==
  /\ script = "backedUp" /\ staging = "new"
  /\ bin' = "new" /\ prev' = "new"
  /\ ScriptGoes("install")
  /\ UNCHANGED <<phase, bundle, process, spawned, boot, fd, disturbed>>

CliBackedUp ==
  /\ script = "backedUp"
  /\ prev' = bin
  /\ ScriptGoes("replace")
  /\ UNCHANGED <<phase, bundle, bin, process, spawned, boot, fd, disturbed>>

\* (Slip: the release is copied over the panel.)
CopiesOverPanel ==
  /\ script = "replace"
  /\ bin' \in {"torn", "new"}
  /\ IF bin' = "new" THEN ScriptGoes("install") ELSE ScriptExits
  /\ UNCHANGED <<phase, bundle, prev, process, spawned, boot, fd, disturbed>>

\* atomicReplace: written beside the panel and renamed over it
CliReplaces ==
  /\ script = "replace"
  /\ \/ staging = "new" /\ bin' = "new" /\ ScriptGoes("install")
     \/ staging = "part" /\ bin' = "torn" /\ ScriptGoes("install")
     \/ staging # "new" /\ UNCHANGED bin /\ ScriptExits
  /\ UNCHANGED <<phase, bundle, prev, process, spawned, boot, fd, disturbed>>

CliInstalls ==
  /\ script = "install"
  /\ phase' = "restarting"
  /\ ScriptGoes("hooks")
  /\ UNCHANGED <<bundle, image, process, spawned, boot, fd, disturbed>>

\* install_flash_hooks and run_post_update
ScriptPosts ==
  /\ script = "hooks"
  /\ ApplyStack("update")
  /\ ScriptGoes("mark")
  /\ UNCHANGED <<phase, bundle, image, process, spawned, boot, disturbed>>

\* write_phase; the script ends (set -e) when the binary does not run.
WritePhase(p) ==
  phase' = IF bin \in Versions THEN p ELSE phase

ScriptMarks ==
  /\ script = "mark"
  /\ WritePhase("restarting")
  /\ IF bin \in Versions THEN ScriptGoes("kill") ELSE ScriptExits
  /\ UNCHANGED <<bundle, image, process, spawned, boot, fd, disturbed>>

ScriptKills ==
  /\ script = "kill"
  /\ KillPanel
  /\ ScriptGoes("start")
  /\ UNCHANGED <<phase, bundle, image, spawned, boot, disturbed>>

ScriptStartsPanel ==
  /\ script = "start"
  /\ StartPanel(IF Procd THEN "none" ELSE "update")
  /\ \/ job \in {"apply", "restart"} /\ ScriptExits
     \/ job = "resume" /\ ScriptGoes("markHealth")
     \/ job = "rollback" /\ ScriptGoes("restartXray")
  /\ UNCHANGED <<bundle, image, boot, disturbed>>

ScriptMarksHealth ==
  /\ script = "markHealth"
  /\ WritePhase("health_check")
  /\ ScriptExits
  /\ UNCHANGED <<bundle, image, process, spawned, boot, fd, disturbed>>

\* CLIRollback: the panel is moved away, and panel.previous copied in its place.
CliMovesAway ==
  /\ script = "begin" /\ job = "rollback"
  /\ IF prev # "none" /\ bin \in Versions
     THEN bin' = "none" /\ ScriptGoes("moved")
     ELSE UNCHANGED bin /\ ScriptExits
  /\ UNCHANGED <<phase, bundle, prev, process, spawned, boot, fd, disturbed>>

CliRestores ==
  /\ script = "moved"
  /\ bin' = "torn"
  /\ ScriptGoes("restoring")
  /\ UNCHANGED <<phase, bundle, prev, process, spawned, boot, fd, disturbed>>

CliRestored ==
  /\ script = "restoring"
  /\ bin' = prev
  /\ ScriptGoes("restored")
  /\ UNCHANGED <<phase, bundle, prev, process, spawned, boot, fd, disturbed>>

CliSavesRollback ==
  /\ script = "restored"
  /\ phase' = "restarting"
  /\ ScriptGoes("kill")
  /\ UNCHANGED <<bundle, image, process, spawned, boot, fd, disturbed>>

ScriptRestartsXray ==
  /\ script = "restartXray"
  /\ ApplyStack("none")
  /\ ScriptGoes("markRolledBack")
  /\ UNCHANGED <<phase, bundle, image, process, spawned, boot, disturbed>>

ScriptMarksRolledBack ==
  /\ script = "markRolledBack"
  /\ WritePhase("rolled_back")
  /\ ScriptExits
  /\ UNCHANGED <<bundle, image, process, spawned, boot, fd, disturbed>>

\* The disk is full while the script or the CLI copies panel.json, a binary, scripts or hooks.
CopyFails ==
  /\ "disk" \in Faults
  /\ script \in {"accept", "backedUp", "replace", "install", "hooks", "moved", "restoring"}
  /\ ScriptExits
  /\ UNCHANGED <<phase, bundle, image, process, spawned, boot, fd, disturbed>>

-----------------------------------------------------------------------------
(* boot-xiaomi-vless.sh: at boot, and every minute that finds no panel.    *)

\* Steps of the script that are processes called panel, and die by `killall panel`.
Cli == {"begin", "accept", "backup", "backedUp", "replace", "install", "mark", "markHealth",
        "moved", "restoring", "restored", "markRolledBack"}

BootBegins ==
  /\ panel = "none" /\ bin # "none" /\ ~BootLocked
  /\ script # "idle" => "cron" \in Faults
  /\ boot' = "kill"
  /\ UNCHANGED <<phase, bundle, image, process, spawned, updater, fd, disturbed>>

BootKills ==
  /\ boot = "kill"
  /\ KillPanel
  /\ UNCHANGED updater \/ (script \in Cli /\ ScriptExits)
  /\ boot' = "start"
  /\ UNCHANGED <<phase, bundle, image, spawned, disturbed>>

BootStarts ==
  /\ boot = "start"
  /\ StartPanel("boot")
  /\ boot' = "resume"
  /\ UNCHANGED <<bundle, image, updater, disturbed>>

\* (Slip: the directory that is the lock is not removed when the script ends.)
BootNeverUnlocks ==
  /\ boot = "resume"
  /\ spawned' = spawned \cup {"resume"}
  /\ UNCHANGED <<phase, bundle, image, process, updater, boot, fd, disturbed>>

BootResumes ==
  /\ boot = "resume"
  /\ spawned' = spawned \cup {"resume"}
  /\ boot' = "idle"
  /\ UNCHANGED <<phase, bundle, image, process, updater, fd, disturbed>>

-----------------------------------------------------------------------------
(* The environment.                                                        *)

PowerFails ==
  /\ "power" \in Faults
  /\ panel' = "none" /\ pc' = Quiet
  /\ spawned' = {} /\ script' = "idle" /\ job' = "none" /\ boot' = "idle"
  /\ fd' = [panel |-> "none", xray |-> "none"]
  /\ UNCHANGED <<phase, bundle, image, disturbed>>

PanelCrashes ==
  /\ "panel" \in Faults /\ panel # "none"
  /\ KillPanel
  /\ UNCHANGED <<phase, bundle, image, spawned, updater, boot, disturbed>>

\* xray is restarted by the watchdog or a request, or crashes and is started at boot.
XrayRestarts ==
  /\ "xray" \in Faults
  /\ \E l \in {fd.panel, "none"} : fd' = [fd EXCEPT !.xray = l]
  /\ UNCHANGED <<phase, bundle, image, process, spawned, updater, boot, disturbed>>

-----------------------------------------------------------------------------
DownloadStep(t) ==
  Fetch(t) \/ Receive(t) \/ Unpack(t) \/ Unpacked(t) \/ Validate(t) \/ Verified(t)

HealthStep ==
  HealthPosts \/ HealthPasses \/ HealthFails \/ Spawn("health", "rollback")

TaskStep ==
  \/ MainResumes \/ MainWatches \/ \E t \in Downloaders : DownloadStep(t)
  \/ EndCheck \/ Spawn("apply", "apply") \/ Spawn("rollback", "rollback") \/ HealthStep

Request ==
  \/ \E t \in Downloads : BeginDownload(t)
  \/ BeginCheck \/ Cancel \/ BeginApply \/ BeginRollback \/ Confirm

ScriptStep ==
  \/ ScriptReads \/ CliAccepts \/ CliBacksUp \/ CliBackedUp \/ CliReplaces \/ CliInstalls
  \/ ScriptPosts \/ ScriptMarks \/ ScriptKills \/ ScriptStartsPanel \/ ScriptMarksHealth
  \/ CliMovesAway \/ CliRestores \/ CliRestored \/ CliSavesRollback \/ ScriptRestartsXray
  \/ ScriptMarksRolledBack

BootRuns == BootKills \/ BootStarts \/ BootResumes

Environment ==
  \/ \E t \in Downloaders : FetchBreaks(t)
  \/ CopyFails \/ PowerFails \/ PanelCrashes \/ XrayRestarts

Next ==
  \/ TaskStep \/ Request \/ Poll
  \/ \E action \in {"apply", "rollback", "resume"} : ScriptStarts(action)
  \/ ScriptStep \/ BootBegins \/ BootRuns \/ Environment

Spec == Init /\ [][Next]_vars

\* What the router does by itself: goroutines and scripts go on, cron finds that the panel
\* is gone and no script is about to start it, and a page somebody has left open polls.
Routine ==
  \/ TaskStep \/ (Poll /\ ~AtWork)
  \/ \E action \in {"apply", "rollback", "resume"} : ScriptStarts(action)
  \/ ScriptStep \/ BootRuns \/ (BootBegins /\ script = "idle" /\ spawned = {})

Fairness ==
  /\ \A t \in Downloaders : WF_vars(DownloadStep(t))
  /\ WF_vars(MainResumes) /\ WF_vars(MainWatches)
  /\ WF_vars(EndCheck)
  /\ WF_vars(Spawn("apply", "apply")) /\ WF_vars(Spawn("rollback", "rollback"))
  /\ WF_vars(HealthStep)
  /\ \A action \in {"apply", "rollback", "resume"} : WF_vars(ScriptStarts(action))
  /\ WF_vars(ScriptStep) /\ WF_vars(BootBegins) /\ WF_vars(BootRuns)

FairSpec == Spec /\ Fairness

\* From some time on nobody asks for anything and nothing fails.
Calm == <>[][Routine]_vars

-----------------------------------------------------------------------------
Phases == NeedsResume \cup {"idle", "verified", "failed", "rolled_back"}
Images == Versions \cup {"torn", "none"}

\* Types, and that tasks live in a panel process and descriptors need flock.
TypeOK ==
  /\ phase \in Phases
  /\ archive \in {"none", "part", "gap", "full", "bad"} /\ staging \in {"none", "part", "new"}
  /\ bin \in Images /\ prev \in Images
  /\ panel \in Versions \cup {"none"}
  /\ pc \in [Tasks -> {"idle", "resume", "watch", "serving", "fetch", "receive", "unpack",
                       "unpacking", "validate", "verified", "spawn", "post", "check"}]
  /\ panel = "none" => pc = Quiet
  /\ spawned \subseteq {"apply", "rollback", "resume"}
  /\ script \in Cli \cup {"idle", "hooks", "kill", "start", "restartXray"}
  /\ job \in {"none", "apply", "rollback", "resume", "restart"}
  /\ (script = "idle") <=> (job = "none")
  /\ boot \in {"idle", "kill", "start", "resume"} /\ disturbed \in BOOLEAN
  /\ fd \in [panel : {"none", "update", "boot"}, xray : {"none", "update", "boot"}]
  /\ ~Flock => fd = [panel |-> "none", xray |-> "none"]

\* Nothing but a rollback, which moves the panel away first, takes away a panel that starts:
\* what is copied over it is whole, whatever the transfer, a power cut, a crash or a full disk
\* left in staging, unless a second download or a Cancel worked on the same files.
PanelStartable == [][bin' # bin => bin' \in Versions \/ disturbed \/ job = "rollback"]_vars

\* Apply and the scripts take the word of state.json: a phase "verified" means that a whole
\* release lies in staging, whatever the transfer, a concurrent check or a power cut did, if
\* no second download and no Cancel worked on the same files.
VerifiedIsComplete == phase = "verified" => staging = "new" \/ disturbed

\* "CanDownload disabled during active download" (CHANGELOG.md 55): Download is not offered
\* while a download is under way.
NotOfferedTwice == (\E t \in Downloads : Downloading(t)) => ~Offered("download")

\* A download does not hang: it ends, or fails, or is taken up again after a crash or a
\* power cut, unless an update has replaced the panel meanwhile or, once it is down, xray
\* holds the boot script's lock.
DownloadEnds ==
  Calm => [](phase \in {"downloading", "extracting"} =>
               <>(\/ phase \notin {"downloading", "extracting"}
                  \/ bin # "old"
                  \/ panel = "none" /\ fd.xray = "boot"))

\* Until the new version has passed its health check there is a way back: the backup is
\* the version the update replaced.
WayBack == bin = "new" /\ phase \in {"restarting", "health_check"} => prev = "old" \/ disturbed

\* A version that does not pass its health check is replaced by the one before it.
FailedCheckRollsBack ==
  Calm => [](bin = "new" /\ phase \in {"restarting", "health_check"} /\ ~disturbed
               => <>(panel = "old"))

\* A panel that crashed, was killed by a script or fell to a power cut is started again, if
\* its binary starts, and unless xray holds the boot script's lock.
PanelComesBack == Calm => []<>(panel # "none" \/ bin \notin Versions \/ fd.xray = "boot")

\* The watchdog of docs/autostart.md 14 starts a panel that went down, whoever holds what.
WatchdogStartsPanel == Calm => []<>(panel # "none")
=============================================================================
