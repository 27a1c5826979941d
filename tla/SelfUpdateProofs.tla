-------------------------- MODULE SelfUpdateProofs --------------------------
(***************************************************************************)
(* Proofs about SelfUpdate for any requests, faults and routers: types,    *)
(* the panel binary, the verified release and, where no fault cuts the     *)
(* scripts off, the way back.                                              *)
(***************************************************************************)
EXTENDS SelfUpdate, TLAPS

USE DEF Versions, Phases, Images, NeedsResume, Cli, At, Goto

-----------------------------------------------------------------------------
(* Types.                                                                  *)

LEMMA TaskNames ==
  /\ {"main", "check", "apply", "rollback", "health"} \subseteq Tasks
  /\ Downloads \subseteq Tasks /\ Downloaders = Downloads \cup {"main"}
  /\ {"main", "check", "apply", "rollback", "health"} \cap Downloads = {}
BY UpdateAssumption DEF Tasks, Downloaders

LEMMA QuietIs == Quiet \in [Tasks -> {"idle"}]
BY DEF Quiet

\* A task at work is in a panel that runs.
LEMMA Lives ==
  ASSUME TypeOK, NEW t \in Tasks, pc[t] # "idle"
  PROVE  panel # "none"
BY QuietIs DEF TypeOK

LEMMA TypeInit == Init => TypeOK
<1> SUFFICES ASSUME Init PROVE TypeOK
  OBVIOUS
<1>1. pc \in [Tasks -> {"idle", "serving"}] /\ panel = "old"
  BY QuietIs DEF Init
<1>2. /\ fd \in [panel : {"none", "boot"}, xray : {"none", "boot"}]
      /\ ~Flock => fd = [panel |-> "none", xray |-> "none"]
  BY DEF Init
<1> QED
  BY <1>1, <1>2 DEF Init, TypeOK

\* A panel that is started runs, and looks at the phase first.
LEMMA PanelStarts ==
  ASSUME NEW l, StartPanel(l)
  PROVE  /\ \/ UNCHANGED <<panel, pc>>
            \/ /\ bin \in Versions /\ panel = "none" /\ panel' = bin
               /\ pc' = [Quiet EXCEPT !["main"] = "resume"]
         /\ phase' = phase \/ (phase = "restarting" /\ phase' = "health_check")
         /\ bin \in Versions => panel' # "none"
         /\ spawned' \in {spawned, spawned \cup {"resume"}}
BY DEF StartPanel, SecondPanel, process

\* What a panel that starts makes of the phase.
LEMMA MainResumesBy ==
  ASSUME MainResumes
  PROVE  /\ pc["main"] = "resume"
         /\ UNCHANGED <<bundle, image, panel, updater, boot, fd>>
         /\ spawned' \in {spawned, spawned \cup {"resume"}}
         /\ \/ /\ pc' = [pc EXCEPT !["main"] = "fetch"] /\ phase = "downloading" /\ phase' = phase
               /\ panel = "old" /\ disturbed' = (disturbed \/ Replacing)
            \/ /\ pc' = [pc EXCEPT !["main"] = "unpack"] /\ phase = "extracting" /\ phase' = phase
               /\ disturbed' = (disturbed \/ Replacing)
            \/ /\ pc' = [pc EXCEPT !["main"] = "watch"] /\ disturbed' = disturbed
               /\ phase' = phase \/ (phase' = "failed" /\ phase = "extracting")
<1>1. Goto("main", IF "main" = "main" THEN "watch" ELSE "idle") = Goto("main", "watch")
  OBVIOUS
<1>2. pc["main"] = "resume" /\ UNCHANGED <<bundle, image, panel, updater, boot, fd>>
  BY DEF MainResumes
<1>3. spawned' = spawned \/ spawned' = spawned \cup {"resume"}
  BY DEF MainResumes
<1>4. \/ /\ pc' = [pc EXCEPT !["main"] = "fetch"] /\ phase = "downloading" /\ phase' = phase
         /\ panel = "old" /\ disturbed' = (disturbed \/ Replacing)
      \/ /\ pc' = [pc EXCEPT !["main"] = "unpack"] /\ phase = "extracting" /\ phase' = phase
         /\ disturbed' = (disturbed \/ Replacing)
      \/ /\ pc' = [pc EXCEPT !["main"] = "watch"] /\ disturbed' = disturbed
         /\ phase' = phase \/ (phase' = "failed" /\ phase = "extracting")
  BY <1>1 DEF MainResumes, End
<1> QED
  BY <1>2, <1>3, <1>4

LEMMA TypeTask == TypeOK /\ TaskStep => TypeOK'
<1> SUFFICES ASSUME TypeOK, TaskStep PROVE TypeOK'
  OBVIOUS
<1> USE DEF TypeOK
<1>1. CASE MainResumes
  <2>1. /\ panel # "none" /\ phase' \in Phases /\ disturbed' \in BOOLEAN
        /\ spawned' \subseteq {"apply", "rollback", "resume"}
    BY <1>1, MainResumesBy, Lives, TaskNames DEF Replacing
  <2>2. \E step \in {"fetch", "unpack", "watch"} : pc' = [pc EXCEPT !["main"] = step]
    BY <1>1, MainResumesBy
  <2>3. UNCHANGED <<archive, staging, bin, prev, panel, script, job, boot, fd>>
    BY <1>1, MainResumesBy DEF bundle, image, updater
  <2>4. pc' \in [Tasks -> {"idle", "resume", "watch", "serving", "fetch", "receive", "unpack",
                           "unpacking", "validate", "verified", "spawn", "post", "check"}]
    BY <2>2
  <2> QED
    BY <2>1, <2>3, <2>4
<1>2. CASE MainWatches
  BY <1>2, Lives, TaskNames DEF MainWatches, bundle, image, updater
<1>3. ASSUME NEW t \in Downloaders, DownloadStep(t) PROVE TypeOK'
  <2>1. CASE Fetch(t)
    BY <1>3, <2>1, Lives, TaskNames DEF Fetch, image, updater
  <2>6. CASE Receive(t)
    BY <1>3, <2>6, Lives, TaskNames DEF Receive, image, updater
  <2>2. CASE Unpack(t)
    BY <1>3, <2>2, Lives, TaskNames DEF Unpack, image, updater
  <2>3. CASE Unpacked(t)
    BY <1>3, <2>3, Lives, TaskNames DEF Unpacked, End, image, updater
  <2>4. CASE Validate(t)
    BY <1>3, <2>4, Lives, TaskNames DEF Validate, End, bundle, image, updater
  <2>5. CASE Verified(t)
    BY <1>3, <2>5, Lives, TaskNames DEF Verified, End, bundle, image, updater
  <2> QED
    BY <1>3, <2>1, <2>2, <2>3, <2>4, <2>5, <2>6 DEF DownloadStep
<1>4. CASE EndCheck
  BY <1>4, Lives, TaskNames DEF EndCheck, bundle, image, updater
<1>5. ASSUME NEW t \in {"apply", "rollback", "health"}, NEW action \in {"apply", "rollback"},
             Spawn(t, action)
      PROVE  TypeOK'
  BY <1>5, Lives, TaskNames DEF Spawn, bundle, image, updater
<1>6. CASE HealthPosts
  BY <1>6, Lives, TaskNames DEF HealthPosts, ApplyStack, Inherited, bundle, image, updater
<1>7. CASE HealthPasses
  BY <1>7, Lives, TaskNames DEF HealthPasses, InUse, Replacing, image, updater
<1>8. CASE HealthFails
  BY <1>8, Lives, TaskNames DEF HealthFails, bundle, image, updater
<1> QED
  BY <1>1, <1>2, <1>3, <1>4, <1>5, <1>6, <1>7, <1>8 DEF TaskStep, HealthStep

LEMMA TypeRequest == TypeOK /\ (Request \/ Poll) => TypeOK'
<1> SUFFICES ASSUME TypeOK, Request \/ Poll PROVE TypeOK'
  OBVIOUS
<1> USE DEF TypeOK, Asked
<1>1. CASE BeginCheck
  BY <1>1, Lives, TaskNames DEF BeginCheck, bundle, image, updater
<1>2. ASSUME NEW t \in Downloads, BeginDownload(t) PROVE TypeOK'
  BY <1>2, Lives, TaskNames DEF BeginDownload, InUse, Replacing, bundle, image, updater
<1>3. CASE Cancel \/ Confirm
  <2>1. Cleanup
    BY <1>3 DEF Cancel, Confirm
  <2> QED
    BY <2>1 DEF Cleanup, InUse, Replacing, image, process, updater
<1>4. CASE BeginApply
  BY <1>4, Lives, TaskNames DEF BeginApply, bundle, image, updater
<1>5. CASE BeginRollback
  BY <1>5, Lives, TaskNames DEF BeginRollback, bundle, image, updater
<1>6. CASE Poll
  BY <1>6 DEF Poll, bundle, image, process, updater
<1> QED
  BY <1>1, <1>2, <1>3, <1>4, <1>5, <1>6 DEF Request

LEMMA TypeStartPanel ==
  ASSUME TypeOK, NEW l \in {"none", "update", "boot"}, StartPanel(l)
  PROVE  /\ panel' \in Versions \cup {"none"}
         /\ pc' \in [Tasks -> {"idle", "resume", "watch", "serving", "fetch", "receive", "unpack",
                              "unpacking", "validate", "verified", "spawn", "post", "check"}]
         /\ phase' \in Phases /\ spawned' \subseteq {"apply", "rollback", "resume"}
         /\ panel' = "none" => pc' = Quiet
         /\ fd' \in [panel : {"none", "update", "boot"}, xray : {"none", "update", "boot"}]
         /\ ~Flock => fd' = [panel |-> "none", xray |-> "none"]
BY QuietIs DEF TypeOK, StartPanel, SecondPanel, Inherited, process

LEMMA TypeScript ==
  TypeOK /\ (ScriptStep \/ \E action \in {"apply", "rollback", "resume"} : ScriptStarts(action))
    => TypeOK'
<1> SUFFICES ASSUME TypeOK, ScriptStep
                      \/ \E action \in {"apply", "rollback", "resume"} : ScriptStarts(action)
             PROVE  TypeOK'
  OBVIOUS
<1> USE DEF TypeOK, ScriptGoes, ScriptExits
<1>1. CASE \E action \in {"apply", "rollback", "resume"} : ScriptStarts(action)
  BY <1>1 DEF ScriptStarts, bundle, image, process, updater
<1>2. CASE ScriptReads
  BY <1>2 DEF ScriptReads, bundle, image, process
<1>3. CASE CliAccepts
  BY <1>3 DEF CliAccepts, bundle, image, process
<1>4. CASE CliBacksUp
  BY <1>4 DEF CliBacksUp, bundle, process
<1>17. CASE CliBackedUp
  BY <1>17 DEF CliBackedUp, bundle, process
<1>5. CASE CliReplaces
  BY <1>5 DEF CliReplaces, bundle, process
<1>6. CASE CliInstalls
  BY <1>6 DEF CliInstalls, bundle, image, process
<1>7. CASE ScriptPosts
  BY <1>7 DEF ScriptPosts, ApplyStack, Inherited, bundle, image, process
<1>8. CASE ScriptMarks
  BY <1>8 DEF ScriptMarks, WritePhase, bundle, image, process
<1>9. CASE ScriptKills
  BY <1>9, QuietIs DEF ScriptKills, KillPanel, bundle, image
<1>10. CASE ScriptStartsPanel
  BY <1>10, TypeStartPanel DEF ScriptStartsPanel, bundle, image
<1>11. CASE ScriptMarksHealth
  BY <1>11 DEF ScriptMarksHealth, WritePhase, bundle, image, process
<1>12. CASE CliMovesAway
  BY <1>12 DEF CliMovesAway, bundle, process
<1>13. CASE CliRestores
  BY <1>13 DEF CliRestores, bundle, process
<1>18. CASE CliRestored
  BY <1>18 DEF CliRestored, bundle, process
<1>14. CASE CliSavesRollback
  BY <1>14 DEF CliSavesRollback, bundle, image, process
<1>15. CASE ScriptRestartsXray
  BY <1>15 DEF ScriptRestartsXray, ApplyStack, Inherited, bundle, image, process
<1>16. CASE ScriptMarksRolledBack
  BY <1>16 DEF ScriptMarksRolledBack, WritePhase, bundle, image, process
<1> QED
  BY <1>1, <1>2, <1>3, <1>4, <1>5, <1>6, <1>7, <1>8, <1>9, <1>10, <1>11, <1>12, <1>13, <1>14,
     <1>15, <1>16, <1>17, <1>18 DEF ScriptStep

LEMMA TypeBoot == TypeOK /\ (BootBegins \/ BootRuns) => TypeOK'
<1> SUFFICES ASSUME TypeOK, BootBegins \/ BootRuns PROVE TypeOK'
  OBVIOUS
<1> USE DEF TypeOK
<1>1. CASE BootBegins
  BY <1>1 DEF BootBegins, bundle, image, process, updater
<1>2. CASE BootKills
  BY <1>2, QuietIs DEF BootKills, KillPanel, ScriptExits, bundle, image, updater
<1>3. CASE BootStarts
  BY <1>3, TypeStartPanel DEF BootStarts, bundle, image, updater
<1>4. CASE BootResumes
  BY <1>4 DEF BootResumes, bundle, image, process, updater
<1> QED
  BY <1>1, <1>2, <1>3, <1>4 DEF BootRuns

LEMMA TypeEnvironment == TypeOK /\ Environment => TypeOK'
<1> SUFFICES ASSUME TypeOK, Environment PROVE TypeOK'
  OBVIOUS
<1> USE DEF TypeOK
<1>1. ASSUME NEW t \in Downloaders, FetchBreaks(t) PROVE TypeOK'
  BY <1>1, Lives, TaskNames DEF FetchBreaks, End, image, updater
<1>2. CASE CopyFails
  BY <1>2 DEF CopyFails, ScriptExits, bundle, image, process
<1>3. CASE PowerFails
  BY <1>3, QuietIs DEF PowerFails, bundle, image
<1>4. CASE PanelCrashes
  BY <1>4, QuietIs DEF PanelCrashes, KillPanel, bundle, image, updater
<1>5. CASE XrayRestarts
  BY <1>5 DEF XrayRestarts, bundle, image, process, updater
<1> QED
  BY <1>1, <1>2, <1>3, <1>4, <1>5 DEF Environment

LEMMA TypeNext == TypeOK /\ [Next]_vars => TypeOK'
<1>1. TypeOK /\ UNCHANGED vars => TypeOK'
  BY DEF TypeOK, vars
<1> QED
  BY <1>1, TypeTask, TypeRequest, TypeScript, TypeBoot, TypeEnvironment DEF Next

\* Every variable keeps its type: no task outlives its panel process, and where there is no
\* flock no process ever inherits a lock.
THEOREM TypeCorrect == Spec => []TypeOK
BY TypeInit, TypeNext, PTL DEF Spec

-----------------------------------------------------------------------------
(* The panel's tasks.                                                      *)

\* Requests, downloads and health checks wait for main to serve.
OneTask == pc["main"] # "serving" => \A t \in Tasks \ {"main"} : pc[t] = "idle"

TaskInv == TypeOK /\ OneTask

LEMMA OneTaskStep ==
  ASSUME TypeOK, OneTask, TaskStep
  PROVE  OneTask'
<1> USE TaskNames DEF TypeOK, OneTask
<1>1. CASE MainResumes
  BY <1>1, MainResumesBy DEF bundle, image, updater
<1>2. CASE MainWatches
  BY <1>2 DEF MainWatches, bundle, image, updater
<1>3. ASSUME NEW t \in Downloaders, Fetch(t) PROVE OneTask'
  BY <1>3 DEF Fetch, image, updater
<1>13. ASSUME NEW t \in Downloaders, Receive(t) PROVE OneTask'
  BY <1>13 DEF Receive, image, updater
<1>4. ASSUME NEW t \in Downloaders, Unpack(t) PROVE OneTask'
  BY <1>4 DEF Unpack, image, updater
<1>5. ASSUME NEW t \in Downloaders, Unpacked(t) PROVE OneTask'
  BY <1>5 DEF Unpacked, End, image, updater
<1>6. ASSUME NEW t \in Downloaders, Validate(t) PROVE OneTask'
  BY <1>6 DEF Validate, End, bundle, image, updater
<1>7. ASSUME NEW t \in Downloaders, Verified(t) PROVE OneTask'
  BY <1>7 DEF Verified, End, bundle, image, updater
<1>8. CASE EndCheck
  BY <1>8 DEF EndCheck, bundle, image, updater
<1>9. ASSUME NEW t \in {"apply", "rollback", "health"}, NEW action \in {"apply", "rollback"},
             t # "apply" <=> action = "rollback", Spawn(t, action)
      PROVE  OneTask'
  BY <1>9 DEF Spawn, bundle, image, updater
<1>10. CASE HealthPosts
  BY <1>10 DEF HealthPosts, bundle, image, updater
<1>11. CASE HealthPasses
  BY <1>11 DEF HealthPasses, image, updater
<1>12. CASE HealthFails
  BY <1>12 DEF HealthFails, bundle, image, updater
<1> QED
    BY <1>1, <1>2, <1>3, <1>4, <1>5, <1>6, <1>7, <1>8, <1>9, <1>10, <1>11, <1>12, <1>13 DEF TaskStep,
     HealthStep, DownloadStep

LEMMA OneRequest ==
  ASSUME TypeOK, OneTask, Request \/ Poll
  PROVE  OneTask'
<1> USE TaskNames DEF TypeOK, OneTask
<1>1. CASE BeginCheck
  BY <1>1 DEF BeginCheck, Asked, bundle, image, updater
<1>2. ASSUME NEW t \in Downloads, BeginDownload(t) PROVE OneTask'
  BY <1>2 DEF BeginDownload, Asked, bundle, image, updater
<1>3. CASE Cleanup
  BY <1>3 DEF Cleanup, image, process, updater
<1>4. CASE BeginApply
  BY <1>4 DEF BeginApply, Asked, bundle, image, updater
<1>5. CASE BeginRollback
  BY <1>5 DEF BeginRollback, Asked, bundle, image, updater
<1>6. CASE Poll
  BY <1>6 DEF Poll, bundle, image, process, updater
<1> QED
    BY <1>1, <1>2, <1>3, <1>4, <1>5, <1>6 DEF Request, Cancel, Confirm

LEMMA OneScript ==
  ASSUME TypeOK, OneTask, ScriptStep
           \/ \E action \in {"apply", "rollback", "resume"} : ScriptStarts(action)
  PROVE  OneTask'
<1> USE TaskNames DEF TypeOK, OneTask
<1>1. ASSUME NEW action \in {"apply", "rollback", "resume"}, ScriptStarts(action) PROVE OneTask'
  BY <1>1 DEF ScriptStarts, bundle, image, process, updater
<1>2. CASE ScriptReads
  BY <1>2 DEF ScriptReads, ReadPhase, bundle, image, process, ScriptGoes, ScriptExits
<1>3. CASE CliAccepts
  BY <1>3 DEF CliAccepts, bundle, image, process, ScriptGoes, ScriptExits
<1>4. CASE CliBacksUp
  BY <1>4 DEF CliBacksUp, bundle, process, ScriptGoes, ScriptExits
<1>5. CASE CliBackedUp
  BY <1>5 DEF CliBackedUp, bundle, process, ScriptGoes, ScriptExits
<1>6. CASE CliReplaces
  BY <1>6 DEF CliReplaces, bundle, process, ScriptGoes, ScriptExits
<1>7. CASE CliInstalls
  BY <1>7 DEF CliInstalls, bundle, image, process, ScriptGoes, ScriptExits
<1>8. CASE ScriptPosts
  BY <1>8 DEF ScriptPosts, bundle, image, process, ScriptGoes, ScriptExits
<1>9. CASE ScriptMarks
  BY <1>9 DEF ScriptMarks, WritePhase, bundle, image, process, ScriptGoes, ScriptExits
<1>10. CASE ScriptKills
  BY <1>10, QuietIs DEF ScriptKills, KillPanel, bundle, image, ScriptGoes, ScriptExits
<1>11. CASE ScriptStartsPanel
  BY <1>11, PanelStarts, QuietIs DEF ScriptStartsPanel
<1>12. CASE ScriptMarksHealth
  BY <1>12 DEF ScriptMarksHealth, WritePhase, bundle, image, process, ScriptGoes, ScriptExits
<1>13. CASE CliMovesAway
  BY <1>13 DEF CliMovesAway, bundle, process, ScriptGoes, ScriptExits
<1>14. CASE CliRestores
  BY <1>14 DEF CliRestores, bundle, process, ScriptGoes, ScriptExits
<1>15. CASE CliRestored
  BY <1>15 DEF CliRestored, bundle, process, ScriptGoes, ScriptExits
<1>16. CASE CliSavesRollback
  BY <1>16 DEF CliSavesRollback, bundle, image, process, ScriptGoes, ScriptExits
<1>17. CASE ScriptRestartsXray
  BY <1>17 DEF ScriptRestartsXray, bundle, image, process, ScriptGoes, ScriptExits
<1>18. CASE ScriptMarksRolledBack
  BY <1>18 DEF ScriptMarksRolledBack, WritePhase, bundle, image, process, ScriptGoes, ScriptExits
<1> QED
    BY <1>1, <1>2, <1>3, <1>4, <1>5, <1>6, <1>7, <1>8, <1>9, <1>10, <1>11, <1>12, <1>13, <1>14,
     <1>15, <1>16, <1>17, <1>18 DEF ScriptStep

LEMMA OneBoot ==
  ASSUME TypeOK, OneTask, BootBegins \/ BootRuns
  PROVE  OneTask'
<1> USE TaskNames DEF TypeOK, OneTask
<1>1. CASE BootBegins
  BY <1>1 DEF BootBegins, bundle, image, process, updater
<1>2. CASE BootKills
  BY <1>2, QuietIs DEF BootKills, KillPanel, ScriptExits, bundle, image, updater
<1>3. CASE BootStarts
  BY <1>3, PanelStarts, QuietIs DEF BootStarts
<1>4. CASE BootResumes
  BY <1>4 DEF BootResumes, bundle, image, process, updater
<1> QED
    BY <1>1, <1>2, <1>3, <1>4 DEF BootRuns

LEMMA OneEnvironment ==
  ASSUME TypeOK, OneTask, Environment
  PROVE  OneTask'
<1> USE TaskNames DEF TypeOK, OneTask
<1>1. ASSUME NEW t \in Downloaders, FetchBreaks(t) PROVE OneTask'
  BY <1>1 DEF FetchBreaks, End, image, updater
<1>2. CASE CopyFails
  BY <1>2 DEF CopyFails, ScriptExits, bundle, image, process
<1>3. CASE PowerFails
  BY <1>3, QuietIs DEF PowerFails, bundle, image
<1>4. CASE PanelCrashes
  BY <1>4, QuietIs DEF PanelCrashes, KillPanel, bundle, image, updater
<1>5. CASE XrayRestarts
  BY <1>5 DEF XrayRestarts, bundle, image, process, updater
<1> QED
    BY <1>1, <1>2, <1>3, <1>4, <1>5 DEF Environment

LEMMA TaskInit == Init => TaskInv
BY TypeInit, QuietIs DEF Init, TaskInv, OneTask

LEMMA TaskNext == TaskInv /\ [Next]_vars => TaskInv'
<1>1. TaskInv /\ UNCHANGED vars => OneTask'
  BY DEF TaskInv, OneTask, vars
<1> QED
  BY <1>1, TypeNext, OneTaskStep, OneRequest, OneScript, OneBoot, OneEnvironment DEF Next, TaskInv

-----------------------------------------------------------------------------
(* The staged release.                                                     *)

\* A script may copy from staging.
Copying == script \in {"backup", "backedUp", "replace"}

Working == \E t \in Downloaders : Downloading(t)

\* Files that are left to the download asked for last: one task writes them, they are whole
\* when it ends, and from then on nothing touches them until the update is over.
Staged ==
  /\ \A t, u \in Downloaders : Downloading(t) /\ Downloading(u) => t = u
  /\ phase \in {"verified", "applying"} \/ Copying => staging = "new" /\ ~Working
  /\ \A t \in Downloaders : pc[t] = "verified" => staging = "new"

Restoring == script \in {"moved", "restoring", "restored"} => job = "rollback"

StagedInv == (~disturbed => Staged) /\ Restoring

\* A step that begins nothing of what Staged speaks of.
Calmer ==
  /\ disturbed' = disturbed /\ staging' = staging
  /\ \A t \in Downloaders : /\ Downloading(t)' => Downloading(t)
                            /\ pc'[t] = "verified" => pc[t] = "verified"
  /\ phase' \in {"verified", "applying"} => phase \in {"verified", "applying"}
  /\ Copying' => Copying

LEMMA StagedStays ==
  ASSUME StagedInv, Calmer, Restoring'
  PROVE  StagedInv'
BY DEF StagedInv, Calmer, Staged, Working

LEMMA Alone ==
  ASSUME Staged, NEW t \in Downloaders, Downloading(t)
  PROVE  /\ \A u \in Downloaders \ {t} : ~Downloading(u)
         /\ phase \notin {"verified", "applying"} /\ ~Copying
BY DEF Staged, Working

LEMMA StagedDownload ==
  ASSUME TaskInv, StagedInv, NEW t \in Downloaders, DownloadStep(t) \/ FetchBreaks(t)
  PROVE  StagedInv'
<1>1. /\ t \in Tasks /\ Downloaders \subseteq Tasks /\ Downloading(t)
      /\ \A step : [pc EXCEPT ![t] = step][t] = step
  <2>1. t \in Tasks /\ Downloaders \subseteq Tasks
    BY TaskNames
  <2>2. \A step : [pc EXCEPT ![t] = step][t] = step
    BY <2>1 DEF TaskInv, TypeOK
  <2>3. Downloading(t)
    BY DEF Downloading, DownloadStep, FetchBreaks, Fetch, Receive, Unpack, Unpacked, Validate, Verified
  <2> QED
    BY <2>1, <2>2, <2>3
<1>2. UNCHANGED <<script, job, disturbed>>
  BY DEF DownloadStep, FetchBreaks, Fetch, Receive, Unpack, Unpacked, Validate, Verified, updater
<1>3. Restoring'
  BY <1>2 DEF StagedInv, Restoring
<1>4. SUFFICES ASSUME Staged PROVE Staged'
  BY <1>2, <1>3 DEF StagedInv
<1>5. /\ \A u \in Downloaders \ {t} : ~Downloading(u)
      /\ phase \notin {"verified", "applying"} /\ ~Copying /\ ~Copying'
  BY <1>1, <1>2, <1>4, Alone DEF Copying
<1>6. \A u \in Downloaders \ {t} : pc'[u] = pc[u]
  <2>1. \E step : pc' = [pc EXCEPT ![t] = step]
    BY DEF DownloadStep, FetchBreaks, Fetch, Receive, Unpack, Unpacked, Validate, Verified, End
  <2> QED
    BY <1>1, <2>1 DEF TaskInv, TypeOK
<1>7. \A u \in Downloaders \ {t} : ~Downloading(u)' /\ pc'[u] # "verified"
  BY <1>5, <1>6 DEF Downloading
<1>8. CASE phase' \notin {"verified", "applying"} /\ (pc'[t] = "verified" => staging' = "new")
  BY <1>5, <1>7, <1>8 DEF Staged
<1>9. CASE Verified(t)
  <2>1. staging' = "new" /\ ~Downloading(t)' /\ pc'[t] # "verified"
    BY <1>1, <1>4, <1>9 DEF Verified, End, Downloading, Staged, bundle
  <2> QED
    BY <1>7, <2>1 DEF Staged, Working
<1>10. CASE ~Verified(t)
  BY <1>1, <1>5, <1>8, <1>10
     DEF DownloadStep, FetchBreaks, Fetch, Receive, Unpack, Unpacked, Validate, End, bundle
<1> QED
  BY <1>9, <1>10

LEMMA StagedTask ==
  ASSUME TaskInv, StagedInv, TaskStep
  PROVE  StagedInv'
<1> USE DEF TaskInv, TypeOK
<1>1. CASE MainResumes
  <2>1. /\ pc["main"] = "resume" /\ UNCHANGED <<staging, script, job>> /\ Restoring'
        /\ \A t \in Downloaders \ {"main"} : ~Downloading(t) /\ ~Downloading(t)'
    BY <1>1, MainResumesBy, TaskNames
       DEF OneTask, Downloading, StagedInv, Restoring, bundle, updater
  <2>2. ~Downloading("main")
    BY <2>1 DEF Downloading
  <2>3. CASE pc' = [pc EXCEPT !["main"] = "watch"]
    <3>1. ~Downloading("main")' /\ pc'["main"] # "verified" /\ disturbed' = disturbed
      BY <1>1, <2>3, MainResumesBy, TaskNames DEF Downloading
    <3>2. Calmer
      BY <1>1, <2>1, <3>1, MainResumesBy DEF Calmer, Copying, Downloading
    <3> QED
      BY <2>1, <3>2, StagedStays
  <2>4. CASE pc' # [pc EXCEPT !["main"] = "watch"]
    <3>1. /\ phase' \notin {"verified", "applying"} /\ disturbed' = (disturbed \/ Replacing)
          /\ pc'["main"] \in {"fetch", "unpack"}
      BY <1>1, <2>4, MainResumesBy, TaskNames
    <3>2. ~disturbed' => ~Copying'
      BY <2>1, <3>1 DEF Replacing, Copying
    <3>3. \A t \in Downloaders : pc'[t] # "verified"
      BY <2>1, <3>1 DEF Downloading
    <3> QED
      BY <2>1, <3>1, <3>2, <3>3 DEF StagedInv, Staged
  <2> QED
    BY <2>3, <2>4
<1>2. CASE MainWatches
  <2>1. \A t \in Downloaders : pc'[t] = pc[t] \/ pc'[t] = "serving"
    BY <1>2, TaskNames DEF MainWatches
  <2>2. Calmer /\ Restoring'
    BY <1>2, <2>1 DEF MainWatches, Calmer, Downloading, Copying, StagedInv, Restoring, bundle,
                      updater
  <2> QED
    BY <2>2, StagedStays
<1>3. CASE EndCheck
  <2>1. Calmer /\ Restoring'
    BY <1>3, TaskNames DEF EndCheck, Calmer, Downloading, Copying, StagedInv, Restoring, bundle,
                           updater
  <2> QED
    BY <2>1, StagedStays
<1>4. ASSUME NEW t \in {"apply", "rollback", "health"}, NEW action, Spawn(t, action)
      PROVE  StagedInv'
  <2>1. Calmer /\ Restoring'
    BY <1>4, TaskNames DEF Spawn, Calmer, Downloading, Copying, StagedInv, Restoring, bundle,
                           updater
  <2> QED
    BY <2>1, StagedStays
<1>5. CASE HealthPosts \/ HealthFails
  <2>1. Calmer /\ Restoring'
    BY <1>5, TaskNames DEF HealthPosts, HealthFails, Calmer, Downloading, Copying, StagedInv,
                           Restoring, bundle, updater
  <2> QED
    BY <2>1, StagedStays
<1>6. CASE HealthPasses
  <2>1. /\ \A t \in Downloaders : pc'[t] = pc[t]
        /\ phase' = "idle" /\ disturbed' = (disturbed \/ InUse) /\ UNCHANGED updater
    BY <1>6, TaskNames DEF HealthPasses
  <2>2. ~disturbed' => ~Copying' /\ \A t \in Downloaders : ~Downloading(t)'
    BY <2>1 DEF InUse, Replacing, Copying, Downloading, updater
  <2>3. ~disturbed' => Staged'
    BY <2>1, <2>2 DEF Staged, Downloading
  <2> QED
    BY <2>1, <2>3 DEF StagedInv, Restoring, updater
<1> QED
  BY <1>1, <1>2, <1>3, <1>4, <1>5, <1>6, StagedDownload DEF TaskStep, HealthStep

LEMMA StagedRequest ==
  ASSUME TaskInv, StagedInv, Request \/ Poll
  PROVE  StagedInv'
<1> USE TaskNames DEF TaskInv, TypeOK
<1>1. CASE BeginCheck \/ BeginApply \/ BeginRollback
  <2>1. Calmer /\ Restoring'
    BY <1>1 DEF BeginCheck, BeginApply, BeginRollback, Calmer, Downloading, Copying, StagedInv,
                Restoring, bundle, updater
  <2> QED
    BY <2>1, StagedStays
<1>2. ASSUME NEW t \in Downloads, BeginDownload(t) PROVE StagedInv'
  <2>1. /\ pc'[t] = "fetch" /\ \A u \in Downloaders \ {t} : pc'[u] = pc[u]
        /\ phase' = "downloading" /\ disturbed' = InUse /\ UNCHANGED <<script, job>>
    BY <1>2 DEF BeginDownload, updater
  <2>2. ~disturbed' => ~Copying' /\ \A u \in Downloaders \ {t} : ~Downloading(u)'
    BY <2>1 DEF InUse, Replacing, Copying, Downloading
  <2>3. ~disturbed' => Staged'
    BY <2>1, <2>2 DEF Staged, Downloading
  <2> QED
    BY <2>1, <2>3 DEF StagedInv, Restoring
<1>3. CASE Cleanup
  <2>1. phase' = "idle" /\ disturbed' = (disturbed \/ InUse) /\ UNCHANGED <<pc, script, job>>
    BY <1>3 DEF Cleanup, process, updater
  <2>2. ~disturbed' => ~Copying' /\ \A u \in Downloaders : ~Downloading(u)'
    BY <2>1 DEF InUse, Replacing, Copying, Downloading
  <2>3. ~disturbed' => Staged'
    BY <2>1, <2>2 DEF Staged, Downloading
  <2> QED
    BY <2>1, <2>3 DEF StagedInv, Restoring
<1>4. CASE Poll
  <2>1. Calmer /\ Restoring'
    BY <1>4 DEF Poll, Calmer, Downloading, Copying, StagedInv, Restoring, bundle, process, updater
  <2> QED
    BY <2>1, StagedStays
<1> QED
  BY <1>1, <1>2, <1>3, <1>4 DEF Request, Cancel, Confirm

LEMMA StagedScript ==
  ASSUME TaskInv, StagedInv,
         ScriptStep \/ \E action \in {"apply", "rollback", "resume"} : ScriptStarts(action)
  PROVE  StagedInv'
<1> USE DEF ScriptGoes, ScriptExits, bundle, process
<1>1. CASE /\ UNCHANGED <<pc, staging, disturbed>> /\ Restoring' /\ (Copying' => Copying)
           /\ phase' \notin {"verified", "applying"} \/ UNCHANGED phase
  <2>1. Calmer
    BY <1>1 DEF Calmer, Downloading
  <2> QED
    BY <1>1, <2>1, StagedStays
<1>2. ASSUME NEW action \in {"apply", "rollback", "resume"}, ScriptStarts(action)
      PROVE  StagedInv'
  BY <1>1, <1>2 DEF ScriptStarts, StagedInv, Restoring, Copying, updater
<1>3. CASE ScriptReads
  BY <1>1, <1>3 DEF ScriptReads, Restoring, Copying
<1>4. CASE CliAccepts
  <2>1. /\ phase \notin {"verified", "applying"} => ~Copying' /\ UNCHANGED phase
        /\ UNCHANGED <<pc, staging, disturbed>> /\ Restoring'
    BY <1>4 DEF CliAccepts, Restoring, Copying
  <2>2. CASE phase \in {"verified", "applying"}
    BY <2>1, <2>2 DEF StagedInv, Staged, Working, Downloading
  <2>3. CASE phase \notin {"verified", "applying"}
    BY <1>1, <2>1, <2>3
  <2> QED
    BY <2>2, <2>3
<1>5. CASE CliBacksUp \/ CliBackedUp \/ CliReplaces \/ CliInstalls \/ ScriptPosts
  BY <1>1, <1>5 DEF CliBacksUp, CliBackedUp, CliReplaces, CliInstalls, ScriptPosts, Restoring,
                    Copying
<1>6. CASE ScriptMarks \/ ScriptMarksHealth \/ ScriptRestartsXray \/ ScriptMarksRolledBack
  BY <1>1, <1>6 DEF ScriptMarks, ScriptMarksHealth, ScriptRestartsXray, ScriptMarksRolledBack,
                    WritePhase, Restoring, Copying
<1>7. CASE CliMovesAway \/ CliRestores \/ CliRestored \/ CliSavesRollback
  BY <1>1, <1>7 DEF CliMovesAway, CliRestores, CliRestored, CliSavesRollback, StagedInv, Restoring,
                    Copying
<1>8. CASE ScriptKills
  <2>1. Calmer /\ Restoring'
    BY <1>8, QuietIs, TaskNames DEF ScriptKills, KillPanel, Calmer, Downloading, Copying, Restoring
  <2> QED
    BY <2>1, StagedStays
<1>9. CASE ScriptStartsPanel
  <2>1. /\ UNCHANGED <<staging, disturbed>> /\ ~Copying' /\ Restoring'
        /\ \E l : StartPanel(l)
    BY <1>9 DEF ScriptStartsPanel, Copying, Restoring
  <2>2. Calmer
    BY <2>1, PanelStarts, QuietIs, TaskNames DEF Calmer, Downloading
  <2> QED
    BY <2>1, <2>2, StagedStays
<1> QED
  BY <1>2, <1>3, <1>4, <1>5, <1>6, <1>7, <1>8, <1>9 DEF ScriptStep

LEMMA StagedOther ==
  ASSUME TaskInv, StagedInv, BootBegins \/ BootRuns \/ Environment \/ UNCHANGED vars
  PROVE  StagedInv'
<1> USE DEF bundle, image, process, updater
<1>1. CASE BootBegins \/ BootResumes \/ XrayRestarts \/ UNCHANGED vars
  <2>1. Calmer /\ Restoring'
    BY <1>1 DEF BootBegins, BootResumes, XrayRestarts, vars, Calmer, Downloading, Copying, StagedInv,
                Restoring
  <2> QED
    BY <2>1, StagedStays
<1>2. CASE BootKills \/ PowerFails \/ PanelCrashes \/ CopyFails
  <2>1. Calmer /\ Restoring'
    BY <1>2, QuietIs, TaskNames
       DEF BootKills, PowerFails, PanelCrashes, CopyFails, KillPanel, ScriptExits, Calmer,
           Downloading, Copying, StagedInv, Restoring
  <2> QED
    BY <2>1, StagedStays
<1>3. CASE BootStarts
  <2>1. UNCHANGED <<staging, disturbed, script, job>> /\ StartPanel("boot")
    BY <1>3 DEF BootStarts
  <2>2. Calmer /\ Restoring'
    BY <2>1, PanelStarts, QuietIs, TaskNames DEF Calmer, Downloading, Copying, StagedInv, Restoring
  <2> QED
    BY <2>2, StagedStays
<1> QED
  BY <1>1, <1>2, <1>3, StagedDownload DEF BootRuns, Environment

LEMMA StagedInit == Init => StagedInv
BY QuietIs, TaskNames DEF Init, StagedInv, Staged, Restoring, Copying, Working, Downloading

LEMMA StagedNext == TaskInv /\ StagedInv /\ [Next]_vars => StagedInv'
BY StagedTask, StagedRequest, StagedScript, StagedOther DEF Next

\* "verified" in state.json means a whole release in staging, for any requests, faults and
\* routers: downloads that break off and are resumed, several of them, checks that overwrite the
\* phase, crashes and power cuts at any step (service.go 156-246), if no other download and no
\* Cancel worked on the same files (VerifiedIsComplete).
THEOREM VerifiedAlwaysComplete == Spec => []VerifiedIsComplete
<1>1. StagedInv => VerifiedIsComplete
  BY DEF StagedInv, Staged, VerifiedIsComplete
<1> QED
  BY <1>1, TaskInit, TaskNext, StagedInit, StagedNext, PTL DEF Spec

\* Whatever is asked for, whatever fails and however scripts overlap: nothing but a rollback
\* replaces the panel binary by something that does not start, if no other download and no
\* Cancel worked on the files it was copied from (PanelStartable, cli.go 78-87).
THEOREM PanelAlwaysStartable == Spec => PanelStartable
<1>1. TaskInv /\ StagedInv /\ [Next]_vars =>
        (bin' # bin => bin' \in Versions \/ disturbed \/ job = "rollback")
  <2> SUFFICES ASSUME TaskInv, StagedInv, [Next]_vars, bin' # bin
               PROVE  bin' \in Versions \/ disturbed \/ job = "rollback"
    OBVIOUS
  <2>1. CliReplaces \/ CliMovesAway \/ CliRestores \/ CliRestored
    <3>1. ~TaskStep
      BY MainResumesBy
         DEF TaskStep, HealthStep, DownloadStep, MainWatches, EndCheck, Spawn, HealthPosts,
             HealthPasses, HealthFails, Fetch, Receive, Unpack, Unpacked, Validate, Verified, image
    <3>2. ~Request /\ ~Poll
      BY DEF Request, BeginCheck, BeginDownload, BeginApply, BeginRollback, Cancel, Confirm, Cleanup,
             Poll, image
    <3>3. ~BootBegins /\ ~BootRuns /\ ~Environment
      BY DEF BootBegins, BootRuns, BootKills, BootStarts, BootResumes, Environment, FetchBreaks,
             CopyFails, PowerFails, PanelCrashes, XrayRestarts, image
    <3>4. /\ ~UNCHANGED vars
          /\ \A action \in {"apply", "rollback", "resume"} : ~ScriptStarts(action)
      BY DEF vars, ScriptStarts, image
    <3>5. ScriptStep
      BY <3>1, <3>2, <3>3, <3>4 DEF Next
    <3> QED
      BY <3>5 DEF ScriptStep, ScriptReads, CliAccepts, CliBacksUp, CliBackedUp, CliInstalls,
                  ScriptPosts, ScriptMarks, ScriptKills, ScriptStartsPanel, ScriptMarksHealth,
                  CliSavesRollback, ScriptRestartsXray, ScriptMarksRolledBack, image
  <2>2. CASE CliReplaces
    BY <2>2 DEF CliReplaces, StagedInv, Staged, Copying
  <2>3. CASE CliMovesAway \/ CliRestores \/ CliRestored
    BY <2>3 DEF CliMovesAway, CliRestores, CliRestored, StagedInv, Restoring
  <2> QED
    BY <2>1, <2>2, <2>3
<1> QED
  BY <1>1, TaskInit, TaskNext, StagedInit, StagedNext, PTL DEF Spec, PanelStartable

-----------------------------------------------------------------------------
(* The way back.                                                           *)

\* No power cut, crash of the panel or full disk cuts off what a script runs, nor the boot
\* script, which cron starts where it finds no panel.
Uninterrupted == {"power", "panel", "disk", "cron"} \cap Faults = {}

\* Then only a script about to start the panel finds none, and the binaries it works with are
\* whole.
Unbroken ==
  /\ boot = "idle" /\ (panel = "none" <=> script = "start")
  /\ script \in {"accept", "backup", "backedUp", "replace", "restored", "kill", "start"} =>
       bin \in Versions
  /\ script \in {"moved", "restoring"} => prev \in Versions
  /\ prev = "torn" => script = "backedUp"

\* The old panel runs beside the new binary only until the script that replaced it has gone on,
\* and never again where it has no way back.
OldPanel ==
  /\ panel = "old" /\ bin = "new" => script \in {"install", "hooks", "mark", "kill"}
  /\ prev = "new" => panel # "old" /\ bin # "old"

BeforeApply == {"downloading", "extracting", "verified"}

\* Once it has been replaced by a release nobody disturbed nothing leads to a second
\* replacement, which would back up the new panel.
OnceReplaced ==
  /\ bin = "new" => /\ prev = "old" /\ ~Working /\ phase \notin BeforeApply
                    /\ phase = "applying" => script = "install"
  /\ prev # "new"
  /\ Copying => bin = "old" /\ phase \notin BeforeApply
  /\ script = "replace" => prev = "old"

WayInv == Unbroken /\ OldPanel /\ (~disturbed => OnceReplaced)

\* A step of the panel or of a user that begins no download.
Harmless ==
  /\ UNCHANGED <<bin, prev, panel, script, boot>>
  /\ disturbed => disturbed'
  /\ Working' => Working \/ phase \in {"downloading", "extracting"}
  /\ phase' \in BeforeApply => Working \/ phase \in BeforeApply
  /\ phase' = "applying" => phase \in {"verified", "applying"}

LEMMA WayStays ==
  ASSUME StagedInv, WayInv, Harmless
  PROVE  WayInv'
<1>1. Unbroken' /\ OldPanel'
  BY DEF WayInv, Unbroken, OldPanel, Harmless
<1>2. ASSUME ~disturbed' PROVE OnceReplaced'
  BY <1>2 DEF WayInv, OnceReplaced, StagedInv, Staged, Harmless, BeforeApply, Copying
<1> QED
  BY <1>1, <1>2 DEF WayInv

LEMMA WayTask ==
  ASSUME TaskInv, StagedInv, WayInv, TaskStep
  PROVE  WayInv'
<1> SUFFICES Harmless
  BY WayStays
<1> USE DEF TaskInv, TypeOK, Harmless, BeforeApply, Working
<1>1. CASE MainResumes
  <2>1. /\ UNCHANGED <<bin, prev, panel, script, boot>> /\ (disturbed => disturbed')
        /\ phase' = phase \/ phase' = "failed"
        /\ \A t \in Downloaders \ {"main"} : pc'[t] = pc[t]
        /\ pc'["main"] = "watch" \/ phase \in {"downloading", "extracting"}
    BY <1>1, MainResumesBy, TaskNames DEF image, updater
  <2>2. Working' => Working \/ phase \in {"downloading", "extracting"}
    BY <2>1 DEF Downloading
  <2> QED
    BY <2>1, <2>2
<1>2. CASE MainWatches
  <2>1. \A t \in Downloaders : pc'[t] = pc[t] \/ pc'[t] = "serving"
    BY <1>2, TaskNames DEF MainWatches
  <2> QED
    BY <1>2, <2>1 DEF MainWatches, Downloading, image, updater
<1>3. ASSUME NEW t \in Downloaders, DownloadStep(t) PROVE Harmless
  <2>1. Working
    BY <1>3 DEF Downloading, DownloadStep, Fetch, Receive, Unpack, Unpacked, Validate, Verified
  <2>2. /\ UNCHANGED <<bin, prev, panel, script, boot, disturbed>>
        /\ phase' # "applying" \/ UNCHANGED phase
    BY <1>3 DEF DownloadStep, Fetch, Receive, Unpack, Unpacked, Validate, Verified, image, updater
  <2> QED
    BY <2>1, <2>2
<1>4. ASSUME NEW t \in {"check", "apply", "rollback", "health"},
             \E step : pc' = [pc EXCEPT ![t] = step]
      PROVE  Working' => Working
  BY <1>4, TaskNames DEF Downloading
<1>5. CASE EndCheck
  BY <1>4, <1>5 DEF EndCheck, image, updater
<1>6. ASSUME NEW t \in {"apply", "rollback", "health"}, NEW action, Spawn(t, action)
      PROVE  Harmless
  BY <1>4, <1>6 DEF Spawn, image, updater
<1>7. CASE HealthPosts \/ HealthFails
  BY <1>4, <1>7 DEF HealthPosts, HealthFails, image, updater
<1>8. CASE HealthPasses
  BY <1>4, <1>8 DEF HealthPasses, image, updater
<1> QED
  BY <1>1, <1>2, <1>3, <1>5, <1>6, <1>7, <1>8 DEF TaskStep, HealthStep

LEMMA WayRequest ==
  ASSUME TaskInv, StagedInv, WayInv, Request \/ Poll
  PROVE  WayInv'
<1>1. ASSUME NEW t \in Downloads, BeginDownload(t) PROVE WayInv'
  <2>1. /\ panel = "old" /\ disturbed' = InUse /\ UNCHANGED <<bin, prev, panel, script, boot>>
    BY <1>1 DEF BeginDownload, image, updater
  <2>2. Unbroken' /\ OldPanel'
    BY <2>1 DEF WayInv, Unbroken, OldPanel
  <2>3. ~disturbed' => OnceReplaced'
    BY <2>1 DEF WayInv, OldPanel, OnceReplaced, InUse, Replacing, Copying
  <2> QED
    BY <2>2, <2>3 DEF WayInv
<1>2. CASE BeginCheck \/ BeginApply \/ BeginRollback
  <2>1. /\ UNCHANGED <<bin, prev, panel, script, boot, disturbed>>
        /\ phase' = phase \/ phase' = "restarting" \/ (phase = "verified" /\ phase' = "applying")
        /\ \A t \in Downloaders : pc'[t] = pc[t]
    BY <1>2, TaskNames DEF BeginCheck, BeginApply, BeginRollback, TaskInv, TypeOK, image, updater
  <2>2. Harmless
    BY <2>1 DEF Harmless, BeforeApply, Working, Downloading
  <2> QED
    BY <2>2, WayStays
<1>3. CASE Cleanup \/ Poll
  <2>1. /\ UNCHANGED <<pc, bin, prev, panel, script, boot>> /\ (disturbed => disturbed')
        /\ phase' = phase \/ phase' = "idle"
    BY <1>3 DEF Cleanup, Poll, TaskInv, TypeOK, image, process, updater
  <2>2. Harmless
    BY <2>1 DEF Harmless, BeforeApply, Working, Downloading
  <2> QED
    BY <2>2, WayStays
<1> QED
  BY <1>1, <1>2, <1>3 DEF Request, Cancel, Confirm

LEMMA WayScript ==
  ASSUME TaskInv, StagedInv, WayInv,
         ScriptStep \/ \E action \in {"apply", "rollback", "resume"} : ScriptStarts(action)
  PROVE  WayInv'
<1> USE DEF TaskInv, TypeOK, WayInv, Unbroken, OldPanel, OnceReplaced, BeforeApply, Copying,
            ScriptGoes, ScriptExits, bundle, image, process, updater
<1>1. ASSUME UNCHANGED pc PROVE Working' <=> Working
  BY <1>1 DEF Working, Downloading
<1>2. ASSUME NEW action \in {"apply", "rollback", "resume"}, ScriptStarts(action) PROVE WayInv'
  BY <1>1, <1>2 DEF ScriptStarts, UpdateLocked
<1>3. CASE ScriptReads
  BY <1>1, <1>3 DEF ScriptReads, ReadPhase
<1>4. CASE CliAccepts
  BY <1>1, <1>4 DEF CliAccepts
<1>5. CASE CliBacksUp
  BY <1>1, <1>5 DEF CliBacksUp
<1>6. CASE CliBackedUp
  BY <1>1, <1>6 DEF CliBackedUp
<1>7. CASE CliReplaces
  BY <1>1, <1>7 DEF CliReplaces, StagedInv, Staged
<1>8. CASE CliInstalls
  BY <1>1, <1>8 DEF CliInstalls
<1>9. CASE ScriptPosts
  BY <1>1, <1>9 DEF ScriptPosts
<1>10. CASE ScriptMarks
  BY <1>1, <1>10 DEF ScriptMarks, WritePhase
<1>11. CASE ScriptKills
  <2>1. ~Working'
    BY <1>11, QuietIs, TaskNames DEF ScriptKills, KillPanel, Working, Downloading
  <2> QED
    BY <1>11, <2>1 DEF ScriptKills, KillPanel
<1>12. CASE ScriptStartsPanel
  <2>1. /\ script = "start" /\ script' \in {"idle", "markHealth", "restartXray"}
        /\ UNCHANGED <<bin, prev, boot, disturbed>> /\ \E l : StartPanel(l)
    BY <1>12 DEF ScriptStartsPanel
  <2>2. /\ panel' = bin /\ pc' = [Quiet EXCEPT !["main"] = "resume"]
        /\ phase' = phase \/ phase' = "health_check"
    BY <2>1, PanelStarts
  <2>3. ~Working'
    BY <2>2, QuietIs, TaskNames DEF Working, Downloading
  <2> QED
    BY <2>1, <2>2, <2>3
<1>13. CASE ScriptMarksHealth
  BY <1>1, <1>13 DEF ScriptMarksHealth, WritePhase
<1>14. CASE CliMovesAway
  BY <1>1, <1>14 DEF CliMovesAway
<1>15. CASE CliRestores
  BY <1>1, <1>15 DEF CliRestores
<1>16. CASE CliRestored
  BY <1>1, <1>16 DEF CliRestored
<1>17. CASE CliSavesRollback
  BY <1>1, <1>17 DEF CliSavesRollback
<1>18. CASE ScriptRestartsXray
  BY <1>1, <1>18 DEF ScriptRestartsXray
<1>19. CASE ScriptMarksRolledBack
  BY <1>1, <1>19 DEF ScriptMarksRolledBack, WritePhase
<1> QED
  BY <1>2, <1>3, <1>4, <1>5, <1>6, <1>7, <1>8, <1>9, <1>10, <1>11, <1>12, <1>13, <1>14, <1>15,
     <1>16, <1>17, <1>18, <1>19 DEF ScriptStep

LEMMA WayOther ==
  ASSUME Uninterrupted, TaskInv, StagedInv, WayInv,
         BootBegins \/ BootRuns \/ Environment \/ UNCHANGED vars
  PROVE  WayInv'
<1>1. ~BootBegins /\ ~BootRuns
  BY DEF Uninterrupted, WayInv, Unbroken, BootBegins, BootRuns, BootKills, BootStarts, BootResumes
<1>2. ~CopyFails /\ ~PowerFails /\ ~PanelCrashes
  BY DEF Uninterrupted, CopyFails, PowerFails, PanelCrashes
<1>3. CASE XrayRestarts \/ UNCHANGED vars
  <2>1. Harmless
    BY <1>3 DEF XrayRestarts, vars, Harmless, BeforeApply, Working, Downloading, image, process,
                updater
  <2> QED
    BY <2>1, WayStays
<1>4. ASSUME NEW t \in Downloaders, FetchBreaks(t) PROVE WayInv'
  <2>1. Working
    BY <1>4 DEF Working, Downloading, FetchBreaks
  <2>2. Harmless
    BY <1>4, <2>1 DEF FetchBreaks, Harmless, BeforeApply, image, updater
  <2> QED
    BY <2>2, WayStays
<1> QED
  BY <1>1, <1>2, <1>3, <1>4 DEF Environment

LEMMA WayInit == Init => WayInv
BY QuietIs, TaskNames
   DEF Init, WayInv, Unbroken, OldPanel, OnceReplaced, BeforeApply, Copying, Working, Downloading

\* Where nothing cuts the scripts off, a new panel that has not passed its health check has the
\* old one in panel.previous (cli.go), with any downloads, several at a time, any checks,
\* cancels, rollbacks, broken transfers, slow steps and stale pages beside it, if no other
\* download and no Cancel worked on the files it came from (WayBack).
THEOREM WayBackAlways ==
  ASSUME Uninterrupted
  PROVE  Spec => []WayBack
<1>1. TaskInv /\ StagedInv /\ WayInv /\ [Next]_vars => WayInv'
  BY WayTask, WayRequest, WayScript, WayOther DEF Next
<1>2. WayInv => WayBack
  BY DEF WayInv, OnceReplaced, WayBack
<1> QED
  BY <1>1, <1>2, TaskInit, TaskNext, StagedInit, StagedNext, WayInit, PTL DEF Spec

=============================================================================
