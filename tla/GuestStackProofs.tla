-------------------------- MODULE GuestStackProofs --------------------------
(***************************************************************************)
(* What holds of GuestStack for any number of concurrent callers and any   *)
(* configurations: typing, no black hole is left behind by an Apply, no    *)
(* stale xray process survives, and with one caller at a time nothing      *)
(* untested is installed and the rules at rest are those of the process.  *)
(***************************************************************************)
EXTENDS GuestStack, TLAPS

(***************************************************************************)
(* Typing.  The four ways a thread moves keep the types of its own state.  *)
(***************************************************************************)
LEMMA GotoTypes ==
  ASSUME ThreadTypes, NEW t \in Threads, NEW step \in Steps, Goto(t, step),
         step \in Holding => snap[t] \in Configs
  PROVE  ThreadTypes'
BY DEF ThreadTypes, Goto

LEMMA FinishTypes ==
  ASSUME ThreadTypes, NEW t \in Threads, Finish(t)
  PROVE  ThreadTypes'
BY DEF ThreadTypes, Finish, Steps, Operations, Holding

LEMMA GenerateTypes ==
  ASSUME ThreadTypes, want \in Configs, NEW t \in Threads,
         NEW o \in Operations, Generate(t, o)
  PROVE  ThreadTypes'
BY DEF ThreadTypes, Generate, Steps

LEMMA ReturnTypes ==
  ASSUME ThreadTypes, want \in Configs, NEW t \in Threads, Return(t)
  PROVE  ThreadTypes'
<1>1. CASE Generate(t, "outage")
  BY <1>1, GenerateTypes DEF Operations
<1>2. CASE Goto(t, "recheck")
  BY <1>2, GotoTypes DEF Steps, Holding
<1>3. CASE Finish(t)
  BY <1>3, FinishTypes
<1>4. QED
  BY <1>1, <1>2, <1>3 DEF Return

LEMMA ApplyTypes ==
  ASSUME TypeOK, NEW t \in Threads, ApplyStep(t)
  PROVE  TypeOK'
<1> USE DEF TypeOK
<1>1. CASE WriteStaging(t)
  <2>1. snap[t] \in Configs
    BY <1>1 DEF WriteStaging, At, ThreadTypes, Holding
  <2>2. ThreadTypes'
    BY <1>1, <2>1, GotoTypes DEF WriteStaging, Steps
  <2>3. QED
    BY <1>1, <2>1, <2>2 DEF WriteStaging, StackTypes, JobTypes, jobs
<1>2. CASE TestPasses(t)
  <2>1. ThreadTypes'
    BY <1>2, GotoTypes DEF TestPasses, At, ThreadTypes, Holding, Steps
  <2>2. QED
    BY <1>2, <2>1 DEF TestPasses, StackTypes, JobTypes, jobs, disk
<1>3. CASE TestFails(t)
  <2>1. ThreadTypes'
    BY <1>3, ReturnTypes DEF TestFails, StackTypes
  <2>2. QED
    BY <1>3, <2>1 DEF TestFails, StackTypes, JobTypes, jobs, disk
<1>4. CASE WriteScripts(t)
  <2>1. snap[t] \in Configs
    BY <1>4 DEF WriteScripts, At, ThreadTypes, Holding
  <2>2. ThreadTypes'
    BY <1>4, <2>1, GotoTypes DEF WriteScripts, Steps
  <2>3. QED
    BY <1>4, <2>1, <2>2 DEF WriteScripts, StackTypes, JobTypes, jobs
<1>5. CASE TruncateLive(t)
  <2>1. ThreadTypes'
    BY <1>5, GotoTypes DEF TruncateLive, At, ThreadTypes, Holding, Steps
  <2>2. QED
    BY <1>5, <2>1 DEF TruncateLive, StackTypes, JobTypes, jobs
<1>6. CASE WriteLive(t)
  <2>1. snap[t] \in Configs
    BY <1>6 DEF WriteLive, At, ThreadTypes, Holding
  <2>2. ThreadTypes'
    BY <1>6, GotoTypes DEF WriteLive, Steps, Holding
  <2>3. QED
    BY <1>6, <2>1, <2>2 DEF WriteLive, StackTypes, JobTypes, jobs
<1>7. CASE StopXray(t)
  <2>1. ThreadTypes'
    BY <1>7, GotoTypes DEF StopXray, Steps, Holding
  <2>2. QED
    BY <1>7, <2>1 DEF StopXray, StackTypes, JobTypes, jobs, disk
<1>8. CASE StartXray(t)
  <2>1. ThreadTypes'
    BY <1>8, GotoTypes DEF StartXray, Steps, Holding
  <2>2. QED
    BY <1>8, <2>1 DEF StartXray, Launch, StackTypes, JobTypes, jobs, disk
<1>9. CASE WaitForXray(t)
  <2>1. ThreadTypes'
    BY <1>9, GotoTypes, FinishTypes DEF WaitForXray, Failed, Steps, Holding
  <2>2. QED
    BY <1>9, <2>1 DEF WaitForXray, StackTypes, JobTypes, jobs, disk
<1>10. CASE RunIptables(t)
  <2>1. ThreadTypes'
    BY <1>10, GotoTypes, FinishTypes DEF RunIptables, Steps, Holding
  <2>2. QED
    BY <1>10, <2>1 DEF RunIptables, StackTypes, JobTypes, jobs, disk
<1>11. CASE ProbeSucceeds(t) \/ ProbeTimesOut(t)
  <2>1. ThreadTypes'
    BY <1>11, GotoTypes DEF ProbeSucceeds, ProbeTimesOut, Steps, Holding
  <2>2. QED
    BY <1>11, <2>1 DEF ProbeSucceeds, ProbeTimesOut, StackTypes, JobTypes, jobs, disk
<1>12. CASE Disable(t) \/ WriteMarker(t) \/ NoFailOpen(t)
  <2>1. ThreadTypes'
    BY <1>12, ReturnTypes DEF Disable, WriteMarker, NoFailOpen, StackTypes
  <2>2. QED
    BY <1>12, <2>1 DEF Disable, WriteMarker, NoFailOpen, StackTypes, JobTypes, jobs, disk
<1>13. CASE Teardown(t)
  <2>1. ThreadTypes'
    BY <1>13, GotoTypes DEF Teardown, Steps, Holding
  <2>2. QED
    BY <1>13, <2>1 DEF Teardown, StackTypes, JobTypes, jobs, disk
<1>14. QED
  BY <1>1, <1>2, <1>3, <1>4, <1>5, <1>6, <1>7, <1>8, <1>9, <1>10, <1>11, <1>12, <1>13
  DEF ApplyStep

LEMMA CallTypes ==
  ASSUME TypeOK, NEW t \in Threads,
         BeginApply(t) \/ BeginRestart(t) \/ ApplyFault(t)
  PROVE  TypeOK'
<1> USE DEF TypeOK
<1>1. CASE BeginApply(t)
  <2>1. ThreadTypes'
    BY <1>1, GenerateTypes DEF BeginApply, StackTypes, Operations
  <2>2. QED
    BY <1>1, <2>1 DEF BeginApply, StackTypes, JobTypes, jobs, disk
<1>2. CASE BeginRestart(t)
  <2>1. ThreadTypes'
    BY <1>2 DEF BeginRestart, ThreadTypes, Steps, Operations, Holding
  <2>2. QED
    BY <1>2, <2>1 DEF BeginRestart, StackTypes, JobTypes, jobs, disk
<1>3. CASE PrepareFails(t) \/ InstallFails(t)
  <2>1. ThreadTypes'
    BY <1>3, ReturnTypes DEF PrepareFails, InstallFails, StackTypes
  <2>2. QED
    BY <1>3, <2>1 DEF PrepareFails, InstallFails, StackTypes, JobTypes, jobs, disk
<1>4. CASE SysctlFails(t)
  <2>1. ThreadTypes'
    BY <1>4, GotoTypes, FinishTypes DEF SysctlFails, Failed, Steps, Holding
  <2>2. QED
    BY <1>4, <2>1 DEF SysctlFails, StackTypes, JobTypes, jobs, disk
<1>5. CASE ClientGone(t)
  <2>1. ThreadTypes'
    BY <1>5, FinishTypes DEF ClientGone
  <2>2. QED
    BY <1>5, <2>1 DEF ClientGone, StackTypes, JobTypes, jobs, disk
<1>6. QED
  BY <1>1, <1>2, <1>3, <1>4, <1>5 DEF ApplyFault

LEMMA DogTypes ==
  ASSUME TypeOK, DogStep
  PROVE  TypeOK'
<1> USE DEF TypeOK
<1>1. Dog \in Threads
  BY DEF Threads
<1>2. ASSUME StartOutage(Dog)
      PROVE  ThreadTypes'
  BY <1>1, <1>2, GenerateTypes DEF StartOutage, StackTypes, Operations
<1>3. ASSUME Alarm(Dog)
      PROVE  ThreadTypes'
  <2>1. CASE FailOpenEnabled
    BY <1>1, <1>3, <2>1 DEF Alarm, ThreadTypes, Steps, Operations, Holding
  <2>2. CASE ~FailOpenEnabled
    BY <1>1, <1>3, <2>2, FinishTypes DEF Alarm
  <2>3. QED
    BY <2>1, <2>2
<1>4. CASE DogLooks
  <2>1. ThreadTypes'
    BY <1>1, <1>2, <1>4, GotoTypes DEF DogLooks, Steps, Holding
  <2>2. QED
    BY <1>4, <2>1 DEF DogLooks, StackTypes, JobTypes, jobs, disk
<1>5. CASE DogProbes
  <2>1. ThreadTypes'
    BY <1>1, <1>2, <1>5, GenerateTypes, FinishTypes DEF DogProbes, StackTypes, Operations
  <2>2. QED
    BY <1>5, <2>1 DEF DogProbes, StackTypes, JobTypes, jobs, disk
<1>6. CASE DogLooksAgain
  <2>1. ThreadTypes'
    BY <1>1, <1>3, <1>6, GotoTypes DEF DogLooksAgain, Steps, Holding
  <2>2. QED
    BY <1>6, <2>1 DEF DogLooksAgain, StackTypes, JobTypes, jobs, disk
<1>7. CASE DogProbesAgain
  <2>1. ThreadTypes'
    BY <1>1, <1>3, <1>7, FinishTypes DEF DogProbesAgain
  <2>2. QED
    BY <1>7, <2>1 DEF DogProbesAgain, StackTypes, JobTypes, jobs, disk
<1>8. QED
  BY <1>4, <1>5, <1>6, <1>7 DEF DogStep

LEMMA ScriptTypes ==
  ASSUME TypeOK, GuardStep \/ CronStep \/ StartupKills \/ StartupStep
  PROVE  TypeOK'
<1> USE DEF TypeOK, StackTypes, JobTypes, ThreadTypes, disk, local
<1>1. CASE GuardStep
  BY <1>1 DEF GuardStep, GuardChecks, GuardTearsDown, GuardMarks
<1>2. CASE CronStep
  BY <1>2 DEF CronStep, CronChecks, CronRuns
<1>3. CASE StartupKills
  BY <1>3 DEF StartupKills
<1>4. CASE StartupStep
  BY <1>4 DEF StartupStep, StartupLaunches, StartupChecks, StartupTearsDown, StartupMarks,
              StartupHooks, StartupUnmarks, Launch
<1>5. QED
  BY <1>1, <1>2, <1>3, <1>4

LEMMA EnvironmentTypes ==
  ASSUME TypeOK, BadXrayExits \/ Environment
  PROVE  TypeOK'
<1> USE DEF TypeOK, StackTypes, JobTypes, disk, jobs
<1>1. ASSUME UNCHANGED local
      PROVE  ThreadTypes'
  BY <1>1 DEF ThreadTypes, local
<1>2. ASSUME pc' = Quiesced, op' = [t \in Threads |-> "none"], snap' = [t \in Threads |-> None]
      PROVE  ThreadTypes'
  BY <1>2 DEF ThreadTypes, Quiesced, Steps, Operations, Holding
<1>3. CASE BadXrayExits \/ XrayCrashes \/ LinkChanges \/ UserEdits
  BY <1>1, <1>3 DEF BadXrayExits, XrayCrashes, LinkChanges, UserEdits
<1>4. CASE PanelCrashes \/ Reboots
  BY <1>2, <1>4 DEF PanelCrashes, Reboots
<1>5. QED
  BY <1>3, <1>4 DEF Environment

\* Type correctness of every reachable state, for any number of callers.
THEOREM TypeCorrect == Spec => []TypeOK
<1>1. Init => TypeOK
  BY StackAssumption
  DEF Init, TypeOK, StackTypes, JobTypes, ThreadTypes, Steps, Operations, Holding
<1>2. TypeOK /\ [Next]_vars => TypeOK'
  <2> SUFFICES ASSUME TypeOK, [Next]_vars
               PROVE  TypeOK'
    OBVIOUS
  <2>1. ASSUME NEW t \in Threads,
               BeginApply(t) \/ BeginRestart(t) \/ ApplyStep(t) \/ ApplyFault(t)
        PROVE  TypeOK'
    BY <2>1, ApplyTypes, CallTypes
  <2>2. CASE DogStep
    BY <2>2, DogTypes
  <2>3. CASE GuardStep \/ CronStep \/ StartupKills \/ StartupStep
    BY <2>3, ScriptTypes
  <2>4. CASE BadXrayExits \/ Environment
    BY <2>4, EnvironmentTypes
  <2>5. CASE UNCHANGED vars
    BY <2>5 DEF vars, TypeOK, StackTypes, JobTypes, ThreadTypes
  <2>6. QED
    BY <2>1, <2>2, <2>3, <2>4, <2>5 DEF Next
<1>3. QED
  BY <1>1, <1>2, PTL DEF Spec

-----------------------------------------------------------------------------
(***************************************************************************)
(* No stale process.  The invariant is inductive: only the call that       *)
(* rewrote the file can make the process differ from it, and such a call   *)
(* goes on to kill the process unless something stops it half way: a crash *)
(* of the panel, a full disk, a failing sysctl.                            *)
(***************************************************************************)

\* A step of one thread leaves the others where they are.
LEMMA OthersStay ==
  ASSUME ThreadTypes, NEW t \in Threads,
         \/ BeginApply(t) \/ BeginRestart(t) \/ ApplyStep(t) \/ ApplyFault(t)
         \/ t = Dog /\ DogStep
  PROVE  \A u \in Threads \ {t} : pc'[u] = pc[u] /\ op'[u] = op[u] /\ snap'[u] = snap[u]
<1> USE DEF ThreadTypes
<1>1. ASSUME \/ \E step \in Steps : Goto(t, step)
             \/ Finish(t) \/ Return(t) \/ Failed(t) \/ StartOutage(t) \/ Alarm(t)
             \/ \E o \in Operations : Generate(t, o)
      PROVE  \A u \in Threads \ {t} :
               pc'[u] = pc[u] /\ op'[u] = op[u] /\ snap'[u] = snap[u]
  BY <1>1 DEF Goto, Finish, Return, Failed, StartOutage, Alarm, Generate
<1>2. CASE BeginApply(t)
  BY <1>1, <1>2 DEF BeginApply, Operations
<1>3. CASE BeginRestart(t)
  BY <1>3 DEF BeginRestart
<1>4. CASE ApplyStep(t)
  BY <1>1, <1>4 DEF ApplyStep, WriteStaging, TestPasses, TestFails, WriteScripts, TruncateLive,
     WriteLive, StopXray, StartXray, WaitForXray, RunIptables, ProbeSucceeds, ProbeTimesOut,
     Disable, Teardown, WriteMarker, NoFailOpen, Steps
<1>5. CASE ApplyFault(t)
  BY <1>1, <1>5 DEF ApplyFault, PrepareFails, InstallFails, SysctlFails, ClientGone
<1>6. CASE t = Dog /\ DogStep
  BY <1>1, <1>6 DEF DogStep, DogLooks, DogProbes, DogLooksAgain, DogProbesAgain, Steps, Operations
<1>7. QED
  BY <1>2, <1>3, <1>4, <1>5, <1>6

\* What keeps the invariant when neither the file nor the process changes.
LEMMA StillInstalled ==
  ASSUME RunningIsInstalled, UNCHANGED <<live, xray>>,
         \A u \in Threads : Rewriting(u) => Rewriting(u)'
  PROVE  RunningIsInstalled'
BY DEF RunningIsInstalled

LEMMA ApplyInstalls ==
  ASSUME TypeOK, RunningIsInstalled, NEW t \in Threads, ApplyStep(t)
  PROVE  RunningIsInstalled'
<1>1. \A u \in Threads \ {t} : pc'[u] = pc[u]
  BY OthersStay DEF TypeOK
<1>2. ASSUME UNCHANGED <<live, xray>>, ~Rewriting(t)
      PROVE  RunningIsInstalled'
  BY <1>1, <1>2, StillInstalled DEF Rewriting
<1>3. CASE TruncateLive(t) \/ WriteLive(t)
  <2>1. Rewriting(t)'
    BY <1>3 DEF TruncateLive, WriteLive, Goto, Rewriting, TypeOK, ThreadTypes
  <2>2. QED
    BY <2>1 DEF RunningIsInstalled
<1>4. CASE StopXray(t)
  BY <1>4 DEF StopXray, RunningIsInstalled
<1>5. CASE StartXray(t)
  <2>1. live' = live /\ (xray' = live \/ xray' = xray)
    BY <1>5 DEF StartXray, Launch, disk
  <2>2. \A u \in Threads : Rewriting(u) => Rewriting(u)'
    BY <1>1, <1>5 DEF StartXray, At, Rewriting
  <2>3. QED
    BY <2>1, <2>2 DEF RunningIsInstalled
<1>6. CASE WriteStaging(t) \/ TestPasses(t) \/ TestFails(t) \/ WriteScripts(t)
  BY <1>2, <1>6 DEF WriteStaging, TestPasses, TestFails, WriteScripts, At, Rewriting, disk
<1>7. CASE WaitForXray(t) \/ RunIptables(t) \/ ProbeSucceeds(t) \/ ProbeTimesOut(t)
  BY <1>2, <1>7 DEF WaitForXray, RunIptables, ProbeSucceeds, ProbeTimesOut, At, Rewriting, disk
<1>8. CASE Disable(t) \/ Teardown(t) \/ WriteMarker(t) \/ NoFailOpen(t)
  BY <1>2, <1>8 DEF Disable, Teardown, WriteMarker, NoFailOpen, At, Rewriting, disk
<1>9. QED
  BY <1>3, <1>4, <1>5, <1>6, <1>7, <1>8 DEF ApplyStep

\* Without a step that abandons a rewritten file, no stale process survives
\* (RunningIsInstalled), for any number of concurrent callers.
THEOREM NoStaleProcess ==
  ASSUME Faults \subseteq {"xray", "reboot", "link", "edit", "disconnect"}
  PROVE  Spec => []RunningIsInstalled
<1>1. Init => RunningIsInstalled
  BY DEF Init, RunningIsInstalled
<1>2. TypeOK /\ RunningIsInstalled /\ [Next]_vars => RunningIsInstalled'
  <2> SUFFICES ASSUME TypeOK, RunningIsInstalled, [Next]_vars
               PROVE  RunningIsInstalled'
    OBVIOUS
  <2>1. ASSUME UNCHANGED <<live, local>>, xray' \in {xray, live, None}
        PROVE  RunningIsInstalled'
    BY <2>1 DEF RunningIsInstalled, Rewriting, local
  <2>2. ASSUME NEW t \in Threads, ApplyStep(t)
        PROVE  RunningIsInstalled'
    BY <2>2, ApplyInstalls
  <2>3. ASSUME NEW t \in Threads, BeginApply(t) \/ BeginRestart(t) \/ ApplyFault(t)
        PROVE  RunningIsInstalled'
    <3>1. \A u \in Threads \ {t} : pc'[u] = pc[u]
      BY <2>3, OthersStay DEF TypeOK
    <3>2. UNCHANGED <<live, xray>> /\ ~Rewriting(t)
      BY <2>3 DEF BeginApply, BeginRestart, ApplyFault, PrepareFails, InstallFails, SysctlFails,
         ClientGone, At, Rewriting, disk
    <3>3. QED
      BY <3>1, <3>2, StillInstalled DEF Rewriting
  <2>4. CASE DogStep
    <3>1. \A u \in Threads \ {Dog} : pc'[u] = pc[u]
      BY <2>4, OthersStay DEF TypeOK, Threads
    <3>2. UNCHANGED <<live, xray>> /\ ~Rewriting(Dog)
      BY <2>4 DEF DogStep, DogLooks, DogProbes, DogLooksAgain, DogProbesAgain, At, Rewriting, disk
    <3>3. QED
      BY <3>1, <3>2, StillInstalled DEF Rewriting
  <2>5. CASE GuardStep \/ CronStep
    BY <2>1, <2>5 DEF GuardStep, GuardChecks, GuardTearsDown, GuardMarks, CronStep, CronChecks,
       CronRuns, disk
  <2>6. CASE StartupKills \/ StartupStep
    BY <2>1, <2>6 DEF StartupKills, StartupStep, StartupLaunches, StartupChecks, StartupTearsDown,
       StartupMarks, StartupHooks, StartupUnmarks, Launch, disk
  <2>7. CASE BadXrayExits \/ XrayCrashes \/ LinkChanges \/ UserEdits
    BY <2>1, <2>7 DEF BadXrayExits, XrayCrashes, LinkChanges, UserEdits, disk
  <2>8. CASE PanelCrashes \/ Reboots
    BY <2>8 DEF PanelCrashes, Reboots, RunningIsInstalled
  <2>9. CASE UNCHANGED vars
    BY <2>1, <2>9 DEF vars, local
  <2>10. QED
    BY <2>2, <2>3, <2>4, <2>5, <2>6, <2>7, <2>8, <2>9 DEF Next, Environment
<1>3. QED
  BY <1>1, <1>2, TypeCorrect, PTL DEF Spec

-----------------------------------------------------------------------------
(***************************************************************************)
(* No abandoned black hole.  A call opens the hole when it kills xray or   *)
(* hooks the rules, both inside the part of Apply that ends in a probe or  *)
(* in fail-open.  The strengthening says that nobody else touches the      *)
(* rules or the process: no Restart, no cron refresh, no startup script.   *)
(***************************************************************************)
OnlyApplies ==
  /\ \A t \in Threads : op[t] # "restart"
  /\ cron = "idle" /\ startup = "idle"

AttendedInv == BlackHoleIsAttended /\ OnlyApplies

\* What keeps the invariant when neither the rules nor the process changes.
LEMMA StillAttended ==
  ASSUME BlackHoleIsAttended, UNCHANGED <<rules, xray>>,
         \A u \in Threads : InRestart(u) => InRestart(u)'
  PROVE  BlackHoleIsAttended'
BY DEF BlackHoleIsAttended, BlackHole

LEMMA ApplyAttends ==
  ASSUME TypeOK, AttendedInv, FailOpenEnabled, NEW t \in Threads, ApplyStep(t)
  PROVE  BlackHoleIsAttended'
<1> USE DEF AttendedInv
<1>1. \A u \in Threads \ {t} : pc'[u] = pc[u]
  BY OthersStay DEF TypeOK
<1>2. ASSUME UNCHANGED <<rules, xray>>, ~InRestart(t)
      PROVE  BlackHoleIsAttended'
  BY <1>1, <1>2, StillAttended DEF InRestart
<1>3. CASE StopXray(t) \/ StartXray(t)
  <2>1. InRestart(t)'
    BY <1>3 DEF StopXray, StartXray, Goto, InRestart, TypeOK, ThreadTypes
  <2>2. QED
    BY <2>1 DEF BlackHoleIsAttended
<1>4. CASE WaitForXray(t) \/ RunIptables(t) \/ ProbeTimesOut(t)
  <2>1. InRestart(t)'
    BY <1>4 DEF WaitForXray, RunIptables, ProbeTimesOut, Failed, Goto, InRestart, OnlyApplies,
                TypeOK, ThreadTypes
  <2>2. QED
    BY <2>1 DEF BlackHoleIsAttended
<1>5. CASE ProbeSucceeds(t)
  BY <1>5 DEF ProbeSucceeds, Connected, BlackHoleIsAttended, BlackHole
<1>6. CASE Teardown(t)
  BY <1>6 DEF Teardown, BlackHoleIsAttended, BlackHole
<1>7. CASE WriteStaging(t) \/ TestPasses(t) \/ TestFails(t) \/ WriteScripts(t)
  BY <1>2, <1>7 DEF WriteStaging, TestPasses, TestFails, WriteScripts, At, InRestart
<1>8. CASE TruncateLive(t) \/ WriteLive(t) \/ Disable(t) \/ WriteMarker(t) \/ NoFailOpen(t)
  BY <1>2, <1>8 DEF TruncateLive, WriteLive, Disable, WriteMarker, NoFailOpen, At, InRestart
<1>9. QED
  BY <1>3, <1>4, <1>5, <1>6, <1>7, <1>8 DEF ApplyStep

\* Where handlers only apply, no step turns a thread's operation into a Restart.
LEMMA OpsOfApplies ==
  ASSUME ThreadTypes, Ops \subseteq {"apply"}, NEW t \in Threads, op[t] # "restart",
         \/ BeginApply(t) \/ BeginRestart(t) \/ ApplyStep(t) \/ ApplyFault(t)
         \/ t = Dog /\ DogStep
  PROVE  op'[t] # "restart"
<1> USE DEF ThreadTypes
<1>1. ASSUME \/ \E step \in Steps : Goto(t, step)
             \/ Finish(t) \/ Return(t) \/ Failed(t) \/ StartOutage(t) \/ Alarm(t)
             \/ Generate(t, "apply") \/ Generate(t, "recover")
      PROVE  op'[t] # "restart"
  BY <1>1 DEF Goto, Finish, Return, Failed, StartOutage, Alarm, Generate
<1>2. CASE BeginApply(t) \/ BeginRestart(t)
  BY <1>1, <1>2 DEF BeginApply, BeginRestart
<1>3. CASE ApplyStep(t)
  BY <1>1, <1>3 DEF ApplyStep, WriteStaging, TestPasses, TestFails, WriteScripts, TruncateLive,
     WriteLive, StopXray, StartXray, WaitForXray, RunIptables, ProbeSucceeds, ProbeTimesOut,
     Disable, Teardown, WriteMarker, NoFailOpen, Steps
<1>4. CASE ApplyFault(t)
  BY <1>1, <1>4 DEF ApplyFault, PrepareFails, InstallFails, SysctlFails, ClientGone
<1>5. CASE t = Dog /\ DogStep
  BY <1>1, <1>5 DEF DogStep, DogLooks, DogProbes, DogLooksAgain, DogProbesAgain, Steps
<1>6. QED
  BY <1>2, <1>3, <1>4, <1>5

\* Where only Applies and the guard act on the stack and nothing crashes, every
\* call, whatever it overlaps with and whichever of its steps fail, stays until
\* the hole it may have opened is closed (BlackHoleIsAttended).
THEOREM Attended ==
  ASSUME FailOpenEnabled, Ops \subseteq {"apply"}, Jobs \subseteq {"watchdog", "guard"},
         Faults \subseteq {"link", "edit", "sysctl", "disk"}
  PROVE  Spec => []BlackHoleIsAttended
<1>1. Init => AttendedInv
  BY DEF Init, AttendedInv, BlackHoleIsAttended, BlackHole, OnlyApplies
<1>2. TypeOK /\ AttendedInv /\ [Next]_vars => OnlyApplies'
  <2> SUFFICES ASSUME TypeOK, AttendedInv, [Next]_vars
               PROVE  OnlyApplies'
    OBVIOUS
  <2>1. ASSUME NEW t \in Threads,
               \/ BeginApply(t) \/ BeginRestart(t) \/ ApplyStep(t) \/ ApplyFault(t)
               \/ t = Dog /\ DogStep
        PROVE  OnlyApplies'
    <3>1. \A u \in Threads \ {t} : op'[u] = op[u]
      BY <2>1, OthersStay DEF TypeOK
    <3>2. UNCHANGED jobs
      BY <2>1 DEF BeginApply, BeginRestart, ApplyStep, WriteStaging, TestPasses, TestFails,
         WriteScripts, TruncateLive, WriteLive, StopXray, StartXray, WaitForXray, RunIptables,
         ProbeSucceeds, ProbeTimesOut, Disable, Teardown, WriteMarker, NoFailOpen, ApplyFault,
         PrepareFails, InstallFails, SysctlFails, ClientGone, DogStep, DogLooks, DogProbes,
         DogLooksAgain, DogProbesAgain
    <3>3. op'[t] # "restart"
      BY <2>1, OpsOfApplies DEF AttendedInv, OnlyApplies, TypeOK
    <3>4. QED
      BY <3>1, <3>2, <3>3 DEF jobs, AttendedInv, OnlyApplies
  <2>2. CASE DogStep
    BY <2>1, <2>2 DEF Threads
  <2>3. CASE GuardStep \/ CronStep \/ StartupKills \/ StartupStep
    BY <2>3 DEF AttendedInv, OnlyApplies, GuardStep, GuardChecks, GuardTearsDown, GuardMarks,
       CronStep, CronChecks, CronRuns, StartupKills, StartupStep, StartupLaunches, StartupChecks,
       StartupTearsDown, StartupMarks, StartupHooks, StartupUnmarks, local
  <2>4. CASE BadXrayExits \/ Environment \/ UNCHANGED vars
    BY <2>4 DEF AttendedInv, OnlyApplies, BadXrayExits, Environment, XrayCrashes, PanelCrashes,
       Reboots, LinkChanges, UserEdits, vars, local, jobs
  <2>5. QED
    BY <2>1, <2>2, <2>3, <2>4 DEF Next
<1>3. TypeOK /\ AttendedInv /\ [Next]_vars => BlackHoleIsAttended'
  <2> SUFFICES ASSUME TypeOK, AttendedInv, [Next]_vars
               PROVE  BlackHoleIsAttended'
    OBVIOUS
  <2>1. ASSUME UNCHANGED local, rules' \in {rules, None}, xray' = xray \/ xray \notin Good
        PROVE  BlackHoleIsAttended'
    BY <2>1 DEF AttendedInv, BlackHoleIsAttended, BlackHole, InRestart, local
  <2>2. ASSUME NEW t \in Threads, ApplyStep(t)
        PROVE  BlackHoleIsAttended'
    BY <2>2, ApplyAttends
  <2>3. ASSUME NEW t \in Threads,
               \/ BeginApply(t) \/ BeginRestart(t) \/ ApplyFault(t)
               \/ t = Dog /\ DogStep
        PROVE  BlackHoleIsAttended'
    <3>1. \A u \in Threads \ {t} : pc'[u] = pc[u]
      BY <2>3, OthersStay DEF TypeOK
    <3>2. UNCHANGED <<rules, xray>> /\ ~InRestart(t)
      BY <2>3 DEF BeginApply, BeginRestart, ApplyFault, PrepareFails, InstallFails, SysctlFails,
         ClientGone, DogStep, DogLooks, DogProbes, DogLooksAgain, DogProbesAgain, At, InRestart
    <3>3. QED
      BY <3>1, <3>2, StillAttended DEF AttendedInv, InRestart
  <2>4. CASE DogStep
    BY <2>3, <2>4 DEF Threads
  <2>5. CASE GuardStep
    BY <2>1, <2>5 DEF GuardStep, GuardChecks, GuardTearsDown, GuardMarks
  <2>6. CASE CronStep \/ StartupKills \/ StartupStep
    BY <2>6 DEF AttendedInv, OnlyApplies, CronStep, CronChecks, CronRuns, StartupKills,
       StartupStep, StartupLaunches, StartupChecks, StartupTearsDown, StartupMarks, StartupHooks,
       StartupUnmarks
  <2>7. CASE BadXrayExits \/ Environment
    BY <2>1, <2>7 DEF BadXrayExits, Environment, XrayCrashes, PanelCrashes, Reboots, LinkChanges,
       UserEdits
  <2>8. CASE UNCHANGED vars
    BY <2>1, <2>8 DEF vars, local
  <2>9. QED
    BY <2>2, <2>3, <2>4, <2>5, <2>6, <2>7, <2>8 DEF Next
<1>4. QED
  BY <1>1, <1>2, <1>3, TypeCorrect, PTL DEF Spec, AttendedInv

-----------------------------------------------------------------------------
(***************************************************************************)
(* Nothing untested is installed by a single writer.  `xray -test` sees    *)
(* the staging file and the install uses the thread's own bytes, so the    *)
(* strengthening ties the two together between the write and the test.     *)
(***************************************************************************)
TestedInv ==
  /\ InstalledIsTested
  /\ \A t \in Threads \ Writers : pc[t] = "idle"
  /\ \A t \in Threads :
       /\ pc[t] = "staged" => staging = snap[t]
       /\ pc[t] \in {"tested", "scripted", "truncated"} => snap[t] \in Good

\* A step that leaves the files and takes its thread to no testing step.
LEMMA StillTested ==
  ASSUME TestedInv, ThreadTypes, NEW t \in Threads, t \in Writers,
         UNCHANGED <<staging, live>>,
         pc'[t] \notin {"staged", "tested", "scripted", "truncated"},
         \A u \in Threads \ {t} : pc'[u] = pc[u] /\ snap'[u] = snap[u]
  PROVE  TestedInv'
BY DEF TestedInv, InstalledIsTested, Writers

LEMMA ApplyTests ==
  ASSUME TypeOK, TestedInv, NEW w, Writers \subseteq {w}, NEW t \in Threads, ApplyStep(t)
  PROVE  TestedInv'
<1> USE DEF TypeOK
<1>1. \A u \in Threads \ {t} : pc'[u] = pc[u] /\ snap'[u] = snap[u]
  BY OthersStay
<1>2. t \in Writers
  <2>1. pc[t] # "idle"
    BY DEF ApplyStep, WriteStaging, TestPasses, TestFails, WriteScripts, TruncateLive, WriteLive,
       StopXray, StartXray, WaitForXray, RunIptables, ProbeSucceeds, ProbeTimesOut, Disable,
       Teardown, WriteMarker, NoFailOpen, At
  <2>2. QED
    BY <2>1 DEF TestedInv
<1>3. \A u \in Threads \ {t} : pc'[u] = "idle"
  BY <1>1, <1>2 DEF TestedInv
<1>4. ASSUME \/ \E step \in Steps \ {"staged", "tested", "scripted", "truncated"} : Goto(t, step)
             \/ Finish(t) \/ Return(t) \/ Failed(t)
      PROVE  pc'[t] \notin {"staged", "tested", "scripted", "truncated"}
  BY <1>4 DEF Goto, Finish, Return, Failed, Generate, ThreadTypes
<1>5. CASE WriteStaging(t)
  <2>1. staging' = snap'[t] /\ pc'[t] = "staged" /\ live' = live
    BY <1>5 DEF WriteStaging, Goto, ThreadTypes
  <2>2. QED
    BY <1>2, <1>3, <2>1 DEF TestedInv, InstalledIsTested, Writers
<1>6. CASE TestPasses(t)
  <2>1. snap'[t] \in Good /\ pc'[t] = "tested" /\ live' = live
    BY <1>6 DEF TestPasses, Goto, At, ThreadTypes, TestedInv, disk
  <2>2. QED
    BY <1>2, <1>3, <2>1 DEF TestedInv, InstalledIsTested, Writers
<1>7. CASE WriteScripts(t) \/ TruncateLive(t)
  <2>1. snap'[t] \in Good /\ pc'[t] \in {"scripted", "truncated"} /\ live' \in {live, Torn}
    BY <1>7 DEF WriteScripts, TruncateLive, Goto, At, ThreadTypes, TestedInv
  <2>2. QED
    BY <1>2, <1>3, <2>1 DEF TestedInv, InstalledIsTested, Writers
<1>8. CASE WriteLive(t)
  <2>1. live' \in Good /\ pc'[t] = "written"
    BY <1>8 DEF WriteLive, Goto, At, ThreadTypes, TestedInv
  <2>2. QED
    BY <1>2, <1>3, <2>1 DEF TestedInv, InstalledIsTested, Writers
<1>9. CASE TestFails(t) \/ StopXray(t) \/ StartXray(t) \/ WaitForXray(t) \/ RunIptables(t)
  <2>1. UNCHANGED <<staging, live>>
    BY <1>9 DEF TestFails, StopXray, StartXray, WaitForXray, RunIptables, disk
  <2>2. pc'[t] \notin {"staged", "tested", "scripted", "truncated"}
    BY <1>4, <1>9 DEF TestFails, StopXray, StartXray, WaitForXray, RunIptables, Steps
  <2>3. QED
    BY <1>1, <1>2, <2>1, <2>2, StillTested
<1>10. CASE ProbeSucceeds(t) \/ ProbeTimesOut(t) \/ Disable(t) \/ Teardown(t) \/ WriteMarker(t)
            \/ NoFailOpen(t)
  <2>1. UNCHANGED <<staging, live>>
    BY <1>10 DEF ProbeSucceeds, ProbeTimesOut, Disable, Teardown, WriteMarker, NoFailOpen, disk
  <2>2. pc'[t] \notin {"staged", "tested", "scripted", "truncated"}
    BY <1>4, <1>10 DEF ProbeSucceeds, ProbeTimesOut, Disable, Teardown, WriteMarker, NoFailOpen,
       Steps
  <2>3. QED
    BY <1>1, <1>2, <2>1, <2>2, StillTested
<1>11. QED
  BY <1>5, <1>6, <1>7, <1>8, <1>9, <1>10 DEF ApplyStep

LEMMA CallTests ==
  ASSUME TypeOK, TestedInv, NEW t \in Threads,
         \/ BeginApply(t) \/ BeginRestart(t) \/ ApplyFault(t)
         \/ t = Dog /\ DogStep
  PROVE  TestedInv'
<1> USE DEF TypeOK
<1>1. \A u \in Threads \ {t} : pc'[u] = pc[u] /\ snap'[u] = snap[u]
  BY OthersStay
<1>2. t \in Writers
  BY DEF BeginApply, BeginRestart, ApplyFault, PrepareFails, InstallFails, SysctlFails, ClientGone,
     DogStep, DogLooks, DogProbes, DogLooksAgain, DogProbesAgain, At, TestedInv, Writers
<1>3. UNCHANGED <<staging, live>>
  BY DEF BeginApply, BeginRestart, ApplyFault, PrepareFails, InstallFails, SysctlFails, ClientGone,
     DogStep, DogLooks, DogProbes, DogLooksAgain, DogProbesAgain, disk
<1>4. ASSUME \/ \E step \in Steps \ {"staged", "tested", "scripted", "truncated"} : Goto(t, step)
             \/ Finish(t) \/ Return(t) \/ Failed(t) \/ StartOutage(t) \/ Alarm(t)
             \/ Generate(t, "apply") \/ Generate(t, "recover")
      PROVE  pc'[t] \notin {"staged", "tested", "scripted", "truncated"}
  BY <1>4 DEF Goto, Finish, Return, Failed, StartOutage, Alarm, Generate, ThreadTypes
<1>5. CASE BeginApply(t) \/ BeginRestart(t)
  <2>1. pc'[t] \notin {"staged", "tested", "scripted", "truncated"}
    BY <1>4, <1>5 DEF BeginApply, BeginRestart, ThreadTypes
  <2>2. QED
    BY <1>1, <1>2, <1>3, <2>1, StillTested
<1>6. CASE ApplyFault(t)
  <2>1. pc'[t] \notin {"staged", "tested", "scripted", "truncated"}
    BY <1>4, <1>6 DEF ApplyFault, PrepareFails, InstallFails, SysctlFails, ClientGone
  <2>2. QED
    BY <1>1, <1>2, <1>3, <2>1, StillTested
<1>7. CASE t = Dog /\ DogStep
  <2>1. pc'[t] \notin {"staged", "tested", "scripted", "truncated"}
    BY <1>4, <1>7 DEF DogStep, DogLooks, DogProbes, DogLooksAgain, DogProbesAgain, Steps
  <2>2. QED
    BY <1>1, <1>2, <1>3, <2>1, StillTested
<1>8. QED
  BY <1>5, <1>6, <1>7

\* With at most one caller of Apply, under every fault, the config on USB is one
\* that `xray -test` accepted, or one being written (InstalledIsTested).
THEOREM InstalledTested ==
  ASSUME NEW w, Writers \subseteq {w}
  PROVE  Spec => []InstalledIsTested
<1>1. Init => TestedInv
  BY DEF Init, TestedInv, InstalledIsTested
<1>2. TypeOK /\ TestedInv /\ [Next]_vars => TestedInv'
  <2> SUFFICES ASSUME TypeOK, TestedInv, [Next]_vars
               PROVE  TestedInv'
    OBVIOUS
  <2>1. ASSUME UNCHANGED <<staging, live, local>>
        PROVE  TestedInv'
    BY <2>1 DEF TestedInv, InstalledIsTested, local
  <2>2. ASSUME NEW t \in Threads,
               BeginApply(t) \/ BeginRestart(t) \/ ApplyStep(t) \/ ApplyFault(t)
        PROVE  TestedInv'
    BY <2>2, ApplyTests, CallTests
  <2>3. CASE DogStep
    BY <2>3, CallTests DEF Threads
  <2>4. CASE GuardStep \/ CronStep \/ StartupKills \/ StartupStep
    BY <2>1, <2>4 DEF GuardStep, GuardChecks, GuardTearsDown, GuardMarks, CronStep, CronChecks,
       CronRuns, StartupKills, StartupStep, StartupLaunches, StartupChecks, StartupTearsDown,
       StartupMarks, StartupHooks, StartupUnmarks, disk
  <2>5. CASE BadXrayExits \/ XrayCrashes \/ LinkChanges \/ UserEdits \/ UNCHANGED vars
    BY <2>1, <2>5 DEF BadXrayExits, XrayCrashes, LinkChanges, UserEdits, vars, disk, local
  <2>6. CASE PanelCrashes \/ Reboots
    BY <2>6 DEF PanelCrashes, Reboots, Quiesced, TestedInv, InstalledIsTested, disk
  <2>7. QED
    BY <2>2, <2>3, <2>4, <2>5, <2>6 DEF Next, Environment
<1>3. QED
  BY <1>1, <1>2, TypeCorrect, PTL DEF Spec, TestedInv

-----------------------------------------------------------------------------
(***************************************************************************)
(* The rules fit the process.  With one writer the script and the config   *)
(* on USB come from the same bytes except while it replaces them, and the  *)
(* redirect is refreshed from that script by whoever starts xray: the call *)
(* from its first file to its hook, the startup script from its launch.    *)
(***************************************************************************)
Switching(t) ==
  pc[t] \in {"scripted", "truncated", "written", "stopped", "started", "hooking"}

Starting == startup \in {"launch", "check", "iptables"}

MatchInv ==
  /\ \A t \in Threads \ Writers : pc[t] = "idle"
  /\ live = script \/ \E t \in Threads : pc[t] \in {"scripted", "truncated"}
  /\ \A t \in Threads : pc[t] \in {"scripted", "truncated"} => script = snap[t]
  /\ (\E t \in Threads : Switching(t)) \/ Starting \/ xray = None \/ rules \in {None, script}

\* Whoever moves is the writer, and the other threads stay idle.
LEMMA OnlyTheWriterMoves ==
  ASSUME ThreadTypes, MatchInv, NEW w, Writers \subseteq {w}, NEW t \in Threads,
         \/ BeginApply(t) \/ BeginRestart(t) \/ ApplyStep(t) \/ ApplyFault(t)
         \/ t = Dog /\ DogStep
  PROVE  t \in Writers /\ \A u \in Threads \ {t} : pc[u] = "idle" /\ pc'[u] = "idle"
<1>1. t \in Handlers \/ pc[t] # "idle" \/ (t = Dog /\ "watchdog" \in Jobs)
  <2>1. CASE BeginApply(t) \/ BeginRestart(t)
    BY <2>1 DEF BeginApply, BeginRestart
  <2>2. CASE ApplyStep(t)
    BY <2>2 DEF ApplyStep, WriteStaging, TestPasses, TestFails, WriteScripts, TruncateLive,
       WriteLive, StopXray, StartXray, WaitForXray, RunIptables, ProbeSucceeds, ProbeTimesOut,
       Disable, Teardown, WriteMarker, NoFailOpen, At
  <2>3. CASE ApplyFault(t)
    BY <2>3 DEF ApplyFault, PrepareFails, InstallFails, SysctlFails, ClientGone, At
  <2>4. CASE t = Dog /\ DogStep
    BY <2>4 DEF DogStep, DogLooks, DogProbes, DogLooksAgain, DogProbesAgain, At
  <2>5. QED
    BY <2>1, <2>2, <2>3, <2>4
<1>2. t \in Writers
  BY <1>1 DEF MatchInv, Writers
<1>3. \A u \in Threads \ {t} : pc[u] = "idle"
  BY <1>2 DEF MatchInv
<1>4. \A u \in Threads \ {t} : pc'[u] = pc[u]
  BY OthersStay
<1>5. QED
  BY <1>2, <1>3, <1>4

\* A step of the writer that leaves the files, and is not replacing them.
LEMMA StillMatches ==
  ASSUME MatchInv, NEW t \in Threads, t \in Writers,
         \A u \in Threads \ {t} : pc[u] = "idle" /\ pc'[u] = "idle",
         UNCHANGED <<live, script, startup>>,
         pc[t] \notin {"scripted", "truncated"}, pc'[t] \notin {"scripted", "truncated"},
         \/ Switching(t)' \/ xray' = None \/ rules' \in {None, script}
         \/ ~Switching(t) /\ UNCHANGED <<xray, rules>>
  PROVE  MatchInv'
<1>1. live' = script'
  BY DEF MatchInv
<1>2. \A u \in Threads \ {t} : ~Switching(u)
  BY DEF Switching
<1>3. (\E u \in Threads : Switching(u)') \/ Starting' \/ xray' = None \/ rules' \in {None, script'}
  BY <1>2 DEF MatchInv, Starting
<1>4. QED
  BY <1>1, <1>3 DEF MatchInv, Writers, Threads

LEMMA ApplyMatches ==
  ASSUME TypeOK, MatchInv, NEW w, Writers \subseteq {w}, NEW t \in Threads, ApplyStep(t)
  PROVE  MatchInv'
<1> USE DEF TypeOK, ThreadTypes
<1>1. t \in Writers /\ \A u \in Threads \ {t} : pc[u] = "idle" /\ pc'[u] = "idle"
  BY OnlyTheWriterMoves
<1>2. ASSUME pc'[t] \in {"scripted", "truncated"}, script' = snap'[t]
      PROVE  MatchInv'
  BY <1>1, <1>2 DEF MatchInv, Switching, Writers, Threads
<1>3. ASSUME \/ \E step \in {"staged", "tested", "probing", "healthy", "failing", "torndown"} :
                  Goto(t, step)
             \/ Finish(t) \/ Return(t) \/ Failed(t)
      PROVE  pc'[t] \notin {"scripted", "truncated"}
  BY <1>3 DEF Goto, Finish, Return, Failed, Generate
<1>4. CASE WriteScripts(t)
  <2>1. pc'[t] = "scripted" /\ script' = snap'[t]
    BY <1>4 DEF WriteScripts, Goto
  <2>2. QED
    BY <1>2, <2>1
<1>5. CASE TruncateLive(t)
  <2>1. pc'[t] = "truncated" /\ script' = snap'[t]
    BY <1>5 DEF TruncateLive, Goto, At, MatchInv
  <2>2. QED
    BY <1>2, <2>1
<1>6. CASE WriteLive(t)
  <2>1. pc'[t] = "written" /\ script' = live'
    BY <1>6 DEF WriteLive, Goto, At, MatchInv
  <2>2. QED
    BY <1>1, <2>1 DEF MatchInv, Switching, Writers, Threads
<1>7. CASE StopXray(t) \/ StartXray(t)
  <2>1. /\ pc[t] \in {"written", "stopped"} /\ pc'[t] \in {"stopped", "started"}
        /\ UNCHANGED <<live, script, startup>>
    BY <1>7 DEF StopXray, StartXray, Goto, At, disk, jobs
  <2>2. Switching(t)'
    BY <2>1 DEF Switching
  <2>3. QED
    BY <1>1, <2>1, <2>2, StillMatches
<1>8. CASE WaitForXray(t)
  <2>1. pc[t] = "started" /\ UNCHANGED <<live, script, startup, xray, rules>>
    BY <1>8 DEF WaitForXray, At, disk, jobs
  <2>2. CASE xray # None
    <3>1. pc'[t] = "hooking"
      BY <1>8, <2>2 DEF WaitForXray, Goto
    <3>2. QED
      BY <1>1, <2>1, <3>1, StillMatches DEF Switching
  <2>3. CASE xray = None
    <3>1. pc'[t] \notin {"scripted", "truncated"}
      BY <1>3, <1>8, <2>3 DEF WaitForXray
    <3>2. QED
      BY <1>1, <2>1, <2>3, <3>1, StillMatches
  <2>4. QED
    BY <2>2, <2>3
<1>9. CASE RunIptables(t)
  <2>1. pc[t] = "hooking" /\ UNCHANGED <<live, script, startup>> /\ rules' = script
    BY <1>9 DEF RunIptables, At, disk, jobs
  <2>2. pc'[t] \notin {"scripted", "truncated"}
    BY <1>3, <1>9 DEF RunIptables
  <2>3. QED
    BY <1>1, <2>1, <2>2, StillMatches
<1>10. CASE Teardown(t)
  <2>1. pc[t] = "failing" /\ UNCHANGED <<live, script, startup>> /\ rules' = None
    BY <1>10 DEF Teardown, At, disk, jobs
  <2>2. pc'[t] \notin {"scripted", "truncated"}
    BY <1>3, <1>10 DEF Teardown
  <2>3. QED
    BY <1>1, <2>1, <2>2, StillMatches
<1>11. CASE \/ WriteStaging(t) \/ TestPasses(t) \/ TestFails(t) \/ ProbeSucceeds(t)
            \/ ProbeTimesOut(t) \/ Disable(t) \/ WriteMarker(t) \/ NoFailOpen(t)
  <2>1. /\ pc[t] \in {"generated", "staged", "probing", "healthy", "torndown", "failing"}
        /\ UNCHANGED <<live, script, startup, xray, rules>>
    BY <1>11 DEF WriteStaging, TestPasses, TestFails, ProbeSucceeds, ProbeTimesOut, Disable,
       WriteMarker, NoFailOpen, At, disk, jobs
  <2>2. pc'[t] \notin {"scripted", "truncated"}
    BY <1>3, <1>11 DEF WriteStaging, TestPasses, TestFails, ProbeSucceeds, ProbeTimesOut, Disable,
       WriteMarker, NoFailOpen
  <2>3. ~Switching(t)
    BY <2>1 DEF Switching
  <2>4. QED
    BY <1>1, <2>1, <2>2, <2>3, StillMatches
<1>12. QED
  BY <1>4, <1>5, <1>6, <1>7, <1>8, <1>9, <1>10, <1>11 DEF ApplyStep

LEMMA CallMatches ==
  ASSUME TypeOK, MatchInv, NEW w, Writers \subseteq {w}, NEW t \in Threads,
         Faults \subseteq {"xray", "link", "edit", "disconnect"},
         \/ BeginApply(t) \/ BeginRestart(t) \/ ApplyFault(t)
         \/ t = Dog /\ DogStep
  PROVE  MatchInv'
<1> USE DEF TypeOK, ThreadTypes
<1>1. t \in Writers /\ \A u \in Threads \ {t} : pc[u] = "idle" /\ pc'[u] = "idle"
  BY OnlyTheWriterMoves
<1>2. ApplyFault(t) => ClientGone(t)
  BY DEF ApplyFault, PrepareFails, InstallFails, SysctlFails
<1>3. /\ pc[t] \in {"idle", "staged", "probing", "failing", "sawUp", "recheck", "recheckUp"}
      /\ UNCHANGED <<live, script, startup, xray, rules>>
  BY <1>2 DEF BeginApply, BeginRestart, ClientGone, DogStep, DogLooks, DogProbes, DogLooksAgain,
     DogProbesAgain, At, disk, jobs
<1>4. pc'[t] \notin {"scripted", "truncated"}
  BY <1>2 DEF BeginApply, BeginRestart, ClientGone, DogStep, DogLooks, DogProbes, DogLooksAgain,
     DogProbesAgain, StartOutage, Alarm, Generate, Goto, Finish
<1>5. ~Switching(t)
  BY <1>3 DEF Switching
<1>6. QED
  BY <1>1, <1>3, <1>4, <1>5, StillMatches

\* With one caller of Apply at a time, beside the guard, the cron refresh and the
\* startup script, through crashes of xray, lost links, edits and lost clients:
\* whenever nobody is at work the rules fit the running process (RulesMatchXray).
THEOREM RulesAlwaysMatch ==
  ASSUME NEW w, Writers \subseteq {w},
         Faults \subseteq {"xray", "link", "edit", "disconnect"}
  PROVE  Spec => []RulesMatchXray
<1>1. Init => MatchInv
  BY DEF Init, MatchInv
<1>2. TypeOK /\ MatchInv /\ [Next]_vars => MatchInv'
  <2> SUFFICES ASSUME TypeOK, MatchInv, [Next]_vars
               PROVE  MatchInv'
    OBVIOUS
  <2>1. ASSUME UNCHANGED <<live, script, local>>,
               \/ Starting' \/ xray' = None \/ rules' \in {None, script}
               \/ UNCHANGED <<startup, rules, xray>>
        PROVE  MatchInv'
    BY <2>1 DEF MatchInv, Switching, Starting, local
  <2>2. ASSUME NEW t \in Threads,
               BeginApply(t) \/ BeginRestart(t) \/ ApplyStep(t) \/ ApplyFault(t)
        PROVE  MatchInv'
    BY <2>2, ApplyMatches, CallMatches
  <2>3. CASE DogStep
    BY <2>3, CallMatches DEF Threads
  <2>4. CASE GuardStep \/ CronStep
    BY <2>1, <2>4 DEF GuardStep, GuardChecks, GuardTearsDown, GuardMarks, CronStep, CronChecks,
       CronRuns, disk
  <2>5. CASE StartupKills \/ StartupLaunches \/ StartupTearsDown \/ StartupHooks
    BY <2>1, <2>5 DEF StartupKills, StartupLaunches, StartupTearsDown, StartupHooks, Starting, disk
  <2>6. CASE StartupChecks
    BY <2>1, <2>6 DEF StartupChecks, Starting, disk
  <2>7. CASE StartupMarks \/ StartupUnmarks
    BY <2>7 DEF StartupMarks, StartupUnmarks, MatchInv, Switching, Starting, disk, local
  <2>8. CASE BadXrayExits \/ XrayCrashes \/ LinkChanges \/ UserEdits \/ UNCHANGED vars
    BY <2>1, <2>8 DEF BadXrayExits, XrayCrashes, LinkChanges, UserEdits, vars, disk, local, jobs
  <2>9. QED
    BY <2>2, <2>3, <2>4, <2>5, <2>6, <2>7, <2>8
    DEF Next, StartupStep, Environment, PanelCrashes, Reboots
<1>3. MatchInv /\ RunningIsInstalled => RulesMatchXray
  <2> SUFFICES ASSUME MatchInv, RunningIsInstalled, Resting, rules # None, xray # None
               PROVE  rules = xray
    BY DEF RulesMatchXray
  <2>1. xray = live
    BY DEF RunningIsInstalled, Rewriting, Resting
  <2>2. live = script
    BY DEF MatchInv, Resting
  <2>3. rules = script
    BY DEF MatchInv, Switching, Starting, Resting
  <2>4. QED
    BY <2>1, <2>2, <2>3
<1>4. Faults \subseteq {"xray", "reboot", "link", "edit", "disconnect"}
  OBVIOUS
<1>5. Spec => []RunningIsInstalled
  BY <1>4, NoStaleProcess
<1>6. QED
  BY <1>1, <1>2, <1>3, <1>5, TypeCorrect, PTL DEF Spec
=============================================================================
