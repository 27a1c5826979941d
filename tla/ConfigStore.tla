---------------------------- MODULE ConfigStore ----------------------------
(***************************************************************************)
(* config.Store: the panel's configuration in memory, panel.json, and the  *)
(* temporary file every save goes through.  Many goroutines of the panel   *)
(* share one Store and its mutex.  A second process, `panel -reset` or     *)
(* `panel -post-update`, has a Store of its own for the same files.        *)
(*                                                                         *)
(* A configuration is the set of the choices somebody made; the empty set  *)
(* is DefaultPanelConfig.  A request is the sequence of store calls its    *)
(* handler makes.  Of the temporary file a thread holds not the name but   *)
(* the inode: `at` says which name that inode has now.                     *)
(***************************************************************************)
EXTENDS Sequences, FiniteSets

CONSTANTS
  Handlers,  \* goroutines of the panel that change the configuration
  Main,      \* the panel's main goroutine, which loads it
  Cli,       \* the only goroutine of the second process
  Settings,  \* choices a configuration can hold
  Plans,     \* what a request of the panel may do, see Calls
  CliPlans,  \* what the second process may do
  Overlap,   \* "restore": a restore runs beside other requests; "cli": processes overlap
  Faults,    \* "crash": a process dies; "disk": a write fails
  None,      \* no process, nobody
  Missing, Empty, Torn  \* a file that is not there, truncated, incomplete

Config == SUBSET Settings
Threads == Handlers \cup {Main, Cli}

\* Store calls.  An update or a replacement turns c into (c \ drop) \cup add.
Update(add, drop) == [kind |-> "update", add |-> add, drop |-> drop]
Replace(c) == [kind |-> "replace", add |-> c, drop |-> Settings \ c]
Save == [kind |-> "save", add |-> {}, drop |-> {}]
Load == [kind |-> "load", add |-> {}, drop |-> {}]
Calls == [kind : {"update", "replace", "save", "load"}, add : Config, drop : Config]

Updates == {k \in Calls : k.kind = "update" /\ "legacy" \notin k.add}

\* Every handler either updates, once or more, or replaces the configuration and saves it.
IsPlan(p) ==
  \/ p # <<>> /\ p \in Seq(Updates)
  \/ \E k \in Calls : k.kind = "replace" /\ p = <<k, Save>>

ASSUME StoreAssumption ==
  /\ Main \notin Handlers /\ Cli \notin Handlers /\ Main # Cli
  /\ None \notin Threads
  /\ {"password", "completed", "legacy"} \subseteq Settings
  /\ \A p \in Plans \cup CliPlans : IsPlan(p)
  /\ {None, Missing, Empty, Torn} \cap Config = {}
  /\ Missing \notin {Empty, Torn} /\ Empty # Torn

\* (Slip: the own password is not taken for a finished onboarding.)
LoadedAsWritten(c) == IF c = Missing THEN {} ELSE c \ {"legacy"}

\* What Load makes of a file: an own password counts as onboarding done, and
\* what older versions wrote is migrated.
Loaded(c) ==
  IF c = Missing THEN {}
  ELSE (c \ {"legacy"}) \cup (IF "password" \in c THEN {"completed"} ELSE {})

VARIABLES
  mem,      \* per process: the Store's configuration, or None
  mutex,    \* per process: the thread that holds the Store's mutex
  disk,     \* panel.json
  tmp,      \* panel.json.tmp
  pc,       \* per thread: next step
  todo,     \* per thread: the calls of its request that are not done
  copy,     \* per thread: the configuration it is writing
  at,       \* per thread: the name of the inode it has open
  returned, \* <<s, v>>: a successful Update left s "on" or "off"; nothing touched s since
  failed    \* a request failed or was cut off since panel.json was whole with none in progress

files == <<disk, tmp>>
vars == <<mem, mutex, disk, tmp, pc, todo, copy, at, returned, failed>>

Procs == {"panel", "cli"}
Proc(t) == IF t = Cli THEN "cli" ELSE "panel"
OfProc(p) == {t \in Threads : Proc(t) = p}
Files == Config \cup {Missing, Empty, Torn}

TypeOK ==
  /\ mem \in [Procs -> Config \cup {None}]
  /\ mutex \in [Procs -> Threads \cup {None}]
  /\ disk \in Files /\ tmp \in Files
  /\ pc \in [Threads -> {"idle", "ready", "open", "write", "rename"}]
  /\ todo \in [Threads -> Seq(Calls)]
  /\ copy \in [Threads -> Config]
  /\ at \in [Threads -> {"none", "tmp", "json", "gone"}]
  /\ returned \subseteq Settings \X {"on", "off"} /\ failed \in BOOLEAN
  /\ \A t \in Threads : (pc[t] = "idle") = (todo[t] = <<>>)
  /\ \A t \in Threads : pc[t] # "idle" => mem[Proc(t)] # None

\* The panel is installed, and was used or not.
Init ==
  /\ mem = [p \in Procs |-> None]
  /\ mutex = [p \in Procs |-> None]
  /\ disk \in {Missing, {}, {"password", "completed"}, {"legacy"}}
  /\ tmp = Missing
  /\ pc = [t \in Threads |-> "idle"]
  /\ todo = [t \in Threads |-> <<>>]
  /\ copy = [t \in Threads |-> {}]
  /\ at = [t \in Threads |-> "none"]
  /\ returned = {} /\ failed = FALSE

-----------------------------------------------------------------------------
(* Processes.                                                              *)

\* (Slip: requests are served before the configuration is loaded and saved.)
ServingEarly == mem["panel"] # None

Serving == mem["panel"] # None /\ pc[Main] = "idle"

Restoring(t) == todo[t] # <<>> /\ Head(todo[t]).kind \in {"replace", "save"}

Start(t, calls, step) ==
  /\ mem[Proc(t)] = None /\ pc[t] = "idle"
  /\ "cli" \in Overlap \/ \A p \in Procs : mem[p] = None
  /\ mem' = [mem EXCEPT ![Proc(t)] = Loaded(disk)]
  /\ todo' = [todo EXCEPT ![t] = calls]
  /\ copy' = [copy EXCEPT ![t] = IF step = "open" THEN Loaded(disk) ELSE {}]
  /\ pc' = [pc EXCEPT ![t] = step]
  /\ mutex' = [mutex EXCEPT ![Proc(t)] = IF step = "open" /\ disk # Missing THEN t ELSE None]
  /\ returned' = {r \in returned : r # <<"completed", "off">> \/ "completed" \notin Loaded(disk)}
  /\ UNCHANGED <<files, at, failed>>

\* NewStore in main: without a file it saves the defaults, an older file is
\* migrated and written back, one that cannot be parsed ends the process.
StartPanel ==
  \/ disk = Missing /\ Start(Main, <<Save>>, "open")
  \/ disk \in Config /\ "legacy" \in disk /\ Start(Main, <<Load>>, "open")
  \/ disk \in Config /\ "legacy" \notin disk /\ Start(Main, <<>>, "idle")

\* The same in a process that is started for one task.
StartCli ==
  \E plan \in CliPlans :
    \/ disk \in Config /\ "legacy" \in disk /\ Start(Cli, <<Load>> \o plan, "open")
    \/ disk \in Config /\ "legacy" \notin disk /\ Start(Cli, plan, "ready")

\* A process ends: its threads, its mutex and its open files are gone.
Ends(p) ==
  /\ mem' = [mem EXCEPT ![p] = None]
  /\ mutex' = [mutex EXCEPT ![p] = None]
  /\ pc' = [t \in Threads |-> IF Proc(t) = p THEN "idle" ELSE pc[t]]
  /\ todo' = [t \in Threads |-> IF Proc(t) = p THEN <<>> ELSE todo[t]]
  /\ copy' = [t \in Threads |-> IF Proc(t) = p THEN {} ELSE copy[t]]
  /\ at' = [t \in Threads |-> IF Proc(t) = p THEN "none" ELSE at[t]]
  /\ failed' = (failed \/ \E t \in OfProc(p) : pc[t] # "idle")
  /\ UNCHANGED <<files, returned>>

Crash(p) == "crash" \in Faults /\ mem[p] # None /\ Ends(p)

CliExits == mem["cli"] # None /\ pc[Cli] = "idle" /\ Ends("cli")

-----------------------------------------------------------------------------
(* Requests and the calls they make.                                       *)

\* panel.json always can be read: a file that cannot keeps the panel from starting
\* (main.go 67-70).  A crash or a full disk between truncation and rename, and a
\* second writer of the same temporary file, must not get half a file into its place.
DiskIsWhole == disk \in Config \cup {Missing}

AtRest == \A t \in Threads : pc[t] = "idle"

\* Unless a restore may overlap, the user waits for it and nothing else is going on.
MayBegin(t, plan) ==
  "restore" \in Overlap \/ \A u \in Handlers :
     pc[u] = "idle" \/ (plan[1].kind = "update" /\ ~Restoring(u))

BeginRequest(t, plan) ==
  /\ Serving /\ pc[t] = "idle"
  /\ MayBegin(t, plan)
  /\ pc' = [pc EXCEPT ![t] = "ready"]
  /\ todo' = [todo EXCEPT ![t] = plan]
  /\ failed' = (failed /\ ~(DiskIsWhole /\ AtRest))
  /\ UNCHANGED <<mem, mutex, files, copy, at, returned>>

Call(t) == Head(todo[t])

\* The call is done; the request goes on with the next, or ends.
Proceed(t) ==
  /\ todo' = [todo EXCEPT ![t] = Tail(@)]
  /\ pc' = [pc EXCEPT ![t] = IF Len(todo[t]) = 1 THEN "idle" ELSE "ready"]

\* Nothing is known any more of a choice that is being changed.
Untouched(k) == {r \in returned : r[1] \notin k.add \cup k.drop}

Changed(c, k) == (c \ k.drop) \cup k.add

\* (Slip: the mutex protects the copy in memory only, not the writing.)
UpdateUnlocked(t) ==
  LET p == Proc(t) new == Changed(mem[p], Call(t)) IN
  /\ pc[t] = "ready" /\ Call(t).kind = "update" /\ mutex[p] = None
  /\ mem' = [mem EXCEPT ![p] = new]
  /\ copy' = [copy EXCEPT ![t] = new]
  /\ pc' = [pc EXCEPT ![t] = "open"]
  /\ returned' = Untouched(Call(t))
  /\ UNCHANGED <<mutex, files, todo, at, failed>>

\* Update: the function changes the configuration in place, under the mutex,
\* which is kept until the file is renamed.
ChangeMemory(t) ==
  LET p == Proc(t) new == Changed(mem[p], Call(t)) IN
  /\ pc[t] = "ready" /\ Call(t).kind = "update" /\ mutex[p] = None
  /\ mem' = [mem EXCEPT ![p] = new]
  /\ copy' = [copy EXCEPT ![t] = new]
  /\ mutex' = [mutex EXCEPT ![p] = t]
  /\ pc' = [pc EXCEPT ![t] = "open"]
  /\ returned' = Untouched(Call(t))
  /\ UNCHANGED <<files, todo, at, failed>>

ReplaceMemory(t) ==
  LET p == Proc(t) IN
  /\ pc[t] = "ready" /\ Call(t).kind = "replace" /\ mutex[p] = None
  /\ mem' = [mem EXCEPT ![p] = Changed(mem[p], Call(t))]
  /\ Proceed(t)
  /\ returned' = Untouched(Call(t))
  /\ UNCHANGED <<mutex, files, copy, at, failed>>

\* Save takes a copy under the mutex and writes it without.
CopyMemory(t) ==
  LET p == Proc(t) IN
  /\ pc[t] = "ready" /\ Call(t).kind = "save" /\ mutex[p] = None
  /\ copy' = [copy EXCEPT ![t] = mem[p]]
  /\ pc' = [pc EXCEPT ![t] = "open"]
  /\ UNCHANGED <<mem, mutex, files, todo, at, returned, failed>>

-----------------------------------------------------------------------------
(* Writing: os.WriteFile opens, truncates and writes; then os.Rename.      *)

\* (Slip: the file is written in place.)
OpenInPlace(t) ==
  /\ pc[t] = "open"
  /\ disk' = Empty
  /\ at' = [at EXCEPT ![t] = "json"]
  /\ pc' = [pc EXCEPT ![t] = "write"]
  /\ UNCHANGED <<mem, mutex, tmp, todo, copy, returned, failed>>

OpenTmp(t) ==
  /\ pc[t] = "open"
  /\ tmp' = Empty
  /\ at' = [at EXCEPT ![t] = "tmp"]
  /\ pc' = [pc EXCEPT ![t] = "write"]
  /\ UNCHANGED <<mem, mutex, disk, todo, copy, returned, failed>>

\* The inode t has open gets one of these contents.
Writes(t, contents) ==
  \/ at[t] = "tmp"  /\ tmp' \in contents /\ UNCHANGED disk
  \/ at[t] = "json" /\ disk' \in contents /\ UNCHANGED tmp
  \/ at[t] = "gone" /\ UNCHANGED files

\* What somebody else wrote to the same inode shows at the end if it is longer.
WriteFile(t) ==
  LET there == IF at[t] = "tmp" THEN tmp ELSE disk IN
  /\ pc[t] = "write"
  /\ Writes(t, {copy[t]} \cup (IF there = Empty THEN {} ELSE {Torn}))
  /\ at' = [at EXCEPT ![t] = "none"]
  /\ pc' = [pc EXCEPT ![t] = "rename"]
  /\ UNCHANGED <<mem, mutex, todo, copy, returned, failed>>

Release(t) == [p \in Procs |-> IF mutex[p] = t THEN None ELSE mutex[p]]

\* An inode that gets the name panel.json takes it from the one that had it.
AfterRename == [u \in Threads |-> CASE at[u] = "tmp"  -> "json"
                                    [] at[u] = "json" -> "gone"
                                    [] OTHER          -> at[u]]

\* What the call that ends now has settled.
Settled(k) ==
  IF k.kind = "update" THEN (k.add \X {"on"}) \cup ((k.drop \ k.add) \X {"off"}) ELSE {}

RenameTmp(t) ==
  /\ pc[t] = "rename" /\ tmp # Missing
  /\ disk' = tmp /\ tmp' = Missing
  /\ at' = AfterRename
  /\ mutex' = Release(t)
  /\ Proceed(t)
  /\ copy' = [copy EXCEPT ![t] = {}]
  /\ returned' = Untouched(Call(t)) \cup Settled(Call(t))
  /\ UNCHANGED <<mem, failed>>

\* An error is returned through the handler, and ends a process that has just one thread.
Fails(t) ==
  /\ mutex' = Release(t)
  /\ pc' = [pc EXCEPT ![t] = "idle"]
  /\ todo' = [todo EXCEPT ![t] = <<>>]
  /\ at' = [at EXCEPT ![t] = "none"]
  /\ copy' = [copy EXCEPT ![t] = {}]
  /\ mem' = IF t = Main THEN [mem EXCEPT !["panel"] = None] ELSE mem
  /\ failed' = TRUE
  /\ UNCHANGED returned

\* NewStore takes the error of a migration's rename for a missing panel.json: it
\* saves the defaults.
SavesDefaults(t) ==
  /\ mem' = [mem EXCEPT ![Proc(t)] = {}]
  /\ copy' = [copy EXCEPT ![t] = {}]
  /\ mutex' = Release(t)
  /\ todo' = [todo EXCEPT ![t] = <<Save>> \o Tail(@)]
  /\ pc' = [pc EXCEPT ![t] = "open"]
  /\ UNCHANGED <<at, returned, failed>>

\* (Slip: the error of the rename is dropped.)
RenameIgnored(t) ==
  /\ pc[t] = "rename" /\ tmp = Missing
  /\ mutex' = Release(t)
  /\ copy' = [copy EXCEPT ![t] = {}]
  /\ Proceed(t)
  /\ UNCHANGED <<mem, files, at, returned, failed>>

\* Somebody else renamed the temporary file.
RenameFails(t) ==
  /\ pc[t] = "rename" /\ tmp = Missing
  /\ \/ Call(t).kind # "load" /\ Fails(t)
     \/ Call(t).kind = "load" /\ SavesDefaults(t)
  /\ UNCHANGED files

OpenFails(t) == "disk" \in Faults /\ pc[t] = "open" /\ Fails(t) /\ UNCHANGED files

WriteFails(t) == "disk" \in Faults /\ pc[t] = "write" /\ Writes(t, {Torn}) /\ Fails(t)

Step(t) ==
  \/ ChangeMemory(t) \/ ReplaceMemory(t) \/ CopyMemory(t)
  \/ OpenTmp(t) \/ WriteFile(t) \/ RenameTmp(t)
  \/ RenameFails(t) \/ OpenFails(t) \/ WriteFails(t)

Next ==
  \/ StartPanel \/ StartCli \/ CliExits
  \/ \E p \in Procs : Crash(p)
  \/ \E t \in Handlers, plan \in Plans : BeginRequest(t, plan)
  \/ \E t \in Threads : Step(t)

Spec == Init /\ [][Next]_vars

-----------------------------------------------------------------------------
(* Properties.                                                             *)

\* What an Update has set when it returned without error (panel.go 411-433) is what
\* panel.json says and what each process has in memory, until somebody changes that
\* choice again, or Load takes an own password for a finished onboarding (357-361).
ReturnedSurvives ==
  \A r \in returned : \A c \in {disk} \cup {mem[p] : p \in Procs} :
    c \in Config => (r[1] \in c <=> r[2] = "on")

\* Two writers share the temporary file when one does not hold the mutex, and panel.json
\* can come out torn.  Whoever renames second fails, so at rest a file that keeps the
\* panel from starting means that somebody got an error, or no answer.
TornIsReported == AtRest /\ ~DiskIsWhole => failed

\* To those who use it the store is one configuration in memory and one saved, which
\* changes in one step to what memory is at that moment: an older copy never replaces
\* a newer one, and a restart brings what was saved.
Memory == IF mem["cli"] # None THEN mem["cli"] ELSE mem["panel"]

Durable == INSTANCE DurableConfig WITH
  memory <- Memory,
  saved <- disk,
  Restored <- [c \in Config \cup {Missing} |-> Loaded(c)]

ImplementsDurable == Durable!Spec
=============================================================================
