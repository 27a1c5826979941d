------------------------- MODULE ConfigStoreProofs -------------------------
(***************************************************************************)
(* Proofs about ConfigStore for any settings, requests, goroutines and     *)
(* faults: types, torn files, the whole file, surviving settings, and the  *)
(* abstract store.  All but the first two assume Overlap = {}: no request  *)
(* runs beside a restore and no second process beside the panel.           *)
(***************************************************************************)
EXTENDS ConfigStore, SequenceTheorems, TLAPS

USE DEF Procs, Proc, Threads, Files

\* Nobody is served before the main goroutine has loaded the store.
MainFirst == pc[Main] # "idle" => \A h \in Handlers : pc[h] = "idle"

TypeInv == TypeOK /\ MainFirst

-----------------------------------------------------------------------------
LEMMA PlansAreCalls ==
  ASSUME NEW p \in Plans \cup CliPlans
  PROVE  p \in Seq(Calls) /\ p # <<>>
<1>1. Updates \subseteq Calls
  BY DEF Updates
<1>2. Save \in Calls
  BY DEF Save, Calls, Config
<1>3. CASE p # <<>> /\ p \in Seq(Updates)
  <2>1. \A i \in 1..Len(p) : p[i] \in Calls
    BY <1>1, <1>3, ElementOfSeq
  <2> QED
    BY <2>1, <1>3, SeqDef
<1>4. CASE \E k \in Calls : k.kind = "replace" /\ p = <<k, Save>>
  BY <1>2, <1>4
<1> QED
  BY <1>3, <1>4, StoreAssumption DEF IsPlan

LEMMA LoadedIsConfig ==
  ASSUME NEW c \in Config \cup {Missing}
  PROVE  Loaded(c) \in Config
BY StoreAssumption DEF Loaded, Config

LEMMA TypeInit == Init => TypeInv
<1> SUFFICES ASSUME Init PROVE TypeInv
  OBVIOUS
<1>1. disk \in Config \cup {Missing}
  BY StoreAssumption DEF Init, Config
<1>2. {} \in Config
  BY DEF Config
<1>3. todo \in [Threads -> Seq(Calls)]
  BY DEF Init
<1> QED
  BY <1>1, <1>2, <1>3 DEF Init, TypeInv, TypeOK, MainFirst

\* The part of every step that a process start has in common.
LEMMA TypeStart ==
  ASSUME NEW t \in Threads, NEW calls \in Seq(Calls), NEW step \in {"idle", "ready", "open"},
         t \in {Main, Cli}, disk \in Config \cup {Missing},
         (step = "idle") = (calls = <<>>),
         TypeInv, Start(t, calls, step)
  PROVE  TypeInv'
<1>1. Loaded(disk) \in Config /\ {} \in Config
  BY LoadedIsConfig DEF Config
<1>2. mem' \in [Procs -> Config \cup {None}]
  BY <1>1 DEF Start, TypeInv, TypeOK
<1>3. mutex' \in [Procs -> Threads \cup {None}]
  BY DEF Start, TypeInv, TypeOK
<1>4. pc' \in [Threads -> {"idle", "ready", "open", "write", "rename"}]
  BY DEF Start, TypeInv, TypeOK
<1>5. todo' \in [Threads -> Seq(Calls)]
  BY DEF Start, TypeInv, TypeOK
<1>6. copy' \in [Threads -> Config]
  BY <1>1 DEF Start, TypeInv, TypeOK
<1>7. \A u \in Threads : (pc'[u] = "idle") = (todo'[u] = <<>>)
  BY DEF Start, TypeInv, TypeOK
<1>8. \A u \in Threads : pc'[u] # "idle" => mem'[Proc(u)] # None
  BY <1>1, StoreAssumption DEF Start, TypeInv, TypeOK
<1>9. MainFirst'
  BY StoreAssumption DEF Start, TypeInv, TypeOK, MainFirst
<1>10. returned' \subseteq Settings \X {"on", "off"}
  BY DEF Start, TypeInv, TypeOK
<1>11. UNCHANGED <<disk, tmp, at, failed>>
  BY DEF Start, files
<1> QED
  BY <1>2, <1>3, <1>4, <1>5, <1>6, <1>7, <1>8, <1>9, <1>10, <1>11 DEF TypeInv, TypeOK

LEMMA TypeStartPanel == TypeInv /\ StartPanel => TypeInv'
<1> SUFFICES ASSUME TypeInv, StartPanel PROVE TypeInv'
  OBVIOUS
<1>1. <<Save>> \in Seq(Calls) /\ <<Load>> \in Seq(Calls) /\ <<>> \in Seq(Calls)
  BY DEF Save, Load, Calls, Config
<1>2. <<Save>> # <<>> /\ <<Load>> # <<>>
  OBVIOUS
<1> QED
  BY <1>1, <1>2, TypeStart DEF StartPanel

LEMMA TypeStartCli == TypeInv /\ StartCli => TypeInv'
<1> SUFFICES ASSUME TypeInv, StartCli PROVE TypeInv'
  OBVIOUS
<1> PICK plan \in CliPlans :
      \/ disk \in Config /\ Start(Cli, <<Load>> \o plan, "open")
      \/ disk \in Config /\ Start(Cli, plan, "ready")
  BY DEF StartCli
<1>1. plan \in Seq(Calls) /\ plan # <<>>
  BY PlansAreCalls
<1>2. <<Load>> \in Seq(Calls)
  BY DEF Load, Calls, Config
<1>3. <<Load>> \o plan \in Seq(Calls) /\ <<Load>> \o plan # <<>>
  BY <1>1, <1>2
<1> QED
  BY <1>1, <1>3, TypeStart

LEMMA TypeEnds ==
  ASSUME NEW p \in Procs, TypeInv, Ends(p)
  PROVE  TypeInv'
<1>1. copy' \in [Threads -> Config]
  BY DEF Ends, TypeInv, TypeOK, Config
<1>2. todo' \in [Threads -> Seq(Calls)]
  BY DEF Ends, TypeInv, TypeOK
<1>3. pc' \in [Threads -> {"idle", "ready", "open", "write", "rename"}]
  BY DEF Ends, TypeInv, TypeOK
<1>4. at' \in [Threads -> {"none", "tmp", "json", "gone"}]
  BY DEF Ends, TypeInv, TypeOK
<1>5. mem' \in [Procs -> Config \cup {None}] /\ mutex' \in [Procs -> Threads \cup {None}]
  BY DEF Ends, TypeInv, TypeOK
<1>6. failed' \in BOOLEAN
  BY DEF Ends, TypeInv, TypeOK
<1>7. \A u \in Threads : (pc'[u] = "idle") = (todo'[u] = <<>>)
  BY DEF Ends, TypeInv, TypeOK
<1>8. \A u \in Threads : pc'[u] # "idle" => mem'[Proc(u)] # None
  BY DEF Ends, TypeInv, TypeOK
<1>9. MainFirst'
  BY StoreAssumption DEF Ends, TypeInv, TypeOK, MainFirst
<1> QED
  BY <1>1, <1>2, <1>3, <1>4, <1>5, <1>6, <1>7, <1>8, <1>9 DEF Ends, files, TypeInv, TypeOK

LEMMA TypeBegin ==
  ASSUME NEW t \in Handlers, NEW plan \in Plans, TypeInv, BeginRequest(t, plan)
  PROVE  TypeInv'
<1>1. plan \in Seq(Calls) /\ plan # <<>>
  BY PlansAreCalls
<1>2. failed' \in BOOLEAN
  BY DEF BeginRequest, TypeInv, TypeOK
<1>3. \A u \in Threads : (pc'[u] = "idle") = (todo'[u] = <<>>)
  BY <1>1 DEF BeginRequest, TypeInv, TypeOK
<1>4. \A u \in Threads : pc'[u] # "idle" => mem'[Proc(u)] # None
  BY StoreAssumption DEF BeginRequest, Serving, TypeInv, TypeOK
<1>5. MainFirst'
  BY StoreAssumption DEF BeginRequest, Serving, TypeInv, TypeOK, MainFirst
<1>6. todo' \in [Threads -> Seq(Calls)]
  BY <1>1 DEF BeginRequest, TypeInv, TypeOK
<1>7. pc' \in [Threads -> {"idle", "ready", "open", "write", "rename"}]
  BY DEF BeginRequest, TypeInv, TypeOK
<1> QED
  BY <1>2, <1>3, <1>4, <1>5, <1>6, <1>7 DEF BeginRequest, files, TypeInv, TypeOK

\* What the call at the head of a busy thread is.
LEMMA CallIsCall ==
  ASSUME NEW t \in Threads, TypeInv, pc[t] # "idle"
  PROVE  /\ Call(t) \in Calls /\ Call(t).add \in Config /\ Call(t).drop \in Config
         /\ Tail(todo[t]) \in Seq(Calls)
         /\ (Len(todo[t]) = 1) = (Tail(todo[t]) = <<>>)
         /\ mem[Proc(t)] \in Config
<1>1. todo[t] \in Seq(Calls) /\ todo[t] # <<>>
  BY DEF TypeInv, TypeOK
<1>2. Call(t) \in Calls
  BY <1>1 DEF Call
<1>3. Len(todo[t]) \in Nat /\ Len(Tail(todo[t])) = Len(todo[t]) - 1 /\ Tail(todo[t]) \in Seq(Calls)
  BY <1>1
<1>4. (Tail(todo[t]) = <<>>) = (Len(Tail(todo[t])) = 0)
  BY <1>3, EmptySeq
<1>5. mem[Proc(t)] \in Config
  BY DEF TypeInv, TypeOK
<1> QED
  BY <1>2, <1>3, <1>4, <1>5 DEF Calls

LEMMA ChangedIsConfig ==
  ASSUME NEW t \in Threads, TypeInv, pc[t] # "idle"
  PROVE  Changed(mem[Proc(t)], Call(t)) \in Config
BY CallIsCall DEF Changed, Config

LEMMA TypeProceed ==
  ASSUME NEW t \in Threads, TypeInv, pc[t] # "idle", Proceed(t)
  PROVE  /\ todo' \in [Threads -> Seq(Calls)]
         /\ pc' \in [Threads -> {"idle", "ready", "open", "write", "rename"}]
         /\ \A u \in Threads : (pc'[u] = "idle") = (todo'[u] = <<>>)
         /\ \A u \in Threads : pc'[u] # "idle" => pc[u] # "idle"
         /\ MainFirst'
<1>1. Tail(todo[t]) \in Seq(Calls) /\ (Len(todo[t]) = 1) = (Tail(todo[t]) = <<>>)
  BY CallIsCall
<1> QED
  BY <1>1, StoreAssumption DEF Proceed, TypeInv, TypeOK, MainFirst

LEMMA TypeMemory ==
  ASSUME NEW t \in Threads, TypeInv,
         ChangeMemory(t) \/ ReplaceMemory(t) \/ CopyMemory(t)
  PROVE  TypeInv'
<1>1. pc[t] = "ready"
  BY DEF ChangeMemory, ReplaceMemory, CopyMemory
<1>2. Changed(mem[Proc(t)], Call(t)) \in Config /\ mem[Proc(t)] \in Config
  BY <1>1, CallIsCall, ChangedIsConfig
<1>3. CASE ChangeMemory(t)
  BY <1>1, <1>2, <1>3, StoreAssumption DEF ChangeMemory, Untouched, files, TypeInv, TypeOK, MainFirst
<1>4. CASE ReplaceMemory(t)
  <2>1. Proceed(t)
    BY <1>4 DEF ReplaceMemory
  <2>2. mem' \in [Procs -> Config \cup {None}] /\ \A p \in Procs : mem[p] # None => mem'[p] # None
    BY <1>2, <1>4, StoreAssumption DEF ReplaceMemory, TypeInv, TypeOK
  <2>3. returned' \subseteq Settings \X {"on", "off"}
    BY <1>4 DEF ReplaceMemory, Untouched, TypeInv, TypeOK
  <2> QED
    BY <1>1, <1>4, <2>1, <2>2, <2>3, TypeProceed DEF ReplaceMemory, files, TypeInv, TypeOK
<1>5. CASE CopyMemory(t)
  BY <1>1, <1>2, <1>5, StoreAssumption DEF CopyMemory, files, TypeInv, TypeOK, MainFirst
<1> QED
  BY <1>3, <1>4, <1>5

LEMMA TypeWrite ==
  ASSUME NEW t \in Threads, TypeInv, OpenTmp(t) \/ WriteFile(t)
  PROVE  TypeInv'
<1>1. CASE OpenTmp(t)
  BY <1>1 DEF OpenTmp, TypeInv, TypeOK, MainFirst
<1>2. CASE WriteFile(t)
  <2>1. disk' \in Files /\ tmp' \in Files
    <3>1. copy[t] \in Config
      BY DEF TypeInv, TypeOK
    <3> QED
      BY <1>2, <3>1 DEF WriteFile, Writes, files, TypeInv, TypeOK
  <2> QED
    BY <1>2, <2>1 DEF WriteFile, TypeInv, TypeOK, MainFirst
<1> QED
  BY <1>1, <1>2

LEMMA TypeRelease ==
  ASSUME NEW t \in Threads, TypeInv
  PROVE  Release(t) \in [Procs -> Threads \cup {None}]
BY DEF Release, TypeInv, TypeOK

LEMMA TypeRename ==
  ASSUME NEW t \in Threads, TypeInv, RenameTmp(t)
  PROVE  TypeInv'
<1>1. pc[t] # "idle" /\ Proceed(t)
  BY DEF RenameTmp
<1>2. at' \in [Threads -> {"none", "tmp", "json", "gone"}]
  BY DEF RenameTmp, AfterRename, TypeInv, TypeOK
<1>3. returned' \subseteq Settings \X {"on", "off"}
  <2>1. Untouched(Call(t)) \subseteq Settings \X {"on", "off"}
    BY DEF Untouched, TypeInv, TypeOK
  <2>2. Settled(Call(t)) \subseteq Settings \X {"on", "off"}
    BY <1>1, CallIsCall DEF Settled, Config
  <2> QED
    BY <2>1, <2>2 DEF RenameTmp
<1>4. copy' \in [Threads -> Config]
  BY DEF RenameTmp, TypeInv, TypeOK, Config
<1>5. mutex' \in [Procs -> Threads \cup {None}]
  BY TypeRelease DEF RenameTmp
<1>6. disk' \in Files /\ tmp' \in Files /\ UNCHANGED <<mem, failed>>
  BY DEF RenameTmp, TypeInv, TypeOK
<1> QED
  BY <1>1, <1>2, <1>3, <1>4, <1>5, <1>6, TypeProceed DEF TypeInv, TypeOK

LEMMA TypeFails ==
  ASSUME NEW t \in Threads, TypeInv, pc[t] # "idle", Fails(t),
         disk' \in Files, tmp' \in Files
  PROVE  TypeInv'
<1>1. mutex' \in [Procs -> Threads \cup {None}]
  BY TypeRelease DEF Fails
<1>2. copy' \in [Threads -> Config]
  BY DEF Fails, TypeInv, TypeOK, Config
<1>3. todo' \in [Threads -> Seq(Calls)] /\ at' \in [Threads -> {"none", "tmp", "json", "gone"}]
  BY DEF Fails, TypeInv, TypeOK
<1>4. pc' \in [Threads -> {"idle", "ready", "open", "write", "rename"}]
  BY DEF Fails, TypeInv, TypeOK
<1>5. mem' \in [Procs -> Config \cup {None}]
  BY DEF Fails, TypeInv, TypeOK
<1>6. \A u \in Threads : (pc'[u] = "idle") = (todo'[u] = <<>>)
  BY DEF Fails, TypeInv, TypeOK
<1>7. \A u \in Threads : pc'[u] # "idle" => mem'[Proc(u)] # None
  <2>1. CASE t = Main
    <3>1. \A u \in Threads : pc'[u] # "idle" => Proc(u) = "cli" /\ mem[Proc(u)] # None
      BY <2>1, StoreAssumption DEF Fails, TypeInv, TypeOK, MainFirst
    <3> QED
      BY <2>1, <3>1 DEF Fails, TypeInv, TypeOK
  <2>2. CASE t # Main
    BY <2>2 DEF Fails, TypeInv, TypeOK
  <2> QED
    BY <2>1, <2>2
<1>8. MainFirst'
  BY StoreAssumption DEF Fails, TypeInv, TypeOK, MainFirst
<1>9. UNCHANGED returned /\ failed' \in BOOLEAN
  BY DEF Fails
<1> QED
  BY <1>1, <1>2, <1>3, <1>4, <1>5, <1>6, <1>7, <1>8, <1>9 DEF TypeInv, TypeOK

LEMMA TypeDefaults ==
  ASSUME NEW t \in Threads, TypeInv, pc[t] # "idle", SavesDefaults(t), UNCHANGED files
  PROVE  TypeInv'
<1>1. Tail(todo[t]) \in Seq(Calls)
  BY CallIsCall
<1>2. <<Save>> \o Tail(todo[t]) \in Seq(Calls) /\ <<Save>> \o Tail(todo[t]) # <<>>
  BY <1>1 DEF Save, Calls, Config
<1>3. {} \in Config /\ {} # None
  BY StoreAssumption DEF Config
<1>4. mutex' \in [Procs -> Threads \cup {None}]
  BY TypeRelease DEF SavesDefaults
<1>5. todo' \in [Threads -> Seq(Calls)] /\ copy' \in [Threads -> Config]
  BY <1>2, <1>3 DEF SavesDefaults, TypeInv, TypeOK
<1>6. pc' \in [Threads -> {"idle", "ready", "open", "write", "rename"}]
  BY DEF SavesDefaults, TypeInv, TypeOK
<1>7. \A u \in Threads : (pc'[u] = "idle") = (todo'[u] = <<>>)
  BY <1>2 DEF SavesDefaults, TypeInv, TypeOK
<1>8. mem' \in [Procs -> Config \cup {None}] /\ \A p \in Procs : mem[p] # None => mem'[p] # None
  BY <1>3 DEF SavesDefaults, TypeInv, TypeOK
<1>9. MainFirst'
  BY StoreAssumption DEF SavesDefaults, TypeInv, TypeOK, MainFirst
<1>10. \A u \in Threads : pc'[u] # "idle" => mem'[Proc(u)] # None
  BY <1>8 DEF SavesDefaults, TypeInv, TypeOK
<1> QED
  BY <1>3, <1>4, <1>5, <1>6, <1>7, <1>8, <1>9, <1>10 DEF SavesDefaults, files, TypeInv, TypeOK

LEMMA TypeError ==
  ASSUME NEW t \in Threads, TypeInv, RenameFails(t) \/ OpenFails(t) \/ WriteFails(t)
  PROVE  TypeInv'
<1>1. pc[t] # "idle"
  BY DEF RenameFails, OpenFails, WriteFails
<1>2. disk' \in Files /\ tmp' \in Files
  BY DEF RenameFails, OpenFails, WriteFails, Writes, files, TypeInv, TypeOK
<1> QED
  BY <1>1, <1>2, TypeFails, TypeDefaults DEF RenameFails, OpenFails, WriteFails

LEMMA TypeNext == TypeInv /\ [Next]_vars => TypeInv'
<1> SUFFICES ASSUME TypeInv, [Next]_vars PROVE TypeInv'
  OBVIOUS
<1>1. CASE StartPanel
  BY <1>1, TypeStartPanel
<1>2. CASE StartCli
  BY <1>2, TypeStartCli
<1>3. CASE CliExits \/ \E p \in Procs : Crash(p)
  BY <1>3, TypeEnds DEF CliExits, Crash
<1>4. CASE \E t \in Handlers, plan \in Plans : BeginRequest(t, plan)
  BY <1>4, TypeBegin
<1>5. CASE \E t \in Threads : Step(t)
  BY <1>5, TypeMemory, TypeWrite, TypeRename, TypeError DEF Step
<1>6. CASE UNCHANGED vars
  BY <1>6 DEF vars, TypeInv, TypeOK, MainFirst
<1> QED
  BY <1>1, <1>2, <1>3, <1>4, <1>5, <1>6 DEF Next

\* Whatever overlaps and fails, a goroutine is busy exactly as long as its request has calls
\* left, and only in a process that has loaded its configuration.
THEOREM TypeCorrect == Spec => []TypeOK
<1>1. Spec => []TypeInv
  BY TypeInit, TypeNext, PTL DEF Spec
<1>2. TypeInv => TypeOK
  BY DEF TypeInv
<1> QED
  BY <1>1, <1>2, PTL

-----------------------------------------------------------------------------
(* Writers that share the temporary file: whatever overlaps, who renames     *)
(* second fails.                                                             *)

Writers == {t \in Threads : pc[t] \in {"write", "rename"}}

\* The last writer will put a whole file into place.
GoodTmp(t) ==
  \/ pc[t] = "write" /\ at[t] = "tmp" /\ tmp = Empty
  \/ pc[t] = "rename" /\ tmp \in Config

\* Until somebody fails, a torn file has a writer yet to come, and the last one either finds
\* a good temporary file or none, which is an error.
TornInv ==
  /\ \A t \in Threads : at[t] = "tmp" => tmp # Missing
  /\ ~failed =>
       /\ Writers = {} => DiskIsWhole \/ \E t \in Threads : pc[t] = "open"
       /\ \A t \in Threads : Writers = {t} /\ tmp # Missing => GoodTmp(t)

LEMMA TornInit == Init => TornInv
<1> SUFFICES ASSUME Init PROVE TornInv
  OBVIOUS
<1>1. disk \in Config \cup {Missing} /\ Writers = {}
  BY StoreAssumption DEF Init, Config, Writers
<1>2. \A t \in Threads : at[t] # "tmp"
  BY DEF Init
<1> QED
  BY <1>1, <1>2 DEF TornInv, DiskIsWhole

\* A step of no writer that touches neither file, nor takes a thread from its opening.
LEMMA TornStays ==
  ASSUME TypeInv, TornInv, UNCHANGED files, UNCHANGED at, failed' = failed,
         \A t \in Threads : pc'[t] # pc[t] => /\ pc[t] \in {"idle", "ready"}
                                             /\ pc'[t] \notin {"write", "rename"}
  PROVE  TornInv'
<1>1. Writers' = Writers
  BY DEF Writers
<1>2. \A t \in Threads : pc[t] \in {"open", "write", "rename"} => pc'[t] = pc[t]
  OBVIOUS
<1>3. DiskIsWhole' = DiskIsWhole
  BY DEF files, DiskIsWhole
<1>4. \A t \in Threads : t \in Writers /\ GoodTmp(t) => GoodTmp(t)'
  BY <1>2 DEF files, GoodTmp, Writers
<1> QED
  BY <1>1, <1>2, <1>3, <1>4 DEF TornInv, files

LEMMA TornStart ==
  ASSUME TypeInv, TornInv, NEW t \in Threads, NEW calls, NEW step \in {"idle", "ready", "open"},
         Start(t, calls, step)
  PROVE  TornInv'
<1>1. UNCHANGED files /\ UNCHANGED at /\ failed' = failed
  BY DEF Start
<1>2. \A u \in Threads : pc'[u] # pc[u] => /\ pc[u] \in {"idle", "ready"}
                                          /\ pc'[u] \notin {"write", "rename"}
  BY DEF Start, TypeInv, TypeOK
<1> QED
  BY <1>1, <1>2, TornStays

LEMMA TornEnds ==
  ASSUME TypeInv, TornInv, NEW p \in Procs, Ends(p)
  PROVE  TornInv'
<1>1. CASE \E t \in OfProc(p) : pc[t] # "idle"
  <2>1. failed' = TRUE /\ UNCHANGED files /\ \A t \in Threads : at'[t] \in {"none", at[t]}
    BY <1>1 DEF Ends
  <2> QED
    BY <2>1 DEF TornInv, files
<1>2. CASE ~ \E t \in OfProc(p) : pc[t] # "idle"
  <2>1. \A t \in Threads : Proc(t) = p => pc[t] = "idle"
    BY <1>2 DEF OfProc
  <2>2. pc' = pc
    BY <2>1 DEF Ends, TypeInv, TypeOK
  <2>3. /\ UNCHANGED files /\ failed' = failed
        /\ \A t \in Threads : at'[t] \in {"none", at[t]} /\ (pc[t] # "idle" => at'[t] = at[t])
    BY <1>2, <2>1 DEF Ends, TypeInv, TypeOK
  <2>4. \A t \in Threads : t \in Writers /\ GoodTmp(t) => GoodTmp(t)'
    BY <2>2, <2>3 DEF files, GoodTmp, Writers
  <2>5. Writers' = Writers /\ DiskIsWhole' = DiskIsWhole
    BY <2>2, <2>3 DEF Writers, DiskIsWhole, files
  <2> QED
    BY <2>2, <2>3, <2>4, <2>5 DEF TornInv, files
<1> QED
  BY <1>1, <1>2

LEMMA TornBegin ==
  ASSUME TypeInv, TornInv, NEW t \in Handlers, NEW plan \in Plans, BeginRequest(t, plan)
  PROVE  TornInv'
<1>1. UNCHANGED files /\ UNCHANGED at
  BY DEF BeginRequest
<1>2. pc[t] = "idle" /\ pc' = [pc EXCEPT ![t] = "ready"]
  BY DEF BeginRequest
<1>3. CASE failed' = failed
  BY <1>1, <1>2, <1>3, TornStays DEF TypeInv, TypeOK
<1>4. CASE DiskIsWhole /\ AtRest
  <2>1. Writers' = {} /\ DiskIsWhole'
    BY <1>1, <1>2, <1>4 DEF Writers, DiskIsWhole, AtRest, files, TypeInv, TypeOK
  <2> QED
    BY <1>1, <2>1 DEF TornInv, files
<1> QED
  BY <1>3, <1>4 DEF BeginRequest, TypeInv, TypeOK

LEMMA TornMemory ==
  ASSUME TypeInv, TornInv, NEW t \in Threads, ChangeMemory(t) \/ ReplaceMemory(t) \/ CopyMemory(t)
  PROVE  TornInv'
<1>1. UNCHANGED files /\ UNCHANGED at /\ failed' = failed /\ pc[t] = "ready"
  BY DEF ChangeMemory, ReplaceMemory, CopyMemory
<1>2. \E step \in {"open", "idle", "ready"} : pc' = [pc EXCEPT ![t] = step]
  BY DEF ChangeMemory, ReplaceMemory, CopyMemory, Proceed
<1>3. \A u \in Threads : pc'[u] # pc[u] => /\ pc[u] \in {"idle", "ready"}
                                          /\ pc'[u] \notin {"write", "rename"}
  BY <1>1, <1>2 DEF TypeInv, TypeOK
<1> QED
  BY <1>1, <1>3, TornStays

\* Who opens the temporary file truncates it.
LEMMA TornOpen ==
  ASSUME TypeInv, TornInv, NEW t \in Threads, OpenTmp(t)
  PROVE  TornInv'
<1>1. /\ pc[t] = "open" /\ pc' = [pc EXCEPT ![t] = "write"] /\ at' = [at EXCEPT ![t] = "tmp"]
      /\ tmp' = Empty
  BY DEF OpenTmp
<1>2. t \in Writers'
  BY <1>1 DEF Writers, TypeInv, TypeOK
<1>3. GoodTmp(t)'
  BY <1>1 DEF GoodTmp, TypeInv, TypeOK
<1>4. tmp' # Missing
  BY <1>1, StoreAssumption
<1> QED
  BY <1>2, <1>3, <1>4 DEF TornInv

\* The last writer writes into an empty file, or into one that is not the temporary one.
LEMMA TornWrite ==
  ASSUME TypeInv, TornInv, NEW t \in Threads, WriteFile(t)
  PROVE  TornInv'
<1>1. pc[t] = "write" /\ pc' = [pc EXCEPT ![t] = "rename"] /\ failed' = failed
  BY DEF WriteFile
<1>2. Writers' = Writers /\ t \in Writers
  BY <1>1 DEF Writers, TypeInv, TypeOK
<1>3. ASSUME ~failed, NEW u \in Threads, Writers = {u}, tmp' # Missing PROVE GoodTmp(u)'
  <2>1. u = t
    BY <1>2, <1>3
  <2>2. copy[t] \in Config /\ tmp \in Files
    BY DEF TypeInv, TypeOK
  <2>3. CASE tmp # Missing
    <3>1. at[t] = "tmp" /\ tmp = Empty
      BY <1>1, <1>3, <2>1, <2>3 DEF TornInv, GoodTmp
    <3>2. tmp' = copy[t]
      BY <3>1 DEF WriteFile, Writes
    <3> QED
      BY <1>1, <2>1, <2>2, <3>2 DEF GoodTmp, TypeInv, TypeOK
  <2>4. CASE tmp = Missing
    BY <1>3, <2>4 DEF WriteFile, Writes, files, TornInv
  <2> QED
    BY <2>3, <2>4
<1>4. ASSUME NEW u \in Threads, at'[u] = "tmp" PROVE tmp' # Missing
  <2>1. at[u] = "tmp" /\ tmp # Missing
    BY <1>4 DEF WriteFile, TypeInv, TypeOK, TornInv
  <2>2. copy[t] \in Config
    BY DEF TypeInv, TypeOK
  <2>3. tmp' = tmp \/ tmp' = copy[t] \/ tmp' = Torn
    BY DEF WriteFile, Writes, files
  <2> QED
    BY <2>1, <2>2, <2>3, StoreAssumption
<1> QED
  BY <1>1, <1>2, <1>3, <1>4 DEF TornInv

LEMMA TornRename ==
  ASSUME TypeInv, TornInv, NEW t \in Threads, RenameTmp(t)
  PROVE  TornInv'
<1>1. /\ pc[t] = "rename" /\ tmp # Missing /\ disk' = tmp /\ tmp' = Missing /\ failed' = failed
      /\ \E step \in {"idle", "ready"} : pc' = [pc EXCEPT ![t] = step]
  BY DEF RenameTmp, Proceed
<1>2. \A u \in Threads : at'[u] # "tmp"
  BY DEF RenameTmp, AfterRename, TypeInv, TypeOK
<1>3. Writers' = Writers \ {t} /\ t \in Writers
  BY <1>1 DEF Writers, TypeInv, TypeOK
<1>4. ASSUME ~failed, Writers' = {} PROVE DiskIsWhole'
  <2>1. Writers = {t}
    BY <1>3, <1>4
  <2>2. tmp \in Config
    BY <1>1, <1>4, <2>1 DEF TornInv, GoodTmp
  <2> QED
    BY <1>1, <2>2 DEF DiskIsWhole
<1> QED
  BY <1>1, <1>2, <1>4 DEF TornInv

LEMMA TornError ==
  ASSUME TypeInv, TornInv, NEW t \in Threads, RenameFails(t) \/ OpenFails(t) \/ WriteFails(t)
  PROVE  TornInv'
<1>1. ASSUME Fails(t), UNCHANGED files \/ Writes(t, {Torn}) PROVE TornInv'
  <2>1. failed' = TRUE /\ \A u \in Threads : at'[u] \in {"none", at[u]}
    BY <1>1 DEF Fails, TypeInv, TypeOK
  <2>2. tmp' = tmp \/ tmp' = Torn
    BY <1>1 DEF Writes, files
  <2> QED
    BY <2>1, <2>2, StoreAssumption DEF TornInv
<1>2. ASSUME SavesDefaults(t), UNCHANGED files, tmp = Missing, pc[t] = "rename" PROVE TornInv'
  <2>1. pc'[t] = "open" /\ tmp' = Missing /\ at' = at
    BY <1>2 DEF SavesDefaults, files, TypeInv, TypeOK
  <2> QED
    BY <1>2, <2>1 DEF TornInv
<1> QED
  BY <1>1, <1>2 DEF RenameFails, OpenFails, WriteFails

LEMMA TornNext == TypeInv /\ TornInv /\ [Next]_vars => TornInv'
<1> SUFFICES ASSUME TypeInv, TornInv, [Next]_vars PROVE TornInv'
  OBVIOUS
<1>1. CASE StartPanel \/ StartCli
  <2>1. Main \in Threads /\ Cli \in Threads
    OBVIOUS
  <2>2. CASE StartPanel
    BY <2>1, <2>2, TornStart DEF StartPanel
  <2>3. CASE StartCli
    BY <2>1, <2>3, TornStart DEF StartCli
  <2> QED
    BY <1>1, <2>2, <2>3
<1>2. CASE CliExits \/ \E p \in Procs : Crash(p)
  BY <1>2, TornEnds DEF CliExits, Crash
<1>3. CASE \E t \in Handlers, plan \in Plans : BeginRequest(t, plan)
  BY <1>3, TornBegin
<1>4. CASE \E t \in Threads : Step(t)
  BY <1>4, TornMemory, TornOpen, TornWrite, TornRename, TornError DEF Step
<1>5. CASE UNCHANGED vars
  BY <1>5 DEF vars, files, TornInv, Writers, GoodTmp, DiskIsWhole
<1> QED
  BY <1>1, <1>2, <1>3, <1>4, <1>5 DEF Next

\* Two writers may share the temporary file, in one process or in two, and leave a torn
\* panel.json: then somebody got an error, or no answer, whatever overlaps and fails.
THEOREM TornAlwaysReported == Spec => []TornIsReported
<1>1. TypeInv /\ TornInv => TornIsReported
  <2>1. AtRest => Writers = {} /\ \A t \in Threads : pc[t] # "open"
    BY DEF AtRest, Writers
  <2> QED
    BY <2>1 DEF TornInv, TornIsReported
<1> QED
  BY <1>1, TypeInit, TypeNext, TornInit, TornNext, PTL DEF Spec

-----------------------------------------------------------------------------
(* Without overlaps (Overlap = {}) there is one writer at a time, although   *)
(* Save writes outside of the mutex.                                         *)

Writing(t) == pc[t] \in {"open", "write", "rename"}

OneProcess == mem["panel"] = None \/ mem["cli"] = None

\* What is left of a handler's request.
Shape(todos) ==
  \/ \A i \in 1..Len(todos) : todos[i].kind = "update"
  \/ Len(todos) = 2 /\ todos[1].kind = "replace" /\ todos[2].kind = "save"
  \/ Len(todos) = 1 /\ todos[1].kind = "save"

RestoreAlone ==
  \A t, u \in Handlers : Restoring(t) /\ t # u => pc[u] = "idle"

OneWriter == \A t, u \in Threads : Writing(t) /\ Writing(u) => t = u

\* A writer has the mutex or makes a Save, and nobody changes what it writes.
WriterOwns ==
  \A t \in Threads : Writing(t) =>
    /\ Call(t).kind = "save" \/ mutex[Proc(t)] = t
    /\ copy[t] = mem[Proc(t)]

TmpIsWhole ==
  \A t \in Threads :
    /\ pc[t] = "write" => at[t] = "tmp" /\ tmp = Empty
    /\ pc[t] = "rename" => tmp = copy[t]
    /\ pc[t] # "write" => at[t] = "none"

IInv ==
  /\ TypeInv /\ OneProcess
  /\ \A h \in Handlers : Shape(todo[h])
  /\ RestoreAlone /\ OneWriter /\ WriterOwns /\ TmpIsWhole /\ DiskIsWhole

LEMMA PlanShape ==
  ASSUME NEW p \in Plans
  PROVE  Shape(p) /\ Head(p).kind \in {"update", "replace"} /\ p[1] = Head(p)
<1>1. p \in Seq(Calls) /\ p # <<>>
  BY PlansAreCalls
<1>2. p[1] = Head(p)
  BY <1>1
<1>3. CASE p \in Seq(Updates)
  <2>1. \A i \in 1..Len(p) : p[i] \in Updates
    BY <1>3, ElementOfSeq
  <2>2. 1 \in 1..Len(p)
    BY <1>1, EmptySeq
  <2> QED
    BY <1>2, <2>1, <2>2 DEF Shape, Updates
<1>4. CASE \E k \in Calls : k.kind = "replace" /\ p = <<k, Save>>
  BY <1>2, <1>4 DEF Shape, Save
<1> QED
  BY <1>2, <1>3, <1>4, StoreAssumption DEF IsPlan

LEMMA FirstOfSeq ==
  ASSUME NEW s \in Seq(Calls), s # <<>>
  PROVE  Head(s) = s[1] /\ Len(s) \in Nat \ {0}
BY EmptySeq

LEMMA TailShape ==
  ASSUME NEW s \in Seq(Calls), s # <<>>, Shape(s)
  PROVE  /\ Shape(Tail(s))
         /\ Head(s).kind \in {"update", "save"} => Tail(s) = <<>> \/ Head(Tail(s)).kind = "update"
<1> DEFINE tl == Tail(s)
<1>1. Len(s) \in Nat \ {0} /\ Len(tl) = Len(s) - 1 /\ Head(s) = s[1]
  BY EmptySeq
<1>2. \A i \in 1..Len(tl) : tl[i] = s[i + 1]
  OBVIOUS
<1>3. tl \in Seq(Calls)
  BY <1>1
<1>4. tl # <<>> => Head(tl) = tl[1] /\ Len(tl) \in Nat \ {0}
  BY <1>3, FirstOfSeq
<1>5. tl = <<>> <=> Len(tl) = 0
  BY <1>3, EmptySeq
<1> HIDE DEF tl
<1>6. CASE \A i \in 1..Len(s) : s[i].kind = "update"
  <2>1. \A i \in 1..Len(tl) : tl[i].kind = "update"
    BY <1>1, <1>2, <1>6
  <2>2. tl # <<>> => 1 \in 1..Len(tl)
    BY <1>4
  <2> QED
    BY <1>4, <2>1, <2>2 DEF Shape, tl
<1>7. CASE Len(s) = 2 /\ s[1].kind = "replace" /\ s[2].kind = "save"
  <2>1. Len(tl) = 1 /\ 1 \in 1..Len(tl)
    BY <1>1, <1>7
  <2>2. tl[1] = s[2]
    BY <1>2, <2>1
  <2> QED
    BY <1>1, <1>7, <2>1, <2>2 DEF Shape, tl
<1>8. CASE Len(s) = 1 /\ s[1].kind = "save"
  <2>1. Len(tl) = 0
    BY <1>1, <1>8
  <2>2. Shape(tl)
    BY <2>1 DEF Shape
  <2> QED
    BY <1>5, <2>1, <2>2 DEF tl
<1> QED
  BY <1>6, <1>7, <1>8 DEF Shape

LEMMA ConfigIsNoMarker ==
  ASSUME NEW c \in Config
  PROVE  c # None /\ c # Missing /\ c # Empty /\ c # Torn
BY StoreAssumption

LEMMA SafeInit == Init => IInv
<1> SUFFICES ASSUME Init PROVE IInv
  OBVIOUS
<1>1. TypeInv
  BY TypeInit
<1>2. \A h \in Handlers : Shape(todo[h])
  BY DEF Init, Shape
<1>3. DiskIsWhole
  BY StoreAssumption DEF Init, DiskIsWhole, Config
<1> QED
  BY <1>1, <1>2, <1>3
  DEF Init, IInv, OneProcess, RestoreAlone, Restoring, OneWriter, Writing, WriterOwns, TmpIsWhole

LEMMA SafeStart ==
  ASSUME NEW t \in {Main, Cli}, NEW calls \in Seq(Calls), NEW step \in {"idle", "ready", "open"},
         step = "open" => Head(calls).kind = "save" \/ disk # Missing,
         disk \in Config \cup {Missing},
         Overlap = {}, IInv, Start(t, calls, step), TypeInv'
  PROVE  IInv'
<1>1. \A p \in Procs : mem[p] = None
  BY DEF Start
<1>2. \A u \in Threads : pc[u] = "idle" /\ todo[u] = <<>> /\ at[u] = "none"
  BY <1>1 DEF IInv, TypeInv, TypeOK, TmpIsWhole
<1>3. t \in Threads /\ t \notin Handlers
  BY StoreAssumption
<1>4. \A u \in Threads : u # t => pc'[u] = "idle" /\ todo'[u] = <<>>
  BY <1>2, <1>3 DEF Start, IInv, TypeInv, TypeOK
<1>5. pc'[t] = step /\ todo'[t] = calls /\ UNCHANGED <<at, disk, tmp>>
  BY <1>3 DEF Start, files, IInv, TypeInv, TypeOK
<1>6. OneProcess'
  BY <1>1 DEF Start, OneProcess, IInv, TypeInv, TypeOK
<1>7. \A h \in Handlers : Shape(todo'[h])
  BY <1>3, <1>4 DEF Shape
<1>8. RestoreAlone' /\ OneWriter'
  BY <1>3, <1>4 DEF RestoreAlone, OneWriter, Writing
<1>9. WriterOwns'
  <2>1. SUFFICES ASSUME step = "open"
        PROVE  /\ Call(t)'.kind = "save" \/ mutex'[Proc(t)] = t
               /\ copy'[t] = mem'[Proc(t)]
    BY <1>4, <1>5 DEF WriterOwns, Writing
  <2>2. Call(t)' = Head(calls)
    BY <1>5 DEF Call
  <2>3. copy'[t] = Loaded(disk) /\ mem'[Proc(t)] = Loaded(disk)
    BY <1>3, <2>1 DEF Start, IInv, TypeInv, TypeOK
  <2>4. disk # Missing => mutex'[Proc(t)] = t
    BY <1>3, <2>1 DEF Start, IInv, TypeInv, TypeOK
  <2> QED
    BY <2>1, <2>2, <2>3, <2>4
<1>10. TmpIsWhole' /\ DiskIsWhole'
  BY <1>2, <1>4, <1>5 DEF TmpIsWhole, DiskIsWhole
<1> QED
  BY <1>6, <1>7, <1>8, <1>9, <1>10 DEF IInv

LEMMA SafeStarts ==
  ASSUME Overlap = {}, IInv, StartPanel \/ StartCli, TypeInv'
  PROVE  IInv'
<1>1. <<Save>> \in Seq(Calls) /\ <<Load>> \in Seq(Calls) /\ <<>> \in Seq(Calls)
  BY DEF Save, Load, Calls, Config
<1>2. Head(<<Save>>).kind = "save"
  BY DEF Save
<1>3. CASE StartPanel
  BY <1>1, <1>2, <1>3, SafeStart, ConfigIsNoMarker DEF StartPanel
<1>4. CASE StartCli
  <2> PICK plan \in CliPlans :
        \/ disk \in Config /\ Start(Cli, <<Load>> \o plan, "open")
        \/ disk \in Config /\ Start(Cli, plan, "ready")
    BY <1>4 DEF StartCli
  <2>1. plan \in Seq(Calls) /\ <<Load>> \o plan \in Seq(Calls)
    BY <1>1, PlansAreCalls
  <2> QED
    BY <2>1, SafeStart, ConfigIsNoMarker
<1> QED
  BY <1>3, <1>4

LEMMA SafeEnds ==
  ASSUME NEW p \in Procs, IInv, Ends(p), TypeInv'
  PROVE  IInv'
<1>1. \A u \in Threads : Proc(u) = p => pc'[u] = "idle" /\ todo'[u] = <<>> /\ at'[u] = "none"
  BY DEF Ends
<1>2. \A u \in Threads : Proc(u) # p =>
        /\ pc'[u] = pc[u] /\ todo'[u] = todo[u] /\ at'[u] = at[u] /\ copy'[u] = copy[u]
        /\ mem'[Proc(u)] = mem[Proc(u)] /\ mutex'[Proc(u)] = mutex[Proc(u)]
  BY DEF Ends, IInv, TypeInv, TypeOK
<1>3. OneProcess'
  BY DEF Ends, OneProcess, IInv, TypeInv, TypeOK
<1>4. \A h \in Handlers : Shape(todo'[h])
  <2>1. Shape(<<>>)
    BY DEF Shape
  <2> QED
    BY <1>1, <1>2, <2>1 DEF IInv
<1>5. RestoreAlone' /\ OneWriter'
  BY <1>1, <1>2 DEF IInv, RestoreAlone, Restoring, OneWriter, Writing
<1>6. WriterOwns'
  BY <1>1, <1>2 DEF IInv, WriterOwns, Writing, Call
<1>7. TmpIsWhole' /\ DiskIsWhole'
  BY <1>1, <1>2 DEF Ends, files, IInv, TmpIsWhole, DiskIsWhole
<1> QED
  BY <1>3, <1>4, <1>5, <1>6, <1>7 DEF IInv

LEMMA SafeBegin ==
  ASSUME NEW t \in Handlers, NEW plan \in Plans, Overlap = {},
         IInv, BeginRequest(t, plan), TypeInv'
  PROVE  IInv'
<1>1. Shape(plan) /\ Head(plan).kind \in {"update", "replace"} /\ plan[1] = Head(plan)
  BY PlanShape
<1>2. pc'[t] = "ready" /\ todo'[t] = plan /\ pc[t] = "idle"
  BY DEF BeginRequest, IInv, TypeInv, TypeOK
<1>3. \A u \in Threads : u # t => pc'[u] = pc[u] /\ todo'[u] = todo[u]
  BY DEF BeginRequest, IInv, TypeInv, TypeOK
<1>4. UNCHANGED <<mem, mutex, disk, tmp, copy, at>>
  BY DEF BeginRequest, files
<1>5. RestoreAlone'
  <2> SUFFICES ASSUME NEW a \in Handlers, NEW b \in Handlers, Restoring(a)', a # b
      PROVE pc'[b] = "idle"
    BY DEF RestoreAlone
  <2>1. \A u \in Handlers : pc[u] = "idle" \/ (Head(plan).kind = "update" /\ ~Restoring(u))
    BY <1>1 DEF BeginRequest, MayBegin
  <2>2. CASE a = t
    <3>1. Head(plan).kind # "update"
      BY <1>2, <2>2 DEF Restoring
    <3> QED
      BY <1>3, <2>1, <2>2, <3>1
  <2>3. CASE a # t
    <3>1. Restoring(a) /\ pc[a] # "idle"
      BY <1>3, <2>3 DEF Restoring, IInv, TypeInv, TypeOK
    <3>2. FALSE
      BY <2>1, <2>3, <3>1
    <3> QED
      BY <3>2
  <2> QED
    BY <2>2, <2>3
<1>6. OneWriter' /\ OneProcess'
  BY <1>2, <1>3, <1>4 DEF IInv, OneWriter, Writing, OneProcess
<1>7. WriterOwns'
  BY <1>2, <1>3, <1>4 DEF IInv, WriterOwns, Writing, Call
<1>8. TmpIsWhole' /\ DiskIsWhole'
  BY <1>2, <1>3, <1>4 DEF IInv, TmpIsWhole, DiskIsWhole
<1>9. \A h \in Handlers : Shape(todo'[h])
  BY <1>1, <1>2, <1>3 DEF IInv
<1> QED
  BY <1>5, <1>6, <1>7, <1>8, <1>9 DEF IInv

\* Who finds the mutex free, as Update, Replace and Save wait for it, finds no writer either.
LEMMA NoWriter ==
  ASSUME NEW t \in Threads, IInv, pc[t] = "ready", mutex[Proc(t)] = None
  PROVE  \A u \in Threads : ~Writing(u)
<1> SUFFICES ASSUME NEW u \in Threads, Writing(u) PROVE FALSE
  OBVIOUS
<1>1. pc[u] # "idle" /\ pc[u] # "ready" /\ u # t
  BY DEF Writing
<1>2. mem[Proc(t)] # None /\ mem[Proc(u)] # None
  BY <1>1 DEF IInv, TypeInv, TypeOK
<1>3. Proc(u) = Proc(t)
  BY <1>2 DEF IInv, OneProcess
<1>4. t # Cli /\ u # Cli
  BY <1>1, <1>3
<1>5. t \in Handlers /\ u \in Handlers
  BY <1>1, <1>4 DEF IInv, TypeInv, MainFirst
<1>6. Call(u).kind = "save"
  BY <1>3, StoreAssumption DEF IInv, WriterOwns
<1>7. Restoring(u)
  BY <1>1, <1>6 DEF Restoring, Call, IInv, TypeInv, TypeOK
<1> QED
  BY <1>1, <1>5, <1>7 DEF IInv, RestoreAlone

LEMMA SafeChange ==
  ASSUME NEW t \in Threads, IInv, ChangeMemory(t), TypeInv'
  PROVE  IInv'
<1>1. \A u \in Threads : ~Writing(u)
  BY NoWriter DEF ChangeMemory
<1>2. Changed(mem[Proc(t)], Call(t)) \in Config /\ mem[Proc(t)] # None
  BY ChangedIsConfig DEF ChangeMemory, IInv, TypeInv, TypeOK
<1>3. pc'[t] = "open" /\ \A u \in Threads : u # t => pc'[u] = pc[u] /\ ~Writing(u)'
  BY <1>1 DEF ChangeMemory, Writing, IInv, TypeInv, TypeOK
<1>4. UNCHANGED <<disk, tmp, todo, at>>
  BY DEF ChangeMemory, files
<1>5. OneProcess'
  BY <1>2 DEF ChangeMemory, IInv, TypeInv, TypeOK, OneProcess
<1>6. RestoreAlone' /\ \A h \in Handlers : Shape(todo'[h])
  <2>1. \A h \in Handlers : pc'[h] = "idle" <=> pc[h] = "idle"
    BY <1>3 DEF ChangeMemory
  <2> QED
    BY <1>4, <2>1 DEF IInv, RestoreAlone, Restoring
<1>7. OneWriter'
  BY <1>3 DEF OneWriter
<1>8. WriterOwns'
  BY <1>3 DEF ChangeMemory, WriterOwns, IInv, TypeInv, TypeOK
<1>9. TmpIsWhole' /\ DiskIsWhole'
  BY <1>3, <1>4 DEF ChangeMemory, TmpIsWhole, DiskIsWhole, IInv
<1> QED
  BY <1>5, <1>6, <1>7, <1>8, <1>9 DEF IInv

LEMMA SafeReplace ==
  ASSUME NEW t \in Threads, IInv, ReplaceMemory(t), TypeInv'
  PROVE  IInv'
<1>1. \A u \in Threads : ~Writing(u)
  BY NoWriter DEF ReplaceMemory
<1>2. Changed(mem[Proc(t)], Call(t)) \in Config /\ mem[Proc(t)] # None /\ todo[t] \in Seq(Calls) /\ todo[t] # <<>>
  BY ChangedIsConfig DEF ReplaceMemory, IInv, TypeInv, TypeOK
<1>3. /\ pc'[t] \in {"idle", "ready"} /\ pc[t] = "ready" /\ todo'[t] = Tail(todo[t])
      /\ \A u \in Threads : u # t => pc'[u] = pc[u] /\ todo'[u] = todo[u]
  BY DEF ReplaceMemory, Proceed, IInv, TypeInv, TypeOK
<1>4. UNCHANGED <<disk, tmp, copy, at>>
  BY DEF ReplaceMemory, files
<1>5. OneProcess'
  BY <1>2 DEF ReplaceMemory, IInv, TypeInv, TypeOK, OneProcess
<1>6. \A h \in Handlers : Shape(todo'[h])
  BY <1>2, <1>3, TailShape DEF IInv
<1>7. RestoreAlone'
  <2>1. t \in Handlers => Restoring(t)
    BY <1>2 DEF Restoring, ReplaceMemory, Call
  <2>2. \A a, b \in Handlers : a # b /\ Restoring(a)' => Restoring(a) /\ (pc[b] = "idle" => b # t /\ pc'[b] = "idle")
    BY <1>3, <2>1 DEF Restoring
  <2> QED
    BY <2>2 DEF RestoreAlone, IInv
<1>8. \A u \in Threads : ~Writing(u)'
  BY <1>1, <1>3 DEF Writing
<1>9. OneWriter' /\ WriterOwns'
  BY <1>8 DEF OneWriter, WriterOwns
<1>10. TmpIsWhole' /\ DiskIsWhole'
  BY <1>3, <1>4 DEF TmpIsWhole, DiskIsWhole, IInv
<1> QED
  BY <1>5, <1>6, <1>7, <1>9, <1>10 DEF IInv

LEMMA SafeCopy ==
  ASSUME NEW t \in Threads, IInv, CopyMemory(t), TypeInv'
  PROVE  IInv'
<1>1. \A u \in Threads : ~Writing(u)
  BY NoWriter DEF CopyMemory
<1>2. pc'[t] = "open" /\ pc[t] = "ready" /\ \A u \in Threads : u # t => pc'[u] = pc[u]
  BY DEF CopyMemory, IInv, TypeInv, TypeOK
<1>3. UNCHANGED <<mem, disk, tmp, todo, at>>
  BY DEF CopyMemory, files
<1>4. OneProcess' /\ RestoreAlone' /\ \A h \in Handlers : Shape(todo'[h])
  <2>1. \A h \in Handlers : pc'[h] = "idle" <=> pc[h] = "idle"
    BY <1>2
  <2> QED
    BY <1>3, <2>1 DEF IInv, OneProcess, RestoreAlone, Restoring
<1>5. OneWriter'
  BY <1>1, <1>2 DEF OneWriter, Writing
<1>6. WriterOwns'
  BY <1>1, <1>2 DEF CopyMemory, WriterOwns, Writing, Call, IInv, TypeInv, TypeOK
<1>7. TmpIsWhole' /\ DiskIsWhole'
  BY <1>1, <1>2, <1>3 DEF Writing, TmpIsWhole, DiskIsWhole, IInv
<1> QED
  BY <1>4, <1>5, <1>6, <1>7 DEF IInv

LEMMA SafeWrite ==
  ASSUME NEW t \in Threads, IInv, OpenTmp(t) \/ WriteFile(t), TypeInv'
  PROVE  IInv'
<1>1. /\ Writing(t) /\ Writing(t)'
      /\ \A u \in Threads : u # t => pc'[u] = pc[u] /\ at'[u] = at[u] /\ ~Writing(u)
  BY DEF OpenTmp, WriteFile, Writing, IInv, OneWriter, TypeInv, TypeOK
<1>2. UNCHANGED <<mem, mutex, todo, copy>>
  BY DEF OpenTmp, WriteFile
<1>3. \A u \in Threads : Writing(u)' <=> Writing(u)
  BY <1>1 DEF Writing
<1>4. OneProcess' /\ OneWriter' /\ WriterOwns'
  BY <1>2, <1>3 DEF IInv, OneProcess, OneWriter, WriterOwns, Call
<1>5. RestoreAlone' /\ \A h \in Handlers : Shape(todo'[h])
  <2>1. \A u \in Threads : pc'[u] = "idle" <=> pc[u] = "idle"
    BY <1>1 DEF Writing
  <2> QED
    BY <1>2, <2>1 DEF IInv, RestoreAlone, Restoring
<1>6. TmpIsWhole' /\ DiskIsWhole'
  <2>1. CASE OpenTmp(t)
    BY <1>1, <2>1 DEF OpenTmp, Writing, IInv, TypeInv, TypeOK, TmpIsWhole, DiskIsWhole
  <2>2. CASE WriteFile(t)
    <3>1. at[t] = "tmp" /\ tmp = Empty
      BY <2>2 DEF WriteFile, IInv, TmpIsWhole
    <3>2. tmp' = copy[t] /\ UNCHANGED disk /\ pc'[t] = "rename" /\ at'[t] = "none"
      BY <2>2, <3>1 DEF WriteFile, Writes, files, IInv, TypeInv, TypeOK
    <3> QED
      BY <1>1, <1>2, <3>2 DEF Writing, IInv, TmpIsWhole, DiskIsWhole
  <2> QED
    BY <2>1, <2>2
<1> QED
  BY <1>4, <1>5, <1>6 DEF IInv

\* A call ends, with or without an error.
LEMMA SafeDone ==
  ASSUME NEW t \in Threads, IInv, Writing(t), TypeInv',
         pc'[t] \in {"idle", "ready"}, todo'[t] \in {<<>>, Tail(todo[t])},
         \A u \in Threads : u # t =>
           pc'[u] = pc[u] /\ todo'[u] = todo[u] /\ at'[u] = "none",
         at'[t] = "none",
         \A p \in Procs : mem'[p] \in {mem[p], None},
         DiskIsWhole'
  PROVE  IInv'
<1>1. \A u \in Threads : ~Writing(u)'
  BY DEF IInv, OneWriter, Writing
<1>2. OneProcess' /\ OneWriter' /\ WriterOwns' /\ TmpIsWhole'
  BY <1>1 DEF IInv, OneProcess, OneWriter, WriterOwns, TmpIsWhole, Writing
<1>3. todo[t] \in Seq(Calls) /\ todo[t] # <<>> /\ pc[t] # "idle"
  BY DEF Writing, IInv, TypeInv, TypeOK
<1>4. Shape(<<>>)
  BY DEF Shape
<1>5. \A h \in Handlers : Shape(todo'[h])
  BY <1>3, <1>4, TailShape DEF IInv
<1>6. RestoreAlone'
  <2> SUFFICES ASSUME NEW a \in Handlers, NEW b \in Handlers, Restoring(a)', a # b
      PROVE pc'[b] = "idle"
    BY DEF RestoreAlone
  <2>1. CASE a # t
    <3>1. Restoring(a) /\ pc[b] = "idle"
      BY <2>1 DEF Restoring, IInv, RestoreAlone
    <3> QED
      BY <1>3, <3>1
  <2>2. CASE a = t
    <3>1. todo'[t] = Tail(todo[t]) /\ todo'[t] # <<>>
      BY <2>2 DEF Restoring
    <3>2. Head(Tail(todo[t])).kind \in {"replace", "save"}
      BY <2>2, <3>1 DEF Restoring
    <3>3. Head(todo[t]).kind \notin {"update", "save"}
      BY <1>3, <2>2, <3>1, <3>2, TailShape DEF IInv
    <3>4. Head(todo[t]).kind = "replace"
      BY <1>3, <2>2, <3>3, FirstOfSeq DEF IInv, Shape
    <3>5. Restoring(t)
      BY <1>3, <3>4 DEF Restoring
    <3> QED
      BY <2>2, <3>5 DEF IInv, RestoreAlone
  <2> QED
    BY <2>1, <2>2
<1> QED
  BY <1>2, <1>5, <1>6 DEF IInv

LEMMA SafeRename ==
  ASSUME NEW t \in Threads, IInv, RenameTmp(t), TypeInv'
  PROVE  IInv'
<1>1. Writing(t) /\ tmp = copy[t]
  BY DEF RenameTmp, Writing, IInv, TmpIsWhole
<1>2. pc'[t] \in {"idle", "ready"} /\ todo'[t] = Tail(todo[t])
  BY DEF RenameTmp, Proceed, IInv, TypeInv, TypeOK
<1>3. \A u \in Threads : u # t => pc'[u] = pc[u] /\ todo'[u] = todo[u] /\ ~Writing(u)
  BY <1>1 DEF RenameTmp, Proceed, IInv, TypeInv, TypeOK, OneWriter
<1>4. \A u \in Threads : at'[u] = "none"
  <2>1. \A u \in Threads : at[u] = "none"
    BY <1>3 DEF RenameTmp, Writing, IInv, TmpIsWhole
  <2> QED
    BY <2>1 DEF RenameTmp, AfterRename
<1>5. DiskIsWhole'
  BY <1>1 DEF RenameTmp, DiskIsWhole, IInv, TypeInv, TypeOK
<1>6. UNCHANGED mem
  BY DEF RenameTmp
<1> QED
  BY <1>1, <1>2, <1>3, <1>4, <1>5, <1>6, SafeDone

\* The temporary file of the only writer is never gone.
LEMMA RenameWorks ==
  ASSUME NEW t \in Threads, IInv
  PROVE  ~RenameFails(t)
BY ConfigIsNoMarker DEF RenameFails, IInv, TypeInv, TypeOK, TmpIsWhole

LEMMA SafeError ==
  ASSUME NEW t \in Threads, IInv, RenameFails(t) \/ OpenFails(t) \/ WriteFails(t), TypeInv'
  PROVE  IInv' /\ Fails(t) /\ UNCHANGED disk
<1>1. Writing(t) /\ Fails(t)
  BY RenameWorks DEF OpenFails, WriteFails, Writing
<1>2. UNCHANGED disk
  BY RenameWorks DEF OpenFails, WriteFails, Writes, files, IInv, TmpIsWhole
<1>3. /\ pc'[t] = "idle" /\ todo'[t] = <<>> /\ at'[t] = "none"
      /\ \A u \in Threads : u # t => pc'[u] = pc[u] /\ todo'[u] = todo[u] /\ at'[u] = at[u]
  BY <1>1 DEF Fails, IInv, TypeInv, TypeOK
<1>4. \A u \in Threads : u # t => at'[u] = "none"
  BY <1>1, <1>3 DEF IInv, OneWriter, Writing, TmpIsWhole
<1>5. \A p \in Procs : mem'[p] \in {mem[p], None}
  BY <1>1 DEF Fails, IInv, TypeInv, TypeOK
<1>6. DiskIsWhole'
  BY <1>2 DEF DiskIsWhole, IInv
<1> QED
  BY <1>1, <1>2, <1>3, <1>4, <1>5, <1>6, SafeDone

LEMMA SafeNext == Overlap = {} /\ IInv /\ [Next]_vars => IInv'
<1> SUFFICES ASSUME Overlap = {}, IInv, [Next]_vars PROVE IInv'
  OBVIOUS
<1>1. TypeInv'
  BY TypeNext DEF IInv
<1>2. CASE StartPanel \/ StartCli
  BY <1>1, <1>2, SafeStarts
<1>3. CASE CliExits \/ \E p \in Procs : Crash(p)
  BY <1>1, <1>3, SafeEnds DEF CliExits, Crash
<1>4. CASE \E t \in Handlers, plan \in Plans : BeginRequest(t, plan)
  BY <1>1, <1>4, SafeBegin
<1>5. CASE \E t \in Threads : Step(t)
  BY <1>1, <1>5, SafeChange, SafeReplace, SafeCopy, SafeWrite, SafeRename, SafeError DEF Step
<1>6. CASE UNCHANGED vars
  BY <1>1, <1>6 DEF vars, IInv, OneProcess, RestoreAlone, Restoring, OneWriter, Writing,
                    WriterOwns, TmpIsWhole, DiskIsWhole, Call
<1> QED
  BY <1>2, <1>3, <1>4, <1>5, <1>6 DEF Next

LEMMA SafeAlways ==
  ASSUME Overlap = {}
  PROVE  Spec => []IInv
<1>1. IInv /\ [Next]_vars => IInv'
  BY SafeNext
<1> QED
  BY <1>1, SafeInit, PTL DEF Spec

\* As long as nothing overlaps a restore or another process, panel.json can always be read,
\* at whatever step a process dies or a write fails (StoreAssumption aside, for any requests).
THEOREM DiskAlwaysWhole ==
  ASSUME Overlap = {}
  PROVE  Spec => []DiskIsWhole
<1>1. IInv => DiskIsWhole
  BY DEF IInv
<1> QED
  BY <1>1, SafeAlways, PTL

-----------------------------------------------------------------------------
(* What returned requests have set survives.                               *)

\* The update that is being written is in what is written.
UpdateIsCopied ==
  \A t \in Threads : Writing(t) /\ Call(t).kind = "update" =>
    Call(t).add \subseteq copy[t] /\ (Call(t).drop \ Call(t).add) \cap copy[t] = {}

\* No call that is left writes what only older versions wrote.
NoLegacy ==
  \A t \in Threads : \A i \in 1..Len(todo[t]) :
    todo[t][i].kind = "update" => "legacy" \notin todo[t][i].add

ReturnedInv ==
  /\ ReturnedSurvives /\ UpdateIsCopied /\ NoLegacy
  /\ disk = Missing => returned = {}
  /\ <<"legacy", "on">> \notin returned

LEMMA PlanNoLegacy ==
  ASSUME NEW p \in Plans \cup CliPlans
  PROVE  \A i \in 1..Len(p) : p[i].kind = "update" => "legacy" \notin p[i].add
<1>1. CASE p \in Seq(Updates)
  BY <1>1, ElementOfSeq DEF Updates
<1>2. CASE \E k \in Calls : k.kind = "replace" /\ p = <<k, Save>>
  BY <1>2 DEF Save
<1> QED
  BY <1>1, <1>2, StoreAssumption DEF IsPlan

LEMMA TailNoLegacy ==
  ASSUME NEW s \in Seq(Calls), s # <<>>,
         \A i \in 1..Len(s) : s[i].kind = "update" => "legacy" \notin s[i].add
  PROVE  /\ \A i \in 1..Len(Tail(s)) : Tail(s)[i].kind = "update" => "legacy" \notin Tail(s)[i].add
         /\ Head(s).kind = "update" => "legacy" \notin Head(s).add
<1> DEFINE tl == Tail(s)
<1>1. Len(s) \in Nat \ {0} /\ Len(tl) = Len(s) - 1 /\ Head(s) = s[1]
  BY FirstOfSeq
<1>2. \A i \in 1..Len(tl) : tl[i] = s[i + 1]
  OBVIOUS
<1> HIDE DEF tl
<1>3. \A i \in 1..Len(tl) : tl[i].kind = "update" => "legacy" \notin tl[i].add
  BY <1>1, <1>2
<1>4. Head(s).kind = "update" => "legacy" \notin Head(s).add
  BY <1>1
<1> QED
  BY <1>3, <1>4 DEF tl

LEMMA ReturnedInit == Init => ReturnedInv
BY DEF Init, ReturnedInv, ReturnedSurvives, UpdateIsCopied, Writing, NoLegacy

LEMMA ReturnedStart ==
  ASSUME NEW t \in {Main, Cli}, NEW calls \in Seq(Calls), NEW step \in {"idle", "ready", "open"},
         step = "open" => Head(calls).kind # "update",
         \A i \in 1..Len(calls) : calls[i].kind = "update" => "legacy" \notin calls[i].add,
         disk \in Config \cup {Missing},
         Overlap = {}, IInv, ReturnedInv, Start(t, calls, step)
  PROVE  ReturnedInv'
<1>1. t \in Threads /\ UNCHANGED disk /\ returned' \subseteq returned
  BY DEF Start, files
<1>2. \A u \in Threads : pc[u] = "idle"
  BY DEF Start, IInv, TypeInv, TypeOK
<1>3. \A u \in Threads : u # t => pc'[u] = "idle" /\ todo'[u] = todo[u]
  BY <1>1, <1>2 DEF Start, IInv, TypeInv, TypeOK
<1>4. pc'[t] = step /\ todo'[t] = calls
  BY <1>1 DEF Start, IInv, TypeInv, TypeOK
<1>5. UpdateIsCopied'
  BY <1>3, <1>4 DEF UpdateIsCopied, Writing, Call
<1>6. NoLegacy'
  BY <1>3, <1>4 DEF NoLegacy, ReturnedInv
<1>7. ReturnedSurvives'
  <2> SUFFICES ASSUME NEW r \in returned', NEW c \in {disk'} \cup {mem'[p] : p \in Procs}, c \in Config
      PROVE  r[1] \in c <=> r[2] = "on"
    BY DEF ReturnedSurvives
  <2>1. r \in returned /\ disk \in Config /\ r \in Settings \X {"on", "off"}
    BY <1>1 DEF ReturnedInv, IInv, TypeInv, TypeOK
  <2>2. r[1] \in disk <=> r[2] = "on"
    BY <2>1 DEF ReturnedInv, ReturnedSurvives
  <2>3. c = disk \/ c = Loaded(disk)
    <3>1. \A p \in Procs : mem'[p] = Loaded(disk) \/ mem'[p] = None
      BY DEF Start, IInv, TypeInv, TypeOK
    <3> QED
      BY <1>1, <3>1, ConfigIsNoMarker
  <2>4. CASE c = Loaded(disk)
    <3>1. r[2] \in {"on", "off"} /\ r = <<r[1], r[2]>>
      BY <2>1
    <3>2. CASE r[1] = "legacy"
      <4>1. r # <<"legacy", "on">>
        BY <2>1 DEF ReturnedInv
      <4>2. r[2] = "off"
        BY <3>1, <3>2, <4>1
      <4>3. "legacy" \notin Loaded(disk)
        BY <2>1, ConfigIsNoMarker DEF Loaded
      <4> QED
        BY <2>4, <3>2, <4>2, <4>3
    <3>3. CASE r[1] = "completed"
      <4>1. r # <<"completed", "off">> \/ "completed" \notin Loaded(disk)
        BY DEF Start
      <4>2. "completed" \in disk => "completed" \in Loaded(disk)
        BY <2>1, ConfigIsNoMarker DEF Loaded
      <4>3. r[2] = "on" \/ r[2] = "off"
        BY <3>1
      <4>4. CASE r[2] = "on"
        BY <2>2, <2>4, <3>3, <4>2, <4>4
      <4>5. CASE r[2] = "off"
        <5>1. r = <<"completed", "off">>
          BY <3>1, <3>3, <4>5
        <5> QED
          BY <2>4, <3>3, <4>1, <4>5, <5>1
      <4> QED
        BY <4>3, <4>4, <4>5
    <3>4. CASE r[1] \notin {"legacy", "completed"}
      <4>1. r[1] \in Loaded(disk) <=> r[1] \in disk
        BY <2>1, <3>4, ConfigIsNoMarker DEF Loaded
      <4> QED
        BY <2>2, <2>4, <3>1, <4>1
    <3> QED
      BY <3>2, <3>3, <3>4
  <2> QED
    BY <2>2, <2>3, <2>4
<1> QED
  BY <1>1, <1>5, <1>6, <1>7 DEF ReturnedInv

LEMMA ReturnedStarts ==
  ASSUME Overlap = {}, IInv, ReturnedInv, StartPanel \/ StartCli
  PROVE  ReturnedInv'
<1>1. <<Save>> \in Seq(Calls) /\ <<Load>> \in Seq(Calls) /\ <<>> \in Seq(Calls)
  BY DEF Save, Load, Calls, Config
<1>2. Head(<<Save>>).kind # "update" /\ Head(<<Load>>).kind # "update"
  BY DEF Save, Load
<1>3. \A s \in {<<Save>>, <<Load>>, <<>>} : \A i \in 1..Len(s) :
        s[i].kind = "update" => "legacy" \notin s[i].add
  BY DEF Save, Load
<1>4. CASE StartPanel
  BY <1>1, <1>2, <1>3, <1>4, ReturnedStart DEF StartPanel
<1>5. CASE StartCli
  <2> PICK plan \in CliPlans :
        \/ disk \in Config /\ Start(Cli, <<Load>> \o plan, "open")
        \/ disk \in Config /\ Start(Cli, plan, "ready")
    BY <1>5 DEF StartCli
  <2>1. plan \in Seq(Calls) /\ <<Load>> \o plan \in Seq(Calls)
    BY <1>1, PlansAreCalls
  <2>2. \A i \in 1..Len(plan) : plan[i].kind = "update" => "legacy" \notin plan[i].add
    BY PlanNoLegacy
  <2>3. Head(<<Load>> \o plan) = Load
    BY <2>1
  <2>4. \A i \in 1..Len(<<Load>> \o plan) :
          (<<Load>> \o plan)[i].kind = "update" => "legacy" \notin (<<Load>> \o plan)[i].add
    <3> SUFFICES ASSUME NEW i \in 1..Len(<<Load>> \o plan), (<<Load>> \o plan)[i].kind = "update"
        PROVE  "legacy" \notin (<<Load>> \o plan)[i].add
      OBVIOUS
    <3>1. CASE i = 1
      BY <2>1, <3>1 DEF Load
    <3>2. CASE i # 1
      <4>1. i - 1 \in 1..Len(plan) /\ (<<Load>> \o plan)[i] = plan[i - 1]
        BY <2>1, <3>2
      <4> QED
        BY <2>2, <4>1
    <3> QED
      BY <3>1, <3>2
  <2>5. Load.kind # "update"
    BY DEF Load
  <2> QED
    BY <2>1, <2>2, <2>3, <2>4, <2>5, ReturnedStart
<1> QED
  BY <1>4, <1>5

LEMMA ReturnedEnds ==
  ASSUME NEW p \in Procs, IInv, ReturnedInv, Ends(p)
  PROVE  ReturnedInv'
<1>1. \A u \in Threads : \/ pc'[u] = "idle" /\ todo'[u] = <<>>
                         \/ pc'[u] = pc[u] /\ todo'[u] = todo[u] /\ copy'[u] = copy[u]
  BY DEF Ends
<1>2. UpdateIsCopied'
  BY <1>1 DEF ReturnedInv, UpdateIsCopied, Writing, Call
<1>3. NoLegacy'
  BY <1>1 DEF ReturnedInv, NoLegacy
<1>4. ReturnedSurvives'
  <2>1. \A q \in Procs : mem'[q] = mem[q] \/ mem'[q] = None
    BY DEF Ends, IInv, TypeInv, TypeOK
  <2> QED
    BY <2>1, ConfigIsNoMarker DEF Ends, files, ReturnedInv, ReturnedSurvives
<1> QED
  BY <1>2, <1>3, <1>4 DEF Ends, files, ReturnedInv

LEMMA ReturnedBegin ==
  ASSUME NEW t \in Handlers, NEW plan \in Plans, IInv, ReturnedInv, BeginRequest(t, plan)
  PROVE  ReturnedInv'
<1>1. \A i \in 1..Len(plan) : plan[i].kind = "update" => "legacy" \notin plan[i].add
  BY PlanNoLegacy
<1>2. /\ pc'[t] = "ready" /\ todo'[t] = plan
      /\ \A u \in Threads : u # t => pc'[u] = pc[u] /\ todo'[u] = todo[u]
  BY DEF BeginRequest, IInv, TypeInv, TypeOK
<1>3. UNCHANGED <<mem, disk, copy, returned>>
  BY DEF BeginRequest, files
<1>4. UpdateIsCopied'
  BY <1>2, <1>3 DEF ReturnedInv, UpdateIsCopied, Writing, Call
<1>5. NoLegacy'
  BY <1>1, <1>2 DEF ReturnedInv, NoLegacy
<1> QED
  BY <1>3, <1>4, <1>5 DEF ReturnedInv, ReturnedSurvives

\* A change of memory leaves alone what it does not touch.
LEMMA UntouchedSurvives ==
  ASSUME NEW t \in Threads, NEW k \in Calls, IInv, ReturnedSurvives, UNCHANGED disk,
         mem' = [mem EXCEPT ![Proc(t)] = Changed(mem[Proc(t)], k)],
         mem[Proc(t)] # None,
         returned' = Untouched(k)
  PROVE  ReturnedSurvives' /\ returned' \subseteq returned
<1>1. returned' \subseteq returned
  BY DEF Untouched
<1>2. mem[Proc(t)] \in Config
  BY DEF IInv, TypeInv, TypeOK
<1> SUFFICES ASSUME NEW r \in returned', NEW c \in {disk'} \cup {mem'[p] : p \in Procs}, c \in Config
    PROVE  r[1] \in c <=> r[2] = "on"
  BY <1>1 DEF ReturnedSurvives
<1>3. CASE c \in {disk} \cup {mem[p] : p \in Procs}
  BY <1>1, <1>3 DEF ReturnedSurvives
<1>4. CASE c = Changed(mem[Proc(t)], k)
  <2>1. r[1] \in mem[Proc(t)] <=> r[2] = "on"
    BY <1>1, <1>2 DEF ReturnedSurvives
  <2>2. r[1] \notin k.add /\ r[1] \notin k.drop
    BY DEF Untouched
  <2> QED
    BY <1>4, <2>1, <2>2 DEF Changed
<1>5. \A p \in Procs : mem'[p] = mem[p] \/ mem'[p] = Changed(mem[Proc(t)], k)
  BY DEF IInv, TypeInv, TypeOK
<1> QED
  BY <1>3, <1>4, <1>5

LEMMA ReturnedChange ==
  ASSUME NEW t \in Threads, IInv, ReturnedInv, ChangeMemory(t)
  PROVE  ReturnedInv'
<1>1. pc[t] = "ready" /\ Call(t) \in Calls /\ mem[Proc(t)] # None
  BY CallIsCall DEF ChangeMemory, IInv, TypeInv, TypeOK
<1>2. UNCHANGED <<disk, todo>>
  BY DEF ChangeMemory, files
<1>3. ReturnedSurvives' /\ returned' \subseteq returned
  BY <1>1, <1>2, UntouchedSurvives DEF ChangeMemory, ReturnedInv
<1>4. \A u \in Threads : u # t => pc'[u] = pc[u] /\ copy'[u] = copy[u]
  BY DEF ChangeMemory, IInv, TypeInv, TypeOK
<1>5. copy'[t] = Changed(mem[Proc(t)], Call(t))
  BY DEF ChangeMemory, IInv, TypeInv, TypeOK
<1>6. UpdateIsCopied'
  BY <1>2, <1>4, <1>5 DEF UpdateIsCopied, Changed, Writing, Call, ReturnedInv
<1>7. NoLegacy'
  BY <1>2 DEF NoLegacy, ReturnedInv
<1> QED
  BY <1>2, <1>3, <1>6, <1>7 DEF ReturnedInv

LEMMA ReturnedReplace ==
  ASSUME NEW t \in Threads, IInv, ReturnedInv, ReplaceMemory(t)
  PROVE  ReturnedInv'
<1>1. pc[t] = "ready" /\ Call(t) \in Calls /\ mem[Proc(t)] # None /\ todo[t] \in Seq(Calls) /\ todo[t] # <<>>
  BY CallIsCall DEF ReplaceMemory, IInv, TypeInv, TypeOK
<1>2. UNCHANGED <<disk, copy>>
  BY DEF ReplaceMemory, files
<1>3. ReturnedSurvives' /\ returned' \subseteq returned
  BY <1>1, <1>2, UntouchedSurvives DEF ReplaceMemory, ReturnedInv
<1>4. /\ todo'[t] = Tail(todo[t]) /\ ~Writing(t)'
      /\ \A u \in Threads : u # t => pc'[u] = pc[u] /\ todo'[u] = todo[u]
  BY DEF ReplaceMemory, Proceed, Writing, IInv, TypeInv, TypeOK
<1>5. UpdateIsCopied'
  BY <1>2, <1>4 DEF UpdateIsCopied, Writing, Call, ReturnedInv
<1>6. NoLegacy'
  BY <1>1, <1>4, TailNoLegacy DEF NoLegacy, ReturnedInv
<1> QED
  BY <1>2, <1>3, <1>5, <1>6 DEF ReturnedInv

LEMMA ReturnedWrite ==
  ASSUME NEW t \in Threads, IInv, ReturnedInv, CopyMemory(t) \/ OpenTmp(t) \/ WriteFile(t)
  PROVE  ReturnedInv'
<1>1. UNCHANGED <<mem, disk, todo, returned>>
  BY DEF CopyMemory, OpenTmp, WriteFile, Writes, files, IInv, TmpIsWhole
<1>2. \A u \in Threads : \/ Call(u).kind = "save"
                         \/ copy'[u] = copy[u] /\ (Writing(u)' => Writing(u))
  BY DEF CopyMemory, OpenTmp, WriteFile, Writing, IInv, TypeInv, TypeOK
<1>3. UpdateIsCopied'
  BY <1>1, <1>2 DEF UpdateIsCopied, Call, ReturnedInv
<1> QED
  BY <1>1, <1>3 DEF ReturnedInv, ReturnedSurvives, NoLegacy

LEMMA ReturnedRename ==
  ASSUME NEW t \in Threads, IInv, ReturnedInv, RenameTmp(t)
  PROVE  ReturnedInv'
<1>1. Writing(t) /\ pc[t] # "idle" /\ todo[t] \in Seq(Calls) /\ todo[t] # <<>> /\ mem[Proc(t)] # None
  BY DEF RenameTmp, Writing, IInv, TypeInv, TypeOK
<1>2. Call(t) \in Calls
  BY <1>1, CallIsCall DEF IInv
<1>3. disk' = copy[t] /\ disk' = mem[Proc(t)] /\ UNCHANGED mem /\ disk' \in Config
  BY <1>1 DEF RenameTmp, IInv, WriterOwns, TmpIsWhole, TypeInv, TypeOK
<1>4. /\ todo'[t] = Tail(todo[t])
      /\ \A u \in Threads : ~Writing(u)'
      /\ \A u \in Threads : u # t => todo'[u] = todo[u]
  BY <1>1 DEF RenameTmp, Proceed, Writing, OneWriter, IInv, TypeInv, TypeOK
<1>5. UpdateIsCopied'
  BY <1>4 DEF UpdateIsCopied
<1>6. NoLegacy'
  BY <1>1, <1>4, TailNoLegacy DEF NoLegacy, ReturnedInv
<1>7. \A c \in {disk'} \cup {mem'[p] : p \in Procs} : c \in Config => c = mem[Proc(t)]
  <2>1. \A p \in Procs : mem[p] = mem[Proc(t)] \/ mem[p] = None
    BY <1>1 DEF IInv, OneProcess
  <2> QED
    BY <1>3, <2>1, ConfigIsNoMarker
<1>8. ReturnedSurvives'
  <2> SUFFICES ASSUME NEW r \in returned' PROVE r[1] \in mem[Proc(t)] <=> r[2] = "on"
    BY <1>7 DEF ReturnedSurvives
  <2>1. CASE r \in returned
    BY <1>3, <2>1 DEF ReturnedInv, ReturnedSurvives
  <2>2. CASE r \in Settled(Call(t))
    <3>1. Call(t).kind = "update"
      BY <2>2 DEF Settled
    <3>2. Call(t).add \subseteq copy[t] /\ (Call(t).drop \ Call(t).add) \cap copy[t] = {}
      BY <1>1, <3>1 DEF ReturnedInv, UpdateIsCopied
    <3>3. \/ r[1] \in Call(t).add /\ r[2] = "on"
          \/ r[1] \in Call(t).drop \ Call(t).add /\ r[2] = "off"
      BY <2>2, <3>1 DEF Settled
    <3> QED
      BY <1>3, <3>2, <3>3
  <2> QED
    BY <2>1, <2>2 DEF RenameTmp, Untouched
<1>9. <<"legacy", "on">> \notin returned'
  <2>1. Call(t).kind = "update" => "legacy" \notin Call(t).add
    BY <1>1, TailNoLegacy DEF ReturnedInv, NoLegacy, Call
  <2>2. <<"legacy", "on">> \notin Settled(Call(t))
    BY <2>1 DEF Settled
  <2> QED
    BY <2>2 DEF RenameTmp, Untouched, ReturnedInv
<1> QED
  BY <1>3, <1>5, <1>6, <1>8, <1>9, ConfigIsNoMarker DEF ReturnedInv

LEMMA ReturnedError ==
  ASSUME NEW t \in Threads, IInv, ReturnedInv, Fails(t), UNCHANGED disk
  PROVE  ReturnedInv'
<1>1. \A u \in Threads : \/ pc'[u] = "idle" /\ todo'[u] = <<>>
                         \/ pc'[u] = pc[u] /\ todo'[u] = todo[u] /\ copy'[u] = copy[u]
  BY DEF Fails, IInv, TypeInv, TypeOK
<1>2. UpdateIsCopied'
  BY <1>1 DEF ReturnedInv, UpdateIsCopied, Writing, Call
<1>3. NoLegacy'
  BY <1>1 DEF ReturnedInv, NoLegacy
<1>4. ReturnedSurvives'
  <2>1. \A q \in Procs : mem'[q] = mem[q] \/ mem'[q] = None
    BY DEF Fails, IInv, TypeInv, TypeOK
  <2> QED
    BY <2>1, ConfigIsNoMarker DEF Fails, ReturnedInv, ReturnedSurvives
<1> QED
  BY <1>2, <1>3, <1>4 DEF Fails, ReturnedInv

LEMMA ReturnedNext ==
  ASSUME Overlap = {}
  PROVE  IInv /\ ReturnedInv /\ [Next]_vars => ReturnedInv'
<1> SUFFICES ASSUME IInv, ReturnedInv, [Next]_vars PROVE ReturnedInv'
  OBVIOUS
<1>1. CASE StartPanel \/ StartCli
  BY <1>1, ReturnedStarts
<1>2. CASE CliExits \/ \E p \in Procs : Crash(p)
  BY <1>2, ReturnedEnds DEF CliExits, Crash
<1>3. CASE \E t \in Handlers, plan \in Plans : BeginRequest(t, plan)
  BY <1>3, ReturnedBegin
<1>4. CASE \E t \in Threads : Step(t)
  <2>1. TypeInv'
    BY TypeNext DEF IInv
  <2> QED
    BY <1>4, <2>1, ReturnedChange, ReturnedReplace, ReturnedWrite, ReturnedRename, ReturnedError,
       SafeError DEF Step
<1>5. CASE UNCHANGED vars
  BY <1>5 DEF vars, ReturnedInv, ReturnedSurvives, UpdateIsCopied, Writing, NoLegacy, Call
<1> QED
  BY <1>1, <1>2, <1>3, <1>4, <1>5 DEF Next

\* What a user was told is saved is there after every crash, failed write and restart, and
\* beside any other updates, until somebody changes it, as long as nothing overlaps a restore
\* or another process.
THEOREM ReturnedAlwaysSurvives ==
  ASSUME Overlap = {}
  PROVE  Spec => []ReturnedSurvives
<1>1. IInv /\ ReturnedInv /\ [Next]_vars => ReturnedInv'
  BY ReturnedNext
<1>2. Spec => []IInv
  BY SafeAlways
<1>3. ReturnedInv => ReturnedSurvives
  BY DEF ReturnedInv
<1> QED
  BY <1>1, <1>2, <1>3, ReturnedInit, PTL DEF Spec

-----------------------------------------------------------------------------
(* The store is one configuration in memory and one saved.                 *)

LEMMA DurableInit == Init => Durable!Init
<1> SUFFICES ASSUME Init PROVE Durable!Init
  OBVIOUS
<1>1. Memory = None
  BY DEF Init, Memory
<1>2. disk \in Config \cup {Missing}
  BY StoreAssumption DEF Init, Config
<1> QED
  BY <1>1, <1>2 DEF Durable!Init

LEMMA MemoryOfBusy ==
  ASSUME NEW p \in Procs, IInv, mem[p] # None
  PROVE  Memory = mem[p] /\ Memory \in Config /\ Memory # None
BY ConfigIsNoMarker DEF Memory, IInv, OneProcess, TypeInv, TypeOK

LEMMA DurableStart ==
  ASSUME NEW t \in {Main, Cli}, NEW calls, NEW step, Overlap = {}, IInv, Start(t, calls, step)
  PROVE  Durable!Next
<1>1. \A p \in Procs : mem[p] = None
  BY DEF Start
<1>2. Memory = None
  BY <1>1 DEF Memory
<1>3. disk \in Config \cup {Missing} /\ disk' = disk
  BY DEF Start, files, IInv, DiskIsWhole
<1>4. Loaded(disk) # None
  BY <1>3, LoadedIsConfig, ConfigIsNoMarker
<1>5. Memory' = Loaded(disk)
  BY <1>1, <1>4 DEF Start, Memory, IInv, TypeInv, TypeOK
<1>6. Durable!Start
  BY <1>2, <1>3, <1>5 DEF Durable!Start
<1> QED
  BY <1>6 DEF Durable!Next

LEMMA DurableEnds ==
  ASSUME NEW p \in Procs, IInv, mem[p] # None, mem' = [mem EXCEPT ![p] = None], UNCHANGED disk
  PROVE  Durable!Next
<1>1. Memory # None
  BY MemoryOfBusy
<1>2. Memory' = None
  BY DEF Memory, IInv, OneProcess, TypeInv, TypeOK
<1>3. Durable!Stop
  BY <1>1, <1>2 DEF Durable!Stop
<1> QED
  BY <1>3 DEF Durable!Next

LEMMA DurableChange ==
  ASSUME NEW t \in Threads, IInv, IInv', ChangeMemory(t) \/ ReplaceMemory(t)
  PROVE  Durable!Next
<1>1. mem[Proc(t)] # None /\ mem'[Proc(t)] # None /\ UNCHANGED disk
  <2>1. mem[Proc(t)] # None
    BY DEF ChangeMemory, ReplaceMemory, IInv, TypeInv, TypeOK
  <2>2. Changed(mem[Proc(t)], Call(t)) \in Config
    BY ChangedIsConfig DEF ChangeMemory, ReplaceMemory, IInv
  <2> QED
    BY <2>1, <2>2, ConfigIsNoMarker DEF ChangeMemory, ReplaceMemory, files, IInv, TypeInv, TypeOK
<1>2. Memory # None
  BY <1>1, MemoryOfBusy
<1>3. Memory' \in Config
  BY <1>1 DEF Memory, IInv, OneProcess, TypeInv, TypeOK
<1>4. Durable!Change
  BY <1>1, <1>2, <1>3 DEF Durable!Change
<1> QED
  BY <1>4 DEF Durable!Next

LEMMA DurableRename ==
  ASSUME NEW t \in Threads, IInv, RenameTmp(t)
  PROVE  Durable!Next
<1>1. Writing(t) /\ mem[Proc(t)] # None
  BY DEF RenameTmp, Writing, IInv, TypeInv, TypeOK
<1>2. disk' = mem[Proc(t)] /\ UNCHANGED mem
  BY <1>1 DEF RenameTmp, IInv, WriterOwns, TmpIsWhole
<1>3. Memory = mem[Proc(t)] /\ Memory # None /\ Memory' = Memory
  BY <1>1, <1>2, MemoryOfBusy DEF Memory
<1>4. Durable!Persist
  BY <1>2, <1>3 DEF Durable!Persist
<1> QED
  BY <1>4 DEF Durable!Next

LEMMA DurableError ==
  ASSUME NEW t \in Threads, IInv, pc[t] # "idle", Fails(t), UNCHANGED disk
  PROVE  Durable!Next \/ UNCHANGED <<Memory, disk>>
<1>1. CASE t = Main
  <2>1. mem["panel"] # None
    BY <1>1, StoreAssumption DEF IInv, TypeInv, TypeOK
  <2> QED
    BY <1>1, <2>1, DurableEnds DEF Fails
<1>2. CASE t # Main
  BY <1>2 DEF Fails, Memory
<1> QED
  BY <1>1, <1>2

LEMMA DurableNext ==
  ASSUME Overlap = {}
  PROVE  IInv /\ IInv' /\ [Next]_vars => [Durable!Next]_<<Memory, disk>>
<1> SUFFICES ASSUME IInv, IInv', [Next]_vars PROVE Durable!Next \/ UNCHANGED <<Memory, disk>>
  OBVIOUS
<1>1. CASE StartPanel \/ StartCli
  BY <1>1, DurableStart DEF StartPanel, StartCli
<1>2. CASE CliExits \/ \E p \in Procs : Crash(p)
  BY <1>2, DurableEnds DEF CliExits, Crash, Ends, files
<1>3. CASE \E t \in Handlers, plan \in Plans : BeginRequest(t, plan)
  BY <1>3 DEF BeginRequest, files, Memory
<1>4. CASE \E t \in Threads : Step(t)
  <2> PICK t \in Threads : Step(t)
    BY <1>4
  <2>1. CASE ChangeMemory(t) \/ ReplaceMemory(t)
    BY <2>1, DurableChange
  <2>2. CASE CopyMemory(t) \/ OpenTmp(t) \/ WriteFile(t)
    BY <2>2 DEF CopyMemory, OpenTmp, WriteFile, Writes, files, Memory, IInv, TmpIsWhole
  <2>3. CASE RenameTmp(t)
    BY <2>3, DurableRename
  <2>4. CASE RenameFails(t) \/ OpenFails(t) \/ WriteFails(t)
    <3>1. pc[t] # "idle" /\ TypeInv'
      BY <2>4 DEF RenameFails, OpenFails, WriteFails, IInv
    <3>2. Fails(t) /\ UNCHANGED disk
      BY <2>4, <3>1, SafeError
    <3> QED
      BY <3>1, <3>2, DurableError
  <2> QED
    BY <2>1, <2>2, <2>3, <2>4 DEF Step
<1>5. CASE UNCHANGED vars
  BY <1>5 DEF vars, Memory
<1> QED
  BY <1>1, <1>2, <1>3, <1>4, <1>5 DEF Next

\* The Store with its mutex, its threads and its files implements the abstract one, as long as
\* nothing overlaps a restore or another process: a save is one step that takes what is in
\* memory at that moment.
THEOREM StoreImplementsDurable ==
  ASSUME Overlap = {}
  PROVE  Spec => ImplementsDurable
<1>1. Spec => []IInv
  BY SafeAlways
<1>2. IInv /\ IInv' /\ [Next]_vars => [Durable!Next]_<<Memory, disk>>
  BY DurableNext
<1> QED
  BY <1>1, <1>2, DurableInit, PTL DEF Spec, ImplementsDurable, Durable!Spec
=============================================================================
