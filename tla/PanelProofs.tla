---------------------------- MODULE PanelProofs ----------------------------
(***************************************************************************)
(* The panel's requests use the store the way module ConfigStore allows,   *)
(* so what is proved of any requests holds of these.  Of these alone holds *)
(* that an own password ends onboarding.                                   *)
(***************************************************************************)
EXTENDS Panel, ConfigStoreProofs

LEMMA PanelStep ==
  ASSUME AllPlans \subseteq Plans
  PROVE  [PanelNext]_panelVars => [Next]_vars
<1> SUFFICES ASSUME [PanelNext]_panelVars PROVE Next \/ UNCHANGED vars
  OBVIOUS
<1>1. CASE StartProcess
  BY <1>1 DEF StartProcess, Next
<1>2. CASE EndProcess
  BY <1>2 DEF EndProcess, Next
<1>3. CASE \E t \in Handlers : Handle(t) \/ RunInBackground(t)
  <2> PICK t \in Handlers : Handle(t) \/ RunInBackground(t)
    BY <1>3
  <2>1. PICK r \in Requests \cup Background : BeginRequest(t, r.plan)
    BY DEF Handle, RunInBackground
  <2>2. r.plan \in Plans
    BY DEF AllPlans
  <2> QED
    BY <2>1, <2>2 DEF Next
<1>4. CASE \E t \in Threads : StepOf(t)
  BY <1>4 DEF StepOf, Next
<1>5. CASE \E b \in Browsers : Logout(b) \/ \E typed \in {"own", "admin"} : Login(b, typed)
  BY <1>5 DEF Login, Logout
<1>6. CASE UNCHANGED panelVars
  BY <1>6 DEF panelVars
<1> QED
  BY <1>1, <1>2, <1>3, <1>4, <1>5, <1>6 DEF PanelNext

\* The panel with its sessions, onboarding and requests is a configuration store in use.
THEOREM PanelUsesStore ==
  ASSUME AllPlans \subseteq Plans
  PROVE  PanelSpec => Spec
<1>1. [PanelNext]_panelVars => [Next]_vars
  BY PanelStep
<1>2. PanelInit => Init
  BY DEF PanelInit
<1> QED
  BY <1>1, <1>2, PTL DEF PanelSpec, Spec

\* So the requests of the panel implement the abstract store, as long as no restore runs beside
\* another request and no second process beside the panel: nothing in backup.go 28-52 or
\* main.go 72-89 keeps these apart, and where they overlap a save may overwrite a later one.
THEOREM PanelImplementsDurable ==
  ASSUME AllPlans \subseteq Plans, Overlap = {}
  PROVE  PanelSpec => ImplementsDurable
BY PanelUsesStore, StoreImplementsDurable

-----------------------------------------------------------------------------
(* An own password ends onboarding.                                        *)

SetsPassword(k) == k.kind = "update" /\ "password" \in k.add
EndsOnboarding(k) == k.kind = "update" /\ "completed" \in k.add

\* No call of the panel starts onboarding again, but by taking the password back.
Careful(k) ==
  /\ k.kind = "update" => "completed" \notin k.drop
  /\ k.kind = "replace" => "password" \in k.add \cup k.drop

\* Who sets a password ends onboarding next, unless it was over before.
PasswordFirst ==
  \A h \in Handlers : \A i \in 1..Len(todo[h]) :
    /\ Careful(todo[h][i])
    /\ SetsPassword(todo[h][i]) =>
         \/ "completed" \in mem["panel"]
         \/ i + 1 \in 1..Len(todo[h]) /\ EndsOnboarding(todo[h][i + 1])

\* After that, onboarding is over or the same request is about to end it.
PasswordSet ==
  <<"password", "on">> \in returned /\ mem["panel"] # None =>
    \/ "completed" \in mem["panel"]
    \/ \E h \in Handlers : todo[h] # <<>> /\ EndsOnboarding(todo[h][1])

\* The main goroutine loads, migrates or saves, and changes no choice.
MainSaves ==
  pc[Main] # "idle" => /\ pc[Main] # "ready" /\ Len(todo[Main]) = 1
                       /\ Call(Main).kind # "update"

PasswordInv == PasswordFirst /\ PasswordSet /\ MainSaves

LEMMA OneCall ==
  ASSUME NEW plan, NEW add, NEW drop, plan = <<Update(add, drop)>>,
         "completed" \notin drop, "password" \notin add
  PROVE  \A i \in 1..Len(plan) : Careful(plan[i]) /\ ~SetsPassword(plan[i])
BY DEF Careful, SetsPassword, Update

LEMMA TwoMore ==
  ASSUME NEW S, NEW s \in Seq(S), NEW t \in Seq(S), Len(t) = 2
  PROVE  /\ s \o t \in Seq(S) /\ Len(s \o t) = Len(s) + 2
         /\ \A i \in 1..(Len(s) + 2) : (s \o t)[i] = IF i <= Len(s) THEN s[i] ELSE t[i - Len(s)]
<1>1. /\ s \o t \in Seq(S) /\ Len(s \o t) = Len(s) + Len(t)
      /\ \A i \in 1..Len(s) + Len(t) : (s \o t)[i] = IF i <= Len(s) THEN s[i] ELSE t[i - Len(s)]
  BY ConcatProperties, Zenon
<1> QED
  BY <1>1, Zenon

LEMMA FourCalls ==
  ASSUME NEW a, NEW b, NEW c, NEW d
  PROVE  <<a>> \o <<b>> \o <<c, d>> = <<a, b, c, d>>
<1> PICK first : first = <<a>> \o <<b>>
  OBVIOUS
<1> DEFINE S == {a, b, c, d}
<1>1. /\ <<a>> \in Seq(S) /\ <<b>> \in Seq(S) /\ <<c, d>> \in Seq(S)
      /\ <<a, b, c, d>> \in Seq(S)
  OBVIOUS
<1>2. first \in Seq(S) /\ Len(first) = 2 /\ first[1] = a /\ first[2] = b
  <2> HIDE DEF S
  <2>1. /\ first \in Seq(S) /\ Len(first) = Len(<<a>>) + Len(<<b>>)
        /\ \A i \in 1..Len(<<a>>) + Len(<<b>>) :
             first[i] = IF i <= Len(<<a>>) THEN <<a>>[i] ELSE <<b>>[i - Len(<<a>>)]
    BY <1>1, ConcatProperties, Zenon
  <2> QED
    BY <2>1
<1> HIDE DEF S
<1> QED
  <2> DEFINE all == first \o <<c, d>>
  <2>1. all \in Seq(S) /\ Len(all) = 4
    BY <1>1, <1>2, TwoMore
  <2>2. all[1] = a /\ all[2] = b /\ all[3] = c /\ all[4] = d
    BY <1>1, <1>2, TwoMore
  <2> HIDE DEF all
  <2>3. \A i \in 1..4 : all[i] = <<a, b, c, d>>[i]
    BY <2>2
  <2>4. all = <<a, b, c, d>>
    BY <1>1, <2>1, <2>3, SeqEqual
  <2> QED
    BY <2>4 DEF all

LEMMA RequestsAreCareful ==
  ASSUME NEW r \in Requests \cup Background
  PROVE  \A i \in 1..Len(r.plan) :
           /\ Careful(r.plan[i])
           /\ SetsPassword(r.plan[i]) =>
                \/ r.route = "/api/auth/password"
                \/ i + 1 \in 1..Len(r.plan) /\ EndsOnboarding(r.plan[i + 1])
<1> USE DEF Careful, SetsPassword, EndsOnboarding, Update, Choices
<1> DEFINE Harmless(plan) ==
      \E add, drop \in SUBSET Settings :
        plan = <<Update(add, drop)>> /\ "completed" \notin drop /\ "password" \notin add
<1>1. CASE r.plan \in {CompleteOnboarding(b, b) : b \in BOOLEAN}
  <2>1. CASE r.plan = CompleteOnboarding(TRUE, TRUE)
    <3>1. r.plan = <<UpdateOnboardingPaths>> \o <<UpdateOnboardingNetwork>>
                     \o <<SetPassword("own"), Update({"completed"}, {})>>
      BY <2>1, Zenon DEF CompleteOnboarding
    <3>2. r.plan = <<UpdateOnboardingPaths, UpdateOnboardingNetwork, SetPassword("own"),
                     Update({"completed"}, {})>>
      <4> HIDE DEF Update, Choices
      <4> QED
        BY <3>1, FourCalls, Zenon
    <3> QED
      BY <3>2 DEF UpdateOnboardingPaths, UpdateOnboardingNetwork, SetPassword
  <2>2. CASE r.plan = CompleteOnboarding(FALSE, FALSE)
    <3>1. r.plan = <<SetPassword("own"), Update({"completed"}, {})>>
      BY <2>2 DEF CompleteOnboarding
    <3> QED
      BY <3>1 DEF SetPassword
  <2> QED
    BY <1>1, <2>1, <2>2
<1>2. CASE Harmless(r.plan)
  BY <1>2, OneCall
<1>3. CASE \/ r.plan \in {SkipOnboarding, <<UpdateOnboardingPaths>>, <<UpdateOnboardingNetwork>>}
           \/ \E on \in BOOLEAN : r.plan = EditServers(on)
           \/ \E on \in SUBSET (Choices \ {"servers"}) : r.plan = UpdateSettings(on)
           \/ \E on \in {{}, Choices} : r.plan = UpdateRouting(on)
           \/ r \in Background
  <2> USE DEF Choices
  <2> HIDE DEF Update, Careful, SetsPassword, EndsOnboarding
  <2>1. ASSUME r.plan = SkipOnboarding PROVE Harmless(r.plan)
    BY <2>1, StoreAssumption DEF SkipOnboarding
  <2> DEFINE paths == {"paths"} \cap Choices
             network == {"network"} \cap Choices
  <2>2. /\ paths \in SUBSET Settings /\ network \in SUBSET Settings /\ {} \in SUBSET Settings
        /\ "password" \notin paths /\ "password" \notin network
    OBVIOUS
  <2>3. UpdateOnboardingPaths = Update(paths, {}) /\ UpdateOnboardingNetwork = Update(network, {})
    BY DEF UpdateOnboardingPaths, UpdateOnboardingNetwork
  <2> HIDE DEF paths, network
  <2>4. ASSUME r.plan = <<UpdateOnboardingPaths>> PROVE Harmless(r.plan)
    <3>1. r.plan = <<Update(paths, {})>> /\ "completed" \notin {}
      BY <2>4, <2>3
    <3> QED
      BY <2>2, <3>1, Zenon
  <2>5. ASSUME r.plan = <<UpdateOnboardingNetwork>> PROVE Harmless(r.plan)
    <3>1. r.plan = <<Update(network, {})>> /\ "completed" \notin {}
      BY <2>5, <2>3
    <3> QED
      BY <2>2, <3>1, Zenon
  <2>6. ASSUME NEW on \in BOOLEAN, r.plan = EditServers(on) PROVE Harmless(r.plan)
    BY <2>6 DEF EditServers
  <2>7. ASSUME NEW on \in SUBSET (Choices \ {"servers"}), r.plan = UpdateSettings(on) PROVE Harmless(r.plan)
    BY <2>7 DEF UpdateSettings
  <2>8. ASSUME NEW on \in {{}, Choices}, r.plan = UpdateRouting(on) PROVE Harmless(r.plan)
    BY <2>8 DEF UpdateRouting
  <2>9. ASSUME r \in Background PROVE Harmless(r.plan)
    BY <2>9 DEF Background
  <2> HIDE DEF Harmless
  <2> QED
    BY <1>2, <1>3, <2>1, <2>4, <2>5, <2>6, <2>7, <2>8, <2>9
<1>4. CASE r.route = "/api/auth/password" /\ \E p \in {"own", "admin"} : r.plan = <<SetPassword(p)>>
  BY <1>4 DEF SetPassword
<1>5. CASE \E c \in {{}, {"password", "completed"}} : r.plan = RestoreBackup(c)
  BY <1>5, StoreAssumption DEF RestoreBackup, Replace, Save
<1> QED
  BY <1>1, <1>3, <1>4, <1>5 DEF Requests


USE DEF Procs, Proc, Threads, Files

LEMMA PasswordStart ==
  ASSUME Overlap = {}, IInv, ReturnedInv, TypeInv', StartPanel \/ StartCli
  PROVE  PasswordInv'
<1>1. PICK t \in {Main, Cli}, calls \in Seq(Calls), step \in {"idle", "ready", "open"} :
        /\ Start(t, calls, step)
        /\ t = Main /\ step # "idle" => step = "open" /\ calls \in {<<Save>>, <<Load>>}
  <2>1. Save \in Calls /\ Load \in Calls
    BY DEF Save, Load, Calls, Config
  <2>2. CASE StartPanel
    <3>1. <<Save>> \in Seq(Calls) /\ <<Load>> \in Seq(Calls) /\ <<>> \in Seq(Calls)
      BY <2>1
    <3>2. CASE Start(Main, <<Save>>, "open")
      BY <3>1, <3>2
    <3>3. CASE Start(Main, <<Load>>, "open")
      BY <3>1, <3>3
    <3>4. CASE Start(Main, <<>>, "idle")
      BY <3>1, <3>4
    <3> QED
      BY <2>2, <3>2, <3>3, <3>4 DEF StartPanel
  <2>3. CASE StartCli
    <3>1. \A plan \in CliPlans : plan \in Seq(Calls) /\ <<Load>> \o plan \in Seq(Calls)
      BY <2>1, PlansAreCalls
    <3> QED
      BY <2>3, <3>1, StoreAssumption DEF StartCli
  <2> QED
    BY <2>2, <2>3
<1>2. /\ \A u \in Threads : u # t => pc'[u] = pc[u] /\ todo'[u] = todo[u]
      /\ pc'[t] = step /\ todo'[t] = calls /\ \A p \in Procs : mem[p] = None
      /\ mem'[Proc(t)] = Loaded(disk) /\ \A p \in Procs : p # Proc(t) => mem'[p] = None
      /\ returned' \subseteq returned
  BY <1>1 DEF Start, IInv, TypeInv, TypeOK
<1>3. \A h \in Handlers : todo'[h] = <<>>
  BY <1>2, StoreAssumption DEF IInv, TypeInv, TypeOK
<1>4. PasswordFirst'
  BY <1>3 DEF PasswordFirst
<1>5. PasswordSet'
  <2> SUFFICES ASSUME <<"password", "on">> \in returned, t = Main
               PROVE  "completed" \in Loaded(disk)
    BY <1>2, StoreAssumption DEF PasswordSet
  <2>1. disk \in Config
    BY DEF ReturnedInv, IInv, DiskIsWhole
  <2>2. "password" \in disk
    BY <2>1 DEF ReturnedInv, ReturnedSurvives
  <2> QED
    BY <2>1, <2>2, ConfigIsNoMarker DEF Loaded
<1>6. MainSaves'
  <2>1. CASE t = Main
    BY <1>1, <1>2, <2>1 DEF MainSaves, Call, Save, Load
  <2>2. CASE t # Main
    BY <1>2, <2>2 DEF MainSaves, IInv, TypeInv, TypeOK
  <2> QED
    BY <2>1, <2>2
<1> QED
  BY <1>4, <1>5, <1>6 DEF PasswordInv

\* Without a panel process nothing is in progress.
LEMMA NoPanel ==
  ASSUME TypeInv', mem'["panel"] = None
  PROVE  PasswordInv'
<1>1. \A t \in Threads : t # Cli => pc'[t] = "idle" /\ todo'[t] = <<>>
  BY DEF TypeInv, TypeOK
<1>2. \A h \in Handlers : todo'[h] = <<>>
  BY <1>1, StoreAssumption
<1> QED
  BY <1>1, <1>2, StoreAssumption DEF PasswordInv, PasswordFirst, PasswordSet, MainSaves

LEMMA PasswordEnds ==
  ASSUME NEW p \in Procs, IInv, PasswordInv, TypeInv', Ends(p), mem[p] # None
  PROVE  PasswordInv'
<1>1. mem'["panel"] = None
  BY DEF Ends, IInv, OneProcess, TypeInv, TypeOK
<1> QED
  BY <1>1, NoPanel

LEMMA PasswordBegin ==
  ASSUME NEW t \in Handlers, NEW r \in Requests \cup Background, IInv, PasswordInv, TypeInv',
         BeginRequest(t, r.plan),
         r.route = "/api/auth/password" => ~NeedsOnboarding(mem["panel"])
  PROVE  PasswordInv'
<1>1. /\ UNCHANGED <<mem, returned>> /\ pc[t] = "idle" /\ todo[t] = <<>> /\ todo'[t] = r.plan
      /\ \A u \in Threads : u # t => todo'[u] = todo[u] /\ pc'[u] = pc[u]
  BY DEF BeginRequest, IInv, TypeInv, TypeOK
<1>2. r.route = "/api/auth/password" => "completed" \in mem["panel"]
  BY DEF NeedsOnboarding
<1>3. PasswordFirst'
  BY <1>1, <1>2, RequestsAreCareful DEF PasswordFirst, PasswordInv
<1>4. PasswordSet'
  BY <1>1 DEF PasswordSet, PasswordInv
<1>5. MainSaves'
  BY <1>1, StoreAssumption DEF MainSaves, Call, PasswordInv
<1> QED
  BY <1>3, <1>4, <1>5 DEF PasswordInv

LEMMA PasswordChange ==
  ASSUME NEW t \in Threads, IInv, PasswordInv, TypeInv', ChangeMemory(t)
  PROVE  PasswordInv'
<1>1. /\ pc[t] = "ready" /\ pc'[t] = "open" /\ Call(t).kind = "update" /\ UNCHANGED todo
      /\ \A u \in Threads : u # t => pc'[u] = pc[u]
      /\ todo[t] # <<>> /\ todo[t] \in Seq(Calls) /\ mem[Proc(t)] # None
  BY DEF ChangeMemory, IInv, TypeInv, TypeOK
<1>2. t # Main
  BY <1>1 DEF PasswordInv, MainSaves
<1>3. MainSaves'
  BY <1>1, <1>2 DEF PasswordInv, MainSaves, Call
<1>4. CASE t = Cli
  <2>1. mem'["panel"] = None
    BY <1>1, <1>4 DEF ChangeMemory, IInv, OneProcess, TypeInv, TypeOK
  <2> QED
    BY <2>1, NoPanel
<1>5. CASE t \in Handlers
  <2>1. /\ Call(t) = todo[t][1] /\ 1 \in 1..Len(todo[t])
    BY <1>1, FirstOfSeq DEF Call
  <2>2. Careful(Call(t))
    BY <1>5, <2>1 DEF PasswordInv, PasswordFirst
  <2>3. mem'["panel"] = Changed(mem["panel"], Call(t)) /\ returned' \subseteq returned
    BY <1>5, StoreAssumption DEF ChangeMemory, Untouched, IInv, TypeInv, TypeOK
  <2>4. "completed" \in mem["panel"] => "completed" \in mem'["panel"]
    BY <1>1, <2>2, <2>3 DEF Careful, Changed
  <2>5. PasswordFirst'
    BY <1>1, <2>4 DEF PasswordInv, PasswordFirst
  <2>6. mem["panel"] # None
    BY <1>1, <1>5, StoreAssumption
  <2>7. PasswordSet'
    BY <1>1, <2>3, <2>4, <2>6 DEF PasswordInv, PasswordSet
  <2> QED
    BY <1>3, <2>5, <2>7 DEF PasswordInv
<1> QED
  BY <1>2, <1>4, <1>5

LEMMA PasswordReplace ==
  ASSUME NEW t \in Threads, IInv, PasswordInv, TypeInv', ReplaceMemory(t)
  PROVE  PasswordInv'
<1>1. /\ pc[t] = "ready" /\ Call(t).kind = "replace" /\ todo'[t] = Tail(todo[t])
      /\ \A u \in Threads : u # t => pc'[u] = pc[u] /\ todo'[u] = todo[u]
      /\ todo[t] # <<>> /\ todo[t] \in Seq(Calls) /\ mem[Proc(t)] # None
  BY DEF ReplaceMemory, Proceed, IInv, TypeInv, TypeOK
<1>2. t # Main
  BY <1>1 DEF PasswordInv, MainSaves
<1>3. MainSaves'
  BY <1>1, <1>2 DEF PasswordInv, MainSaves, Call
<1>4. CASE t = Cli
  <2>1. mem'["panel"] = None
    BY <1>1, <1>4 DEF ReplaceMemory, IInv, OneProcess, TypeInv, TypeOK
  <2> QED
    BY <2>1, NoPanel
<1>5. CASE t \in Handlers
  <2>1. Call(t) = todo[t][1] /\ 1 \in 1..Len(todo[t])
    BY <1>1, FirstOfSeq DEF Call
  <2>2. Careful(Call(t))
    BY <1>5, <2>1 DEF PasswordInv, PasswordFirst
  <2>3. <<"password", "on">> \notin returned'
    BY <1>1, <2>2 DEF ReplaceMemory, Untouched, Careful
  <2>4. \A h \in Handlers : h # t => todo'[h] = <<>>
    BY <1>1, <1>5 DEF Restoring, Call, RestoreAlone, IInv, TypeInv, TypeOK
  <2>5. Len(todo[t]) = 2 /\ todo[t][2].kind = "save"
    BY <1>1, <1>5, <2>1 DEF IInv, Shape
  <2>6. Len(todo'[t]) = 1 /\ todo'[t][1] = todo[t][2]
    BY <1>1, <2>5
  <2>7. PasswordFirst'
    BY <2>4, <2>5, <2>6 DEF PasswordFirst, Careful, SetsPassword
  <2> QED
    BY <1>3, <2>3, <2>7 DEF PasswordInv, PasswordSet
<1> QED
  BY <1>2, <1>4, <1>5

LEMMA PasswordWrite ==
  ASSUME NEW t \in Threads, IInv, PasswordInv, CopyMemory(t) \/ OpenTmp(t) \/ WriteFile(t)
  PROVE  PasswordInv'
<1>1. UNCHANGED <<mem, todo, returned>>
  BY DEF CopyMemory, OpenTmp, WriteFile
<1>2. pc[t] # "idle" /\ \E step \in {"open", "write", "rename"} : pc' = [pc EXCEPT ![t] = step]
  BY DEF CopyMemory, OpenTmp, WriteFile
<1>3. pc'[Main] # "idle" => pc[Main] # "idle" /\ (pc'[Main] = "ready" => pc[Main] = "ready")
  BY <1>2 DEF IInv, TypeInv, TypeOK
<1> QED
  BY <1>1, <1>3 DEF PasswordInv, PasswordFirst, PasswordSet, MainSaves, Call

\* The update that has just been written is in memory.
LEMMA WrittenIsInMemory ==
  ASSUME NEW t \in Threads, IInv, ReturnedInv, Writing(t), EndsOnboarding(Call(t))
  PROVE  "completed" \in mem[Proc(t)]
BY DEF EndsOnboarding, UpdateIsCopied, WriterOwns, IInv, ReturnedInv

LEMMA TailAt ==
  ASSUME NEW s \in Seq(Calls), s # <<>>
  PROVE  /\ Len(Tail(s)) = Len(s) - 1 /\ Len(s) \in Nat \ {0}
         /\ \A i \in 1..Len(Tail(s)) : i + 1 \in 2..Len(s) /\ Tail(s)[i] = s[i + 1]
<1>1. Len(s) \in Nat \ {0}
  BY EmptySeq
<1> QED
  BY <1>1

LEMMA PasswordRename ==
  ASSUME NEW t \in Threads, IInv, ReturnedInv, PasswordInv, TypeInv', RenameTmp(t)
  PROVE  PasswordInv'
<1>1. /\ Writing(t) /\ UNCHANGED mem /\ todo'[t] = Tail(todo[t])
      /\ \A u \in Threads : u # t => pc'[u] = pc[u] /\ todo'[u] = todo[u]
      /\ todo[t] # <<>> /\ todo[t] \in Seq(Calls) /\ mem[Proc(t)] # None
      /\ pc[t] # "idle" /\ (Len(todo[t]) = 1 => pc'[t] = "idle")
  BY DEF RenameTmp, Proceed, Writing, IInv, TypeInv, TypeOK
<1>2. MainSaves'
  BY <1>1 DEF PasswordInv, MainSaves, Call
<1>3. Call(t) = todo[t][1] /\ 1 \in 1..Len(todo[t]) /\ Len(todo[t]) \in Nat
  BY <1>1, FirstOfSeq DEF Call
<1>4. <<"password", "on">> \in returned' =>
        <<"password", "on">> \in returned \/ SetsPassword(Call(t))
  BY DEF RenameTmp, Untouched, Settled, SetsPassword
<1>5. CASE t = Cli
  <2>1. mem'["panel"] = None
    BY <1>1, <1>5 DEF IInv, OneProcess
  <2> QED
    BY <2>1, NoPanel
<1>6. CASE t = Main
  <2>1. ~SetsPassword(Call(t)) /\ \A h \in Handlers : todo'[h] = todo[h]
    BY <1>1, <1>6, StoreAssumption DEF PasswordInv, MainSaves, SetsPassword
  <2> QED
    BY <1>1, <1>2, <1>4, <2>1 DEF PasswordInv, PasswordFirst, PasswordSet
<1>7. CASE t \in Handlers
  <2>1. mem[Proc(t)] = mem["panel"]
    BY <1>7, StoreAssumption
  <2>2. EndsOnboarding(Call(t)) => "completed" \in mem["panel"]
    BY <1>1, <2>1, WrittenIsInMemory
  <2>3. \A i \in 1..Len(todo'[t]) : i + 1 \in 1..Len(todo[t]) /\ todo'[t][i] = todo[t][i + 1]
    BY <1>1, <1>3, TailAt
  <2>4. Len(todo'[t]) = Len(todo[t]) - 1
    BY <1>1, TailAt
  <2>5. PasswordFirst'
    <3>1. ASSUME NEW i \in 1..Len(todo'[t])
          PROVE  /\ Careful(todo'[t][i])
                 /\ SetsPassword(todo'[t][i]) =>
                      \/ "completed" \in mem["panel"]
                      \/ i + 1 \in 1..Len(todo'[t]) /\ EndsOnboarding(todo'[t][i + 1])
      <4>1. i + 1 \in 1..Len(todo[t]) /\ todo'[t][i] = todo[t][i + 1]
        BY <2>3
      <4>2. /\ Careful(todo[t][i + 1])
            /\ SetsPassword(todo[t][i + 1]) =>
                 \/ "completed" \in mem["panel"]
                 \/ (i + 1) + 1 \in 1..Len(todo[t]) /\ EndsOnboarding(todo[t][(i + 1) + 1])
        BY <1>7, <4>1 DEF PasswordInv, PasswordFirst
      <4>3. (i + 1) + 1 \in 1..Len(todo[t]) => i + 1 \in 1..Len(todo'[t])
        BY <1>3, <2>4
      <4>4. i + 1 \in 1..Len(todo'[t]) => todo'[t][i + 1] = todo[t][(i + 1) + 1]
        BY <2>3
      <4> QED
        BY <4>1, <4>2, <4>3, <4>4
    <3> QED
      BY <1>1, <3>1 DEF PasswordInv, PasswordFirst
  <2>6. PasswordSet'
    <3> SUFFICES ASSUME <<"password", "on">> \in returned', "completed" \notin mem["panel"]
                 PROVE  \E h \in Handlers : todo'[h] # <<>> /\ EndsOnboarding(todo'[h][1])
      BY <1>1 DEF PasswordSet
    <3>1. CASE <<"password", "on">> \in returned
      <4>1. PICK h \in Handlers : todo[h] # <<>> /\ EndsOnboarding(todo[h][1])
        BY <1>1, <2>1, <3>1 DEF PasswordInv, PasswordSet
      <4>2. h # t
        BY <1>3, <2>2, <4>1
      <4> QED
        BY <1>1, <4>1, <4>2
    <3>2. CASE SetsPassword(Call(t))
      <4>1. 1 + 1 \in 1..Len(todo[t]) /\ EndsOnboarding(todo[t][1 + 1])
        BY <1>3, <1>7, <3>2 DEF PasswordInv, PasswordFirst
      <4>2. 1 \in 1..Len(todo'[t])
        BY <1>3, <2>4, <4>1
      <4>3. todo'[t] # <<>> /\ todo'[t][1] = todo[t][1 + 1]
        BY <2>3, <4>2
      <4> QED
        BY <1>7, <4>1, <4>3
    <3> QED
      BY <1>4, <3>1, <3>2
  <2> QED
    BY <1>2, <2>5, <2>6 DEF PasswordInv
<1> QED
  BY <1>5, <1>6, <1>7

LEMMA PasswordError ==
  ASSUME NEW t \in Threads, IInv, ReturnedInv, PasswordInv, TypeInv',
         RenameFails(t) \/ OpenFails(t) \/ WriteFails(t)
  PROVE  PasswordInv'
<1>1. Writing(t) /\ Fails(t)
  BY SafeError, RenameWorks DEF OpenFails, WriteFails, Writing
<1>2. /\ pc'[t] = "idle" /\ todo'[t] = <<>> /\ UNCHANGED returned
      /\ \A u \in Threads : u # t => pc'[u] = pc[u] /\ todo'[u] = todo[u]
      /\ todo[t] # <<>> /\ todo[t] \in Seq(Calls) /\ mem[Proc(t)] # None
  BY <1>1 DEF Fails, Writing, IInv, TypeInv, TypeOK
<1>3. Call(t) = todo[t][1]
  BY <1>2, FirstOfSeq DEF Call
<1>4. CASE t = Main
  <2>1. mem'["panel"] = None
    BY <1>1, <1>4 DEF Fails, IInv, TypeInv, TypeOK
  <2> QED
    BY <2>1, NoPanel
<1>5. CASE t = Cli
  <2>1. mem'["panel"] = None
    BY <1>1, <1>2, <1>5, StoreAssumption DEF Fails, IInv, OneProcess
  <2> QED
    BY <2>1, NoPanel
<1>6. CASE t \in Handlers
  <2>1. mem[Proc(t)] = mem["panel"] /\ UNCHANGED mem
    BY <1>1, <1>6, StoreAssumption DEF Fails
  <2>2. EndsOnboarding(Call(t)) => "completed" \in mem["panel"]
    BY <1>1, <2>1, WrittenIsInMemory
  <2>3. PasswordFirst'
    BY <1>2, <2>1 DEF PasswordInv, PasswordFirst
  <2>4. PasswordSet'
    BY <1>2, <1>3, <2>1, <2>2 DEF PasswordInv, PasswordSet
  <2>5. MainSaves'
    BY <1>2, <1>6, StoreAssumption DEF PasswordInv, MainSaves, Call
  <2> QED
    BY <2>3, <2>4, <2>5 DEF PasswordInv
<1> QED
  BY <1>4, <1>5, <1>6

LEMMA PasswordNext ==
  ASSUME AllPlans \subseteq Plans, Overlap = {},
         IInv, ReturnedInv, PasswordInv, [PanelNext]_panelVars
  PROVE  PasswordInv'
<1>1. TypeInv'
  BY PanelStep, TypeNext DEF IInv
<1>2. CASE StartProcess
  BY <1>1, <1>2, PasswordStart DEF StartProcess
<1>3. CASE EndProcess
  <2>1. PICK p \in Procs : Ends(p) /\ mem[p] # None
    BY <1>3 DEF EndProcess, CliExits, Crash
  <2> QED
    BY <1>1, <2>1, PasswordEnds
<1>4. CASE \E t \in Handlers : Handle(t) \/ RunInBackground(t)
  <2> PICK t \in Handlers : Handle(t) \/ RunInBackground(t)
    BY <1>4
  <2>1. PICK r \in Requests \cup Background :
          /\ BeginRequest(t, r.plan)
          /\ r.route = "/api/auth/password" => ~NeedsOnboarding(mem["panel"])
    <3>1. "/api/auth/password" \notin IsOnboardingAllowed
      BY DEF IsOnboardingAllowed
    <3>2. \A r \in Background : r.route # "/api/auth/password"
      BY DEF Background
    <3> QED
      BY <3>1, <3>2 DEF Handle, RunInBackground
  <2> QED
    BY <1>1, <2>1, PasswordBegin
<1>5. CASE \E t \in Threads : StepOf(t)
  <2> PICK t \in Threads : Step(t)
    BY <1>5 DEF StepOf
  <2> QED
    BY <1>1, PasswordChange, PasswordReplace, PasswordWrite, PasswordRename, PasswordError DEF Step
<1>6. CASE UNCHANGED vars
  BY <1>6 DEF vars, PasswordInv, PasswordFirst, PasswordSet, MainSaves, Call
<1> QED
  BY <1>2, <1>3, <1>4, <1>5, <1>6 DEF PanelNext, panelVars, Login, Logout

\* Whoever has set an own password is not sent to onboarding again, for any number of
\* requests at a time and any step at which one of them fails or the panel dies, as long as
\* nothing overlaps a restore or another process (routes.go 434, onboarding.go 217).
THEOREM OwnPasswordSettles ==
  ASSUME AllPlans \subseteq Plans, Overlap = {}
  PROVE  PanelSpec => []OwnPasswordEndsOnboarding
<1> DEFINE Inv == IInv /\ ReturnedInv /\ PasswordInv
<1>1. PanelInit => Inv
  BY SafeInit, ReturnedInit, StoreAssumption
    DEF PanelInit, Init, PasswordInv, PasswordFirst, PasswordSet, MainSaves
<1>2. Inv /\ [PanelNext]_panelVars => Inv'
  BY PanelStep, SafeNext, ReturnedNext, PasswordNext
<1>3. Inv => OwnPasswordEndsOnboarding
  <2> SUFFICES ASSUME Inv, <<"password", "on">> \in returned, Serving,
                      \A t \in Handlers : pc[t] = "idle"
               PROVE  {"password", "completed"} \subseteq mem["panel"]
    BY DEF OwnPasswordEndsOnboarding, NeedsOnboarding
  <2>1. \A t \in Handlers : todo[t] = <<>>
    BY DEF IInv, TypeInv, TypeOK
  <2>2. "completed" \in mem["panel"]
    BY <2>1 DEF Serving, PasswordInv, PasswordSet
  <2>3. "password" \in mem["panel"]
    BY DEF Serving, ReturnedInv, ReturnedSurvives, IInv, TypeInv, TypeOK
  <2> QED
    BY <2>2, <2>3
<1> QED
  BY <1>1, <1>2, <1>3, PTL DEF PanelSpec

=============================================================================
