------------------------------- MODULE Panel -------------------------------
(***************************************************************************)
(* What the panel's HTTP handlers and background goroutines do to the      *)
(* configuration: which store calls each request makes, in which order,    *)
(* and who may make it (session, then onboarding).  ConfigStore says what  *)
(* a store call is.                                                        *)
(***************************************************************************)
EXTENDS ConfigStore

CONSTANT Browsers

VARIABLE tokens  \* browsers with a session this panel process knows

\* Auth: the own password is set, or it is still "admin".
CheckPassword(typed) == (typed = "own") = ("password" \in mem["panel"])

\* A request carries a session, or a password.
Authenticated == tokens # {} \/ \E typed \in {"own", "admin"} : CheckPassword(typed)

NeedsOnboarding(c) == ~({"password", "completed"} \subseteq c)

-----------------------------------------------------------------------------
(* The requests: route, and the calls of its handler.  Reads are left out. *)

Choices == Settings \cap {"paths", "network", "routing", "servers"}

SetPassword(password) ==
  IF password = "own" THEN Update({"password"}, {}) ELSE Update({}, {"password"})

UpdateOnboardingPaths == Update({"paths"} \cap Choices, {})

UpdateOnboardingNetwork == Update({"network"} \cap Choices, {})

\* CompleteOnboarding: the optional parts, the password, then the end of onboarding.
CompleteOnboarding(paths, network) ==
  (IF paths THEN <<UpdateOnboardingPaths>> ELSE <<>>)
    \o (IF network THEN <<UpdateOnboardingNetwork>> ELSE <<>>)
    \o <<SetPassword("own"), Update({"completed"}, {})>>

SkipOnboarding == <<Update({"completed"}, {})>>

\* The settings page sends every section, as it loaded or edited it.
UpdateSettings(on) ==
  <<Update(on, (Choices \ {"servers"}) \ on)>>

UpdateRouting(on) == LET r == {"routing"} \cap Choices IN <<Update(r \cap on, r \ on)>>

RestoreBackup(c) == <<Replace(c), Save>>

\* Subscriptions, servers and selection: see module Selection.
EditServers(on) == <<Update(IF on THEN {"servers"} \cap Choices ELSE {},
                            IF on THEN {} ELSE {"servers"} \cap Choices)>>

\* What changes no choice: watchdog and scheduler note when they ran, and so do
\* apply, probe and dismiss.
Background == {[route |-> "none", plan |-> <<Update({}, {})>>]}

Requests ==
  [route : {"/api/onboarding/complete"}, plan : {CompleteOnboarding(b, b) : b \in BOOLEAN}]
  \cup [route : {"/api/onboarding/skip"}, plan : {SkipOnboarding}]
  \cup [route : {"/api/onboarding/paths", "/api/onboarding/download-xray"},
        plan : {<<UpdateOnboardingPaths>>}]
  \cup [route : {"/api/onboarding/network"}, plan : {<<UpdateOnboardingNetwork>>}]
  \cup [route : {"/api/onboarding/import", "/api/onboarding/selection", "/api/subscriptions",
                 "/api/nodes/manual", "/api/selection"}, plan : {EditServers(TRUE)}]
  \cup [route : {"/api/subscriptions/{id}", "/api/nodes/{id}"}, plan : {EditServers(FALSE)}]
  \cup [route : {"/api/settings"}, plan : {UpdateSettings(on) : on \in SUBSET (Choices \ {"servers"})}]
  \cup [route : {"/api/routing"}, plan : {UpdateRouting(on) : on \in {{}, Choices}}]
  \cup [route : {"/api/auth/password"}, plan : {<<SetPassword(p)>> : p \in {"own", "admin"}}]
  \cup [route : {"/api/restore"},
        plan : {RestoreBackup(c) : c \in {{}, {"password", "completed"}}}]

\* What is reachable before onboarding is done.
IsOnboardingAllowed ==
  {"/api/onboarding/complete", "/api/onboarding/skip", "/api/onboarding/paths",
   "/api/onboarding/download-xray", "/api/onboarding/import", "/api/onboarding/selection",
   "/api/onboarding/network", "/api/settings", "/api/routing", "/api/selection", "/api/nodes/manual",
   "/api/subscriptions", "/api/subscriptions/{id}"}

AllPlans == {r.plan : r \in Requests \cup Background}

\* panel -reset onboarding, panel -reset full, panel -post-update.
ResetOnboarding == <<Update({}, {"password", "completed", "servers"} \cap Settings),
                     SetPassword("admin")>>
ResetFull == <<[kind |-> "replace", add |-> {}, drop |-> Settings \ {"paths"}], Save>>
RunPostUpdate == <<Update({}, {}), Update({}, {})>>
AllCliPlans == {ResetOnboarding, ResetFull, RunPostUpdate}

-----------------------------------------------------------------------------
panelVars == <<vars, tokens>>

PanelInit == Init /\ tokens = {}

\* CheckPassword waits for an Update that is being written.
Login(b, typed) ==
  /\ Serving /\ mutex["panel"] = None
  /\ CheckPassword(typed)
  /\ tokens' = tokens \cup {b}
  /\ UNCHANGED vars

Logout(b) ==
  /\ Serving
  /\ tokens' = tokens \ {b}
  /\ UNCHANGED vars

\* The middleware: a session first, then onboarding, then the handler.
Handle(t) ==
  /\ Serving /\ mutex["panel"] = None /\ Authenticated
  /\ \E r \in Requests :
       /\ NeedsOnboarding(mem["panel"]) => r.route \in IsOnboardingAllowed
       /\ BeginRequest(t, r.plan)
  /\ UNCHANGED tokens

RunInBackground(t) == (\E r \in Background : BeginRequest(t, r.plan)) /\ UNCHANGED tokens

StepOf(t) == Step(t) /\ UNCHANGED tokens

StartProcess == (StartPanel \/ StartCli) /\ UNCHANGED tokens

\* Sessions are kept in memory only.
EndProcess ==
  /\ CliExits \/ \E p \in Procs : Crash(p)
  /\ tokens' = IF mem'["panel"] = None THEN {} ELSE tokens

PanelNext ==
  \/ StartProcess \/ EndProcess
  \/ \E b \in Browsers : Logout(b) \/ \E typed \in {"own", "admin"} : Login(b, typed)
  \/ \E t \in Handlers : Handle(t) \/ RunInBackground(t)
  \/ \E t \in Threads : StepOf(t)

PanelSpec == PanelInit /\ [][PanelNext]_panelVars

-----------------------------------------------------------------------------
(* Properties.                                                             *)

\* A user who has set an own password (onboarding.go 217, routes.go 434) is not sent to
\* onboarding again once nothing is in progress, whatever failed or crashed between the
\* steps of CompleteOnboarding; Load takes the password for the flag that was not saved.
OwnPasswordEndsOnboarding ==
  (/\ <<"password", "on">> \in returned
   /\ Serving
   /\ \A t \in Handlers : pc[t] = "idle") => ~NeedsOnboarding(mem["panel"])
=============================================================================
