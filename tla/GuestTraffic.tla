---------------------------- MODULE GuestTraffic ----------------------------
(***************************************************************************)
(* The way of a guest's packet: the tables decide whether it goes to xray, *)
(* the routing rules xray runs with decide what becomes of it there.       *)
(* Routing is saved by the routing page, the settings page and a restored  *)
(* backup, and built into the xray config by the next Apply; the rules     *)
(* scripts are started after it, by the refresh and by fail-open.          *)
(***************************************************************************)
EXTENDS GuestRules, Routing

CONSTANTS
  Texts,       \* what a text field of a body or a backup, or an address, can be
  Submitted,   \* routings a client or a backup can hold
  Selections,  \* what an Apply knows of the selection: [servers, balance]
  NoRules      \* no Apply has run yet

\* Routings as they are decoded.
Matchers == Destinations \cup {Blank}
RuleForms ==
  [action : Texts, domains : SUBSET Matchers, ips : SUBSET Matchers, enabled : BOOLEAN]
Routings ==
  [strategy : Texts, order : Seq(Texts), default : Texts, private : BOOLEAN,
   hosts : BOOLEAN, rules : Seq(RuleForms)]

ASSUME TrafficAssumption ==
  /\ Actions \cup Strategies \cup {""} \subseteq Texts
  /\ Submitted \subseteq Routings
  /\ Selections \subseteq [servers : Seq(Texts), balance : BOOLEAN]

VARIABLES
  saved,     \* the routing in panel.json
  running    \* what the last Apply built and from which routing

trafficVars == <<rulesVars, saved, running>>

DefaultRouting ==
  [strategy |-> "IPIfNonMatch", order |-> DefaultOrder, default |-> "proxy",
   private |-> TRUE, hosts |-> TRUE, rules |-> <<>>]

TrafficInit ==
  /\ RulesInit
  /\ saved = DefaultRouting
  /\ running = NoRules

\* UpdateRouting, and UpdateSettings with a routing that is not the empty
\* object, refuse what is not valid ...
UpdateRouting(r) ==
  /\ ValidateRouting(r)
  /\ saved' = Normalize(r)
  /\ UNCHANGED <<rulesVars, running>>

\* (Slip: a backup is taken as it is.)
RestoreAsIs(r) ==
  /\ saved' = r
  /\ UNCHANGED <<rulesVars, running>>

\* ... RestoreBackup only normalizes it.
RestoreRouting(r) ==
  /\ saved' = Normalize(r)
  /\ UNCHANGED <<rulesVars, running>>

\* Apply builds the config and restarts xray with it; it ends at once when no
\* server is selected.  Its script is started later, or not if the restart failed.
Apply(s) ==
  /\ s.servers # <<>>
  /\ running' = [routing |-> saved, rules |-> BuildRouting(saved, s)]
  /\ UNCHANGED <<rulesVars, saved>>

\* An Apply that has restarted xray, the cron refresh, a restart or the startup
\* script run the script that the last Apply wrote.
Refresh(p, resolved) ==
  /\ running # NoRules
  /\ Begin(p, RulesOf(resolved))
  /\ UNCHANGED <<saved, running>>

\* The fail-open service, the guard or the startup script let the guests go.
FailOpen(p) ==
  /\ Begin(p, Teardown)
  /\ UNCHANGED <<saved, running>>

ScriptRuns ==
  /\ Environment \/ \E p \in Runners : RulesStep(p)
  /\ UNCHANGED <<saved, running>>

TrafficNext ==
  \/ \E r \in Submitted : UpdateRouting(r) \/ RestoreRouting(r)
  \/ \E s \in Selections : Apply(s)
  \/ \E p \in Runners, resolved \in BOOLEAN : Refresh(p, resolved)
  \/ \E p \in Runners : FailOpen(p)
  \/ ScriptRuns

TrafficSpec == TrafficInit /\ [][TrafficNext]_trafficVars

-----------------------------------------------------------------------------
TypeOK ==
  /\ \A t \in Tables :
       /\ kernel[t].hooks \in 0..MaxHooks
       /\ kernel[t].bypass \subseteq Bypassed
       /\ ~kernel[t].made => kernel[t] = NoChain
  /\ kernel.policy \in BOOLEAN /\ kernel.route \in BOOLEAN
  /\ script \in [Runners -> Scripts \cup {NoScript}]
  /\ \A r \in Runners : todo[r] # <<>> <=> script[r] # NoScript
  /\ disturbed \subseteq Running
  /\ last \in Scripts \cup {NoScript} /\ clean \in BOOLEAN
  /\ saved \in {DefaultRouting} \cup {Normalize(r) : r \in Submitted}

\* What becomes of a guest's packet to dest over TCP ("nat") or UDP ("mangle").
Path(table, dest) ==
  IF ~Redirected(table, dest) THEN "direct"
  ELSE IF ~Arrives(table) THEN "lost"
  ELSE Decide(running.rules, dest)

(***************************************************************************)
(* A guest's packet for the router or the home network never leaves        *)
(* through a server and is never blocked by a rule, as long as one of the  *)
(* two bypasses stands: scripts that do not overlap, or "bypass private"   *)
(* in the routing xray runs with.  The second holds whatever the user's    *)
(* rules say and whatever overlapping scripts did to the tables.           *)
(***************************************************************************)
PrivateStaysLocal ==
  running # NoRules /\ (clean \/ running.routing.private)
    => \A t \in Tables : Path(t, "private") \in {"direct", "lost"}

(***************************************************************************)
(* The routing page shows the rules that the next Apply gives xray, in     *)
(* their order and with their outbounds, for every routing that passes     *)
(* validation.  (BuildRoutingPreview and BuildRouting are two copies of    *)
(* the same decisions.)                                                    *)
(***************************************************************************)
PreviewIsBuilt ==
  ValidateRouting(saved) => \A s \in Selections :
    s.servers # <<>> => BuildRoutingPreview(saved, s) = BuildRouting(saved, s)

(***************************************************************************)
(* Whatever order of actions a client sends or a backup holds, with        *)
(* actions left out, repeated or unknown, each enabled rule with a known   *)
(* action and a matcher is in the config xray gets, once and with the      *)
(* outbound of its action; and no other rule of the user is.               *)
(***************************************************************************)
NoRuleIsLost ==
  LET rules == saved.rules
      valid == {i \in DOMAIN rules : /\ rules[i].enabled /\ HasMatcher(rules[i])
                                     /\ rules[i].action \in Actions}
  IN \A s \in Selections :
       LET all == BuildRouting(saved, s)
           built == SubSeq(all, Len(SystemRules(saved, s)) + 1, Len(all) - 1)
       IN /\ Len(built) = Cardinality(valid)
          /\ \A i \in valid :
               Contains(built, Rule("any", rules[i].domains, rules[i].ips,
                                    Outbound(rules[i].action, s)))
=============================================================================
