----------------------------- MODULE GuestRules -----------------------------
(***************************************************************************)
(* The two generated shell scripts and the tables they work on: the rules  *)
(* script hooks the guest network into xray, the teardown script lets it   *)
(* go again (fail-open).  GuestStack takes each of them as one step; here  *)
(* they run command by command, started by any of the panel's Applies, the *)
(* fail-open service, the cron refresh, the cron guard and the startup     *)
(* script, with no lock between them.  Neither script stops at a command   *)
(* that fails.                                                             *)
(*                                                                         *)
(* Left out: the legacy chain XRAY_DNS, which both scripts only remove,    *)
(* the sysctl settings, and ports and marks.  The eight private ranges are *)
(* one destination, "private"; the addresses of the active servers are     *)
(* "vpn"; everything else is one of Sites.                                 *)
(***************************************************************************)
EXTENDS Naturals, Sequences

CONSTANTS
  Runners,    \* processes that run the scripts
  Sites,      \* other destinations
  TableOrder, \* <<"nat", "mangle">>, or one of them: none of the properties
              \* relates the two, and each has its own commands
  MaxHooks,   \* bound: jumps to one chain that PREROUTING collects
  Faults      \* "cut": a script is killed; "lock": the xtables lock is taken;
              \* "firmware": the firmware reloads its firewall; "reboot"

ASSUME RulesAssumption ==
  /\ {"private", "vpn"} \cap Sites = {}
  /\ TableOrder \in {<<"nat", "mangle">>, <<"nat">>, <<"mangle">>}
  /\ MaxHooks \in Nat \ {0}
  /\ Faults \subseteq {"cut", "lock", "firmware", "reboot"}

VARIABLES
  kernel,     \* the tables
  todo,       \* per runner: the commands its script still has to run
  script,     \* per runner: which script it runs, with what it resolved
  disturbed,  \* runners whose script overlapped another one or lost a command
  last,       \* the script that ended undisturbed with nothing started since
  clean       \* no overlap or lost command since the last undisturbed script

rulesVars == <<kernel, todo, script, disturbed, last, clean>>

Tables == {TableOrder[i] : i \in DOMAIN TableOrder}
Bypassed == {"private", "vpn"}
Destinations == Bypassed \cup Sites

(***************************************************************************)
(* One chain of ours per table: XRAY_GUEST_TCP in nat, XRAY_GUEST_UDP in   *)
(* mangle.  A chain decides at its first match, so an entry after the      *)
(* REDIRECT or a second one for the same destination never matches: the    *)
(* chain is the set of destinations it returns before its REDIRECT.        *)
(***************************************************************************)
NoChain == [made |-> FALSE, bypass |-> {}, redirect |-> FALSE, hooks |-> 0]

Booted == [nat |-> NoChain, mangle |-> NoChain, policy |-> FALSE, route |-> FALSE]

AppendEntry(chain, entry) ==
  IF ~chain.made \/ chain.redirect THEN chain
  ELSE IF entry = "redirect" THEN [chain EXCEPT !.redirect = TRUE]
  ELSE [chain EXCEPT !.bypass = @ \cup {entry}]

Flush(chain) == [chain EXCEPT !.bypass = {}, !.redirect = FALSE]

\* What iptables does to a chain.  -X refuses a chain in use; a command on a
\* chain that does not exist fails; -D takes away one jump of several.
OnChain(chain, command) ==
  CASE command = "N" -> [chain EXCEPT !.made = TRUE]
    [] command = "F" -> Flush(chain)
    [] command = "X" -> IF chain.hooks = 0 /\ Flush(chain) = chain THEN NoChain ELSE chain
    [] command = "hook" -> IF chain.made THEN [chain EXCEPT !.hooks = @ + 1] ELSE chain
    [] command = "unhook" -> IF chain.hooks = 0 THEN chain ELSE [chain EXCEPT !.hooks = @ - 1]
    [] OTHER -> AppendEntry(chain, command)

\* What one command of a script does; "rule" and "route" are the policy
\* routing that brings marked UDP packets to the TPROXY socket.
Exec(k, c) ==
  CASE c[1] = "rule"  -> [k EXCEPT !.policy = c[2] = "add"]
    [] c[1] = "route" -> [k EXCEPT !.route = c[2] = "add"]
    [] OTHER -> [k EXCEPT ![c[1]] = OnChain(@, c[2])]

-----------------------------------------------------------------------------
(* The scripts.                                                            *)

\* (Slip: the chain is hooked and redirects before the bypasses are in it.)
RedirectFirst(table, resolved) ==
  << <<table, "N">>, <<table, "F">>, <<table, "redirect">>, <<table, "private">> >>
  \o (IF resolved THEN << <<table, "vpn">> >> ELSE <<>>)
  \o << <<table, "unhook">>, <<table, "hook">> >>

\* (Slip: the chain is not emptied first.)
NoFlush(table, resolved) ==
  << <<table, "N">>, <<table, "private">> >>
  \o (IF resolved THEN << <<table, "vpn">> >> ELSE <<>>)
  \o << <<table, "redirect">>, <<table, "unhook">>, <<table, "hook">> >>

\* writeChainRules: an address of a server is known when the script was
\* generated or is looked up when it runs; one that is neither is left out.
ChainRules(table, resolved) ==
  << <<table, "N">>, <<table, "F">>, <<table, "private">> >>
  \o (IF resolved THEN << <<table, "vpn">> >> ELSE <<>>)
  \o << <<table, "redirect">>, <<table, "unhook">>, <<table, "hook">> >>

\* One part of a script per table, in order.
PerTable(Part(_)) ==
  IF Len(TableOrder) = 1 THEN Part(TableOrder[1]) ELSE Part(TableOrder[1]) \o Part(TableOrder[2])

RulesScript(resolved) ==
  << <<"rule", "del">>, <<"rule", "add">>, <<"route", "flush">>, <<"route", "add">> >>
  \o PerTable(LAMBDA table : ChainRules(table, resolved))

\* (Slip: it only unhooks the chains, once.)
UnhookOnly ==
  PerTable(LAMBDA table : << <<table, "unhook">>, <<table, "X">> >>)
  \o << <<"rule", "del">>, <<"route", "flush">> >>

TeardownScript ==
  PerTable(LAMBDA table : << <<table, "unhook">>, <<table, "F">>, <<table, "X">> >>)
  \o << <<"rule", "del">>, <<"route", "flush">> >>

Teardown == [name |-> "teardown", resolved |-> FALSE]
RulesOf(resolved) == [name |-> "rules", resolved |-> resolved]
NoScript == [name |-> "none", resolved |-> FALSE]

Commands(s) == IF s.name = "rules" THEN RulesScript(s.resolved) ELSE TeardownScript

-----------------------------------------------------------------------------
(* What becomes of a guest's packet.                                       *)

\* The packet is sent to xray's port.
Redirected(table, dest) ==
  kernel[table].hooks > 0 /\ kernel[table].redirect /\ dest \notin kernel[table].bypass

\* A redirected UDP packet arrives only by the policy route.
Arrives(table) == table = "nat" \/ (kernel.policy /\ kernel.route)

-----------------------------------------------------------------------------
Running == {r \in Runners : todo[r] # <<>>}

RulesInit ==
  /\ kernel = Booted
  /\ todo = [r \in Runners |-> <<>>]
  /\ script = [r \in Runners |-> NoScript]
  /\ disturbed = {} /\ last = NoScript /\ clean = TRUE

\* A process starts one of the scripts.  A second one at a time disturbs both.
Begin(r, s) ==
  /\ todo[r] = <<>>
  /\ todo' = [todo EXCEPT ![r] = Commands(s)]
  /\ script' = [script EXCEPT ![r] = s]
  /\ disturbed' = IF Running = {} THEN {} ELSE Running \cup {r}
  /\ clean' = (clean /\ Running = {})
  /\ last' = NoScript
  /\ UNCHANGED kernel

\* The script ends: undisturbed it leaves the tables as it wrote them.
Done(r) ==
  /\ script' = [script EXCEPT ![r] = NoScript]
  /\ last' = IF r \in disturbed THEN last ELSE script[r]
  /\ clean' = (clean \/ r \notin disturbed)
  /\ disturbed' = disturbed \ {r}

Advance(r) ==
  /\ todo' = [todo EXCEPT ![r] = Tail(@)]
  /\ IF Len(todo[r]) = 1 THEN Done(r) ELSE UNCHANGED <<script, disturbed, last, clean>>

\* The next command of the script runs.
Command(r) ==
  /\ todo[r] # <<>>
  /\ kernel' = Exec(kernel, Head(todo[r]))
  /\ \A t \in Tables : kernel'[t].hooks <= MaxHooks
  /\ Advance(r)

\* An iptables command finds the xtables lock taken and gives up; the script
\* goes on with the next one.
LosesCommand(r) ==
  /\ "lock" \in Faults /\ todo[r] # <<>> /\ Head(todo[r])[1] \in Tables
  /\ todo' = [todo EXCEPT ![r] = Tail(@)]
  /\ script' = [script EXCEPT ![r] = IF Len(todo[r]) = 1 THEN NoScript ELSE @]
  /\ disturbed' = IF Len(todo[r]) = 1 THEN disturbed \ {r} ELSE disturbed \cup {r}
  /\ clean' = FALSE
  /\ UNCHANGED <<kernel, last>>

\* The script is killed: the context of a fail-open call is cancelled, or the
\* process that runs it dies.
Cut(r) ==
  /\ "cut" \in Faults /\ todo[r] # <<>>
  /\ todo' = [todo EXCEPT ![r] = <<>>]
  /\ script' = [script EXCEPT ![r] = NoScript]
  /\ disturbed' = disturbed \ {r}
  /\ UNCHANGED <<kernel, last, clean>>

\* The firmware rebuilds its firewall: the jumps it does not know are gone,
\* with or without the chains.
FirmwareReloads ==
  /\ "firmware" \in Faults
  /\ \/ kernel' = [kernel EXCEPT !.nat.hooks = 0, !.mangle.hooks = 0]
     \/ kernel' = [kernel EXCEPT !.nat = NoChain, !.mangle = NoChain]
  /\ last' = IF last.name = "rules" THEN NoScript ELSE last
  /\ disturbed' = Running
  /\ UNCHANGED <<todo, script, clean>>

Reboot ==
  /\ "reboot" \in Faults
  /\ kernel' = Booted
  /\ todo' = [r \in Runners |-> <<>>]
  /\ script' = [r \in Runners |-> NoScript]
  /\ disturbed' = {} /\ last' = NoScript /\ clean' = TRUE

Scripts == {Teardown} \cup {RulesOf(b) : b \in BOOLEAN}

RulesStep(r) ==
  \/ Command(r)
  \/ LosesCommand(r)
  \/ Cut(r)

Environment == FirmwareReloads \/ Reboot

-----------------------------------------------------------------------------
(***************************************************************************)
(* A teardown that ended undisturbed has freed the guests, whatever the    *)
(* tables held when it began: jumps left twice by overlapping rules        *)
(* scripts, chains half written by one that was killed.  (-D takes away    *)
(* one jump; the flush makes the others harmless.)                         *)
(***************************************************************************)
TeardownFrees ==
  last = Teardown => \A t \in Tables, d \in Destinations : ~Redirected(t, d)

(***************************************************************************)
(* A rules script that ended undisturbed has repaired the tables, whatever *)
(* they held: every site goes to xray, TCP and UDP, and arrives there; the *)
(* private ranges and the servers it could resolve do not.  (What the cron *)
(* refresh is for.)                                                        *)
(***************************************************************************)
RulesRepair ==
  last.name = "rules" => \A t \in Tables :
    /\ Arrives(t)
    /\ \A d \in Destinations : Redirected(t, d) <=>
         d \in Sites \/ (d = "vpn" /\ ~last.resolved)

(***************************************************************************)
(* While scripts run one at a time, no packet for the router or the home   *)
(* network is redirected, not even between two commands or after a script  *)
(* was killed: the REDIRECT is appended after the bypasses.                *)
(***************************************************************************)
NoHalfRedirect ==
  clean => \A t \in Tables : ~Redirected(t, "private")
=============================================================================
