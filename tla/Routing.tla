------------------------------- MODULE Routing ------------------------------
(***************************************************************************)
(* The user's routing rules and what they become: Normalize and            *)
(* ValidateRouting when they are saved, BuildRouting in the xray config,   *)
(* BuildRoutingPreview on the routing page.  A matcher (a domain, a geosite,*)
(* a range) is the destination it covers; Blank is an empty line of the    *)
(* form.  Names, ids, the case of letters and the domain strategy's effect *)
(* on lookups are left out.  How xray reads the rules is Decide.           *)
(***************************************************************************)
EXTENDS Sublists

CONSTANT Blank

Actions == {"direct", "proxy", "block"}
DefaultOrder == <<"direct", "proxy", "block">>
Strategies == {"AsIs", "IPIfNonMatch", "IpOnDemand"}

-----------------------------------------------------------------------------
(* config/routing.go                                                       *)

\* The first occurrence of each action in a list.
FirstOnes(list) ==
  LET first == {i \in DOMAIN list : list[i] \in Actions /\ \A j \in 1..(i - 1) : list[j] # list[i]}
      at == Kept([i \in DOMAIN list |-> i], first)
  IN [n \in DOMAIN at |-> list[at[n]]]

\* (Slip: an action the client left out stays out.)
OnlyOrdered(order) == IF order = <<>> THEN DefaultOrder ELSE FirstOnes(order)

\* The known actions the client sent, once each, then those it left out.
NormalizeRuleOrder(order) == FirstOnes(order \o DefaultOrder)

\* Empty lines of the form are dropped.
Trimmed(rule) == [rule EXCEPT !.domains = @ \ {Blank}, !.ips = @ \ {Blank}]

Normalize(r) ==
  [r EXCEPT !.strategy = IF @ = "" THEN "IPIfNonMatch" ELSE @,
            !.default = IF @ = "" THEN "proxy" ELSE @,
            !.order = NormalizeRuleOrder(@),
            !.rules = [i \in DOMAIN @ |-> Trimmed(@[i])]]

HasMatcher(rule) == rule.domains \cup rule.ips # {}

ValidateRouting(r) ==
  LET n == Normalize(r) IN
  /\ n.strategy \in Strategies
  /\ n.default \in Actions
  /\ \A i \in DOMAIN n.rules :
       n.rules[i].enabled => n.rules[i].action \in Actions /\ HasMatcher(n.rules[i])

-----------------------------------------------------------------------------
(* What one Apply knows of the selection: the addresses of the active      *)
(* servers, in order (one may be empty), and whether several are balanced. *)

UseBalancer(s) == s.balance /\ Len(s.servers) > 1

\* applyAction and outboundLabel.
Outbound(action, s) ==
  IF action \in {"direct", "block"} THEN action
  ELSE IF UseBalancer(s) THEN "balancer"
  ELSE IF s.servers # <<>> THEN "server"
  ELSE "direct"

\* A rule of xray: empty conditions match everything.
Rule(inbound, domains, ips, outbound) ==
  [inbound |-> inbound, domains |-> domains, ips |-> ips, outbound |-> outbound]

ApiRule == Rule("api", {}, {}, "api")
PrivateRule == Rule("any", {}, {"private"}, "direct")
HostRules(s) ==
  LET named == Kept(s.servers, ToSet(s.servers) \ {""}) IN
  [i \in DOMAIN named |-> Rule("any", {named[i]}, {}, "direct")]

\* The enabled rules, one action after the other in the user's order.
Ordered(r) ==
  FlattenSeq([i \in DOMAIN r.order |->
    Kept(r.rules, {rule \in ToSet(r.rules) : rule.enabled /\ rule.action = r.order[i]})])

Matching(rules) == Kept(rules, {rule \in ToSet(rules) : HasMatcher(rule)})

UserRules(rules, s) ==
  [i \in DOMAIN rules |->
    Rule("any", rules[i].domains, rules[i].ips, Outbound(rules[i].action, s))]

SystemRules(r, s) ==
  <<ApiRule>> \o (IF r.private THEN <<PrivateRule>> ELSE <<>>)
              \o (IF r.hosts THEN HostRules(s) ELSE <<>>)

\* (Slip: the user's rules come before the private bypass.)
UserRulesFirst(routing, s) ==
  LET r == Normalize(routing)
  IN <<ApiRule>> \o UserRules(Matching(Ordered(r)), s) \o Tail(SystemRules(r, s))
       \o <<Rule("guest", {}, {}, Outbound(r.default, s))>>

BuildRouting(routing, s) ==
  LET r == Normalize(routing)
  IN SystemRules(r, s) \o UserRules(Matching(Ordered(r)), s)
       \o <<Rule("guest", {}, {}, Outbound(r.default, s))>>

\* (Slip: rules shown as they were entered.)
PreviewAsEntered(routing, s) ==
  LET r == Normalize(routing)
  IN SystemRules(r, s) \o UserRules(Kept(r.rules, {rule \in ToSet(r.rules) : rule.enabled}), s)
       \o <<Rule("guest", {}, {}, Outbound(r.default, s))>>

\* The page shows an enabled rule without matchers as well.
BuildRoutingPreview(routing, s) ==
  LET r == Normalize(routing)
  IN SystemRules(r, s) \o UserRules(Ordered(r), s)
       \o <<Rule("guest", {}, {}, Outbound(r.default, s))>>

-----------------------------------------------------------------------------
(* xray: the first rule whose conditions all hold decides.                 *)

Matches(rule, dest) ==
  /\ rule.inbound # "api"
  /\ rule.domains = {} \/ dest \in rule.domains
  /\ rule.ips = {} \/ dest \in rule.ips

Decide(rules, dest) ==
  rules[SelectInSeq(rules, LAMBDA rule : Matches(rule, dest))].outbound
=============================================================================
