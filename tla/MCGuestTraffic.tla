--------------------------- MODULE MCGuestTraffic ---------------------------
(* Instances of GuestTraffic for TLC; the other constants are in the .cfg. *)
EXTENDS GuestTraffic

\* Processes that run the scripts differ in nothing but their name.
RunnerSymmetry == Permutations(Runners)

\* The chain of one table, the one whose packets also need the policy route.
UdpOnly == <<"mangle">>

\* An unknown action, and the address of a server.
SomeTexts == Actions \cup Strategies \cup {"", "reject", "vpn"}

UserRule(action, domains, ips, enabled) ==
  [action |-> action, domains |-> domains, ips |-> ips, enabled |-> enabled]

\* Rules that overlap: on one site, on the private ranges, by domain and by address.
Overlapping ==
  << UserRule("block", {"site"}, {}, TRUE),
     UserRule("proxy", {"site"}, {"private", "site"}, TRUE),
     UserRule("block", {}, {"private"}, TRUE),
     UserRule("direct", {Blank}, {"site"}, FALSE) >>

\* What only a backup can hold: an empty rule and an unknown action.
Unchecked ==
  << UserRule("proxy", {Blank}, {}, TRUE),
     UserRule("reject", {"site"}, {}, TRUE),
     UserRule("proxy", {}, {"private"}, TRUE) >>

RoutingOf(order, default, private, rules) ==
  [strategy |-> "", order |-> order, default |-> default, private |-> private,
   hosts |-> private, rules |-> rules]

SomeRoutings ==
  { RoutingOf(<<"block", "reject", "block">>, "", TRUE, Overlapping),
    RoutingOf(<<"proxy">>, "block", FALSE, Unchecked) }

SomeSelections ==
  { [servers |-> <<>>, balance |-> FALSE],
    [servers |-> <<"vpn", "">>, balance |-> TRUE] }
=============================================================================
