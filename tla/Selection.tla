------------------------------ MODULE Selection ------------------------------
(***************************************************************************)
(* The server list of panel.json and what is selected from it.             *)
(*                                                                         *)
(* Subscriptions are fetched over the network outside the store's lock and *)
(* merged in one Update; meanwhile other requests, the scheduler and the   *)
(* watchdog add, delete, select and refresh.  A refresh removes the        *)
(* subscription's servers and adds the fetched ones, which carry new IDs,  *)
(* so a selection made of IDs has to be repaired each time: by             *)
(* reselectAfterSubscriptionUpdate, and by sanitizeSelection in every      *)
(* Apply.                                                                  *)
(*                                                                         *)
(* A server is what its hash identifies (a Link).  A new ID is one that    *)
(* nothing refers to: TLC draws them from a finite set, the proofs from    *)
(* any set that does not run out.                                          *)
(* Operators commented "(Slip: ...)" are not part of Next; each is the     *)
(* definition that follows it with a mistake a maintainer could make.      *)
(***************************************************************************)
EXTENDS Sublists

CONSTANTS
  Callers,     \* HTTP handlers, the scheduler, the watchdog
  Subs,        \* IDs of subscriptions
  Manual,      \* the owner of a server that was added by hand
  Links,       \* servers, as far as NodeHash tells them apart
  Vless,       \* those that speak VLESS
  Lists,       \* what a subscription URL may return
  Ids,         \* node IDs, numbers
  Strategy,    \* subscriptions_policy.reselect_strategy
  AutoApply,   \* subscriptions_policy.auto_apply_on_change
  Modes,       \* selection modes the user chooses
  Ops,         \* requests that are made
  Faults       \* "fetch" and "apply" may fail, "panel": it may crash, "feed": lists change

ASSUME SelectionAssumption ==
  /\ Manual \notin Subs
  /\ Vless \subseteq Links
  /\ \A list \in Lists : list \in Seq(Links)
  /\ Ids \subseteq Nat
  /\ Strategy \in {"keep", "first", "best_ping"}
  /\ AutoApply \in BOOLEAN
  /\ Modes \subseteq {"single", "multi"}
  /\ Ops \subseteq {"refresh", "refreshAll", "add", "deleteSub", "deleteNode", "manual",
                    "select", "apply"}
  /\ Faults \subseteq {"fetch", "apply", "panel", "feed"}

VARIABLES
  subs,              \* the subscriptions, in order
  nodes,             \* the servers, in order: [id, link, sub]
  mode, active, fallback,  \* the selection: IDs, in order
  running,           \* the servers xray runs with, none while it is down
  config,            \* the servers in its config file
  generated,         \* per caller: those in the config its Apply is about to write
  overtaken,         \* ghost: callers that are about to write a config while a newer one exists
  lagging,           \* ghost: the newest config was not installed, or replaced by an older one
  feed,              \* what each URL returns now
  pc,                \* per caller: next step
  todo,              \* per caller: subscriptions it still has to refresh
  old,               \* per caller: links of the subscription before the fetch
  got,               \* per caller: the fetched list
  dirty              \* per caller: its refresh calls for an Apply

selection == <<mode, active, fallback>>
xray      == <<running, config, generated, overtaken, lagging>>
local     == <<pc, todo, old, got, dirty>>
vars      == <<subs, nodes, mode, active, fallback, running, config, generated, overtaken,
               lagging, feed, pc, todo, old, got, dirty>>

\* A fresh installation.
Init ==
  /\ subs = <<>> /\ nodes = <<>>
  /\ mode = "single" /\ active = <<>> /\ fallback = <<>>
  /\ running = {} /\ config = {} /\ overtaken = {} /\ lagging = FALSE
  /\ generated = [c \in Callers |-> {}]
  /\ feed \in [Subs -> Lists]
  /\ pc = [c \in Callers |-> "idle"]
  /\ todo = [c \in Callers |-> <<>>]
  /\ old = [c \in Callers |-> {}]
  /\ got = [c \in Callers |-> <<>>]
  /\ dirty = [c \in Callers |-> FALSE]

-----------------------------------------------------------------------------
(* The server list.                                                        *)

IdsOf(ns)      == [i \in DOMAIN ns |-> ns[i].id]
LinksOf(ns)    == {n.link : n \in ToSet(ns)}
Owned(ns, s)   == Kept(ns, {n \in ToSet(ns) : n.sub = s})
Without(ns, s) == Kept(ns, {n \in ToSet(ns) : n.sub # s})

\* The servers with these IDs
LinksUnder(ids) == {n.link : n \in {m \in ToSet(nodes) : m.id \in ids}}

\* IDs nothing refers to, and the i-th of them.
Unused == Ids \ (ToSet(IdsOf(nodes)) \cup ToSet(active) \cup ToSet(fallback))

Fresh(i) == CHOOSE n \in Unused : Cardinality({m \in Unused : m < n}) = i - 1

\* A listed server that is there already keeps its place and its ID but changes hands.
Handed(ns, list, s) ==
  [i \in DOMAIN ns |-> IF ns[i].link \in ToSet(list) THEN [ns[i] EXCEPT !.sub = s] ELSE ns[i]]

Added(new, s) == [i \in DOMAIN new |-> [id |-> Fresh(i), link |-> new[i], sub |-> s]]

\* (Slip: a server that is listed again gets the new ID.)
MergeNewIds(ns, list, s) ==
  Kept(ns, {n \in ToSet(ns) : n.link \notin ToSet(list)}) \o Added(Once(list), s)

\* (Slip: a server that the list has twice is added twice.)
MergeTwice(ns, list, s) ==
  Handed(ns, list, s) \o Added(Kept(list, Links \ LinksOf(ns)), s)

\* subscription.MergeNodes: the servers that are not there yet follow, each once.
Merge(ns, list, s) ==
  Handed(ns, list, s) \o Added(Kept(Once(list), Links \ LinksOf(ns)), s)

-----------------------------------------------------------------------------
(* The selection.                                                          *)

First(ids) == IF ids = <<>> THEN <<>> ELSE <<Head(ids)>>

Live(ids, ns) == Kept(ids, ToSet(IdsOf(ns)))

PreferVless(ns) ==
  LET vless == Kept(ns, {n \in ToSet(ns) : n.link \in Vless})
  IN  IF vless # <<>> THEN vless ELSE ns

\* (Slip: the fallback order is not filtered.)
SanitizedActiveOnly(ns, act, fb) ==
  LET a == IF Live(act, ns) # <<>> THEN Live(act, ns) ELSE First(IdsOf(PreferVless(ns)))
  IN  [active |-> a, fallback |-> IF fb # <<>> THEN fb ELSE a]

\* sanitizeSelection
Sanitized(ns, act, fb) ==
  LET a == IF Live(act, ns) # <<>> THEN Live(act, ns) ELSE First(IdsOf(PreferVless(ns)))
  IN  [active |-> a, fallback |-> IF Live(fb, ns) # <<>> THEN Live(fb, ns) ELSE a]

\* xray.selectedNodes: the IDs that become outbounds, none when it fails.
Selected(ns, act, fb) ==
  LET order  == IF fb # <<>> THEN fb ELSE act
      chosen == ToSet(order) \cap ToSet(act)
  IN  IF chosen \subseteq ToSet(IdsOf(ns)) THEN chosen ELSE {}

\* pickNodeIDsByStrategy: which server answers fastest is up to the network.
Picks(ns) ==
  LET ids == IdsOf(PreferVless(ns))
  IN  IF Strategy = "best_ping" THEN ToSet(ids) ELSE ToSet(First(ids))

(***************************************************************************)
(* reselectAfterSubscriptionUpdate, on the merged list ns.  Changed is its *)
(* result.                                                                 *)
(***************************************************************************)
Reselect(ns, s, before, changed) ==
  LET valid       == Live(active, ns)
      stale       == valid # active
      listChanged == LinksOf(Owned(ns, s)) # before
      own         == Owned(ns, s)
      keeps       == Strategy = "keep" /\ valid # <<>>
      settled     == Strategy # "keep" /\ ~listChanged /\ ~stale
  IN  \/ /\ keeps \/ settled
         /\ active' = valid
         /\ fallback' = IF keeps /\ fallback = <<>> THEN valid ELSE fallback
         /\ changed = FALSE
      \/ /\ ~keeps /\ ~settled /\ own = <<>>
         /\ active' = Sanitized(ns, active, fallback).active
         /\ fallback' = Sanitized(ns, active, fallback).fallback
         /\ changed = (active' # active)
      \/ /\ ~keeps /\ ~settled
         /\ \E id \in Picks(own) :
              /\ active' = <<id>>
              /\ fallback' = IF fallback = <<>> \/ listChanged \/ stale THEN <<id>> ELSE fallback
              /\ changed = (active' # active)

-----------------------------------------------------------------------------
(* A caller's request.                                                     *)

At(c, step) == pc[c] = step

Goto(c, step) == pc' = [pc EXCEPT ![c] = step]

\* A request that refreshes the subscriptions in list, one after the other.
Begin(c, list) ==
  /\ Goto(c, "next")
  /\ todo' = [todo EXCEPT ![c] = list]
  /\ UNCHANGED <<old, got, dirty, subs, nodes, selection, xray, feed>>

\* RefreshSubscriptionManaged
BeginRefresh(c) ==
  /\ "refresh" \in Ops /\ At(c, "idle")
  /\ \E s \in ToSet(subs) : Begin(c, <<s>>)

\* RefreshAllSubscriptionsManaged, from the scheduler or the watchdog
BeginRefreshAll(c) ==
  /\ "refreshAll" \in Ops /\ At(c, "idle")
  /\ subs # <<>>
  /\ Begin(c, subs)

\* refreshSubscriptionStore reads the store before it fetches.  A subscription that
\* is gone is an error, and the next one is tried.
Snapshot(c) ==
  /\ At(c, "next") /\ todo[c] # <<>>
  /\ IF Head(todo[c]) \in ToSet(subs)
     THEN /\ old' = [old EXCEPT ![c] = LinksOf(Owned(nodes, Head(todo[c])))]
          /\ Goto(c, "fetch")
          /\ UNCHANGED todo
     ELSE /\ todo' = [todo EXCEPT ![c] = Tail(todo[c])]
          /\ UNCHANGED <<pc, old>>
  /\ UNCHANGED <<got, dirty, subs, nodes, selection, xray, feed>>

Fetch(c) ==
  /\ At(c, "fetch")
  /\ got' = [got EXCEPT ![c] = feed[Head(todo[c])]]
  /\ Goto(c, "store")
  /\ UNCHANGED <<todo, old, dirty, subs, nodes, selection, xray, feed>>

FetchFails(c) ==
  /\ "fetch" \in Faults /\ At(c, "fetch")
  /\ todo' = [todo EXCEPT ![c] = Tail(todo[c])]
  /\ old' = [old EXCEPT ![c] = {}]
  /\ Goto(c, "next")
  /\ UNCHANGED <<got, dirty, subs, nodes, selection, xray, feed>>

\* The list the Update of a refresh leaves: what the caller fetched replaces what
\* the subscription owns now.  It is stored whether or not the subscription is there.
Refreshed(c) == Merge(Without(nodes, Head(todo[c])), got[c], Head(todo[c]))

\* (Slip: the selection is not repaired.)
StoreOnly(c) ==
  /\ At(c, "store")
  /\ nodes' = Refreshed(c)
  /\ todo' = [todo EXCEPT ![c] = Tail(todo[c])]
  /\ old' = [old EXCEPT ![c] = {}]
  /\ got' = [got EXCEPT ![c] = <<>>]
  /\ Goto(c, "next")
  /\ UNCHANGED <<dirty, subs, selection, xray, feed>>

\* (Slip: an Apply only for a list that changed since the snapshot.)
StoreListOnly(c) ==
  /\ At(c, "store")
  /\ nodes' = Refreshed(c)
  /\ \E changed \in BOOLEAN : Reselect(nodes', Head(todo[c]), old[c], changed)
  /\ dirty' = [dirty EXCEPT ![c] = @ \/ LinksOf(Owned(nodes', Head(todo[c]))) # old[c]]
  /\ todo' = [todo EXCEPT ![c] = Tail(todo[c])]
  /\ old' = [old EXCEPT ![c] = {}]
  /\ got' = [got EXCEPT ![c] = <<>>]
  /\ Goto(c, "next")
  /\ UNCHANGED <<subs, mode, xray, feed>>

\* The Update of refreshSubscriptionStore
Store(c) ==
  /\ At(c, "store")
  /\ nodes' = Refreshed(c)
  /\ \E changed \in BOOLEAN :
       /\ Reselect(nodes', Head(todo[c]), old[c], changed)
       /\ dirty' = [dirty EXCEPT ![c] =
                      @ \/ changed \/ LinksOf(Owned(nodes', Head(todo[c]))) # old[c]]
  /\ todo' = [todo EXCEPT ![c] = Tail(todo[c])]
  /\ old' = [old EXCEPT ![c] = {}]
  /\ got' = [got EXCEPT ![c] = <<>>]
  /\ Goto(c, "next")
  /\ UNCHANGED <<subs, mode, xray, feed>>

\* maybeApplyAfterRefresh, and its counterpart for a batch
EndRefresh(c) ==
  /\ At(c, "next") /\ todo[c] = <<>>
  /\ Goto(c, IF dirty[c] /\ AutoApply THEN "apply" ELSE "idle")
  /\ dirty' = [dirty EXCEPT ![c] = FALSE]
  /\ UNCHANGED <<todo, old, got, subs, nodes, selection, xray, feed>>

-----------------------------------------------------------------------------
(* ApplyService.Apply, as far as it reads the selection.                   *)

BeginApply(c) ==
  /\ "apply" \in Ops /\ At(c, "idle")
  /\ Goto(c, "apply")
  /\ UNCHANGED <<todo, old, got, dirty, subs, nodes, selection, xray, feed>>

Sanitize(c) ==
  /\ At(c, "apply")
  /\ active' = Sanitized(nodes, active, fallback).active
  /\ fallback' = Sanitized(nodes, active, fallback).fallback
  /\ Goto(c, "generate")
  /\ UNCHANGED <<todo, old, got, dirty, subs, nodes, mode, xray, feed>>

\* The second read of the store.  An Apply that finds no node changes nothing.
Generate(c) ==
  /\ At(c, "generate")
  /\ LET ids == Selected(nodes, active, fallback)
     IN  IF ids # {}
         THEN /\ generated' = [generated EXCEPT ![c] = LinksUnder(ids)]
              /\ overtaken' = {d \in Callers \ {c} : At(d, "install")}
              /\ Goto(c, "install")
         ELSE Goto(c, "idle") /\ UNCHANGED <<generated, overtaken>>
  /\ UNCHANGED <<todo, old, got, dirty, subs, nodes, selection, running, config, lagging, feed>>

\* xray accepts the config, and it is written: nothing keeps two Applies in order.
Install(c) ==
  /\ At(c, "install")
  /\ config' = generated[c]
  /\ generated' = [generated EXCEPT ![c] = {}]
  /\ lagging' = (c \in overtaken)
  /\ overtaken' = overtaken \ {c}
  /\ Goto(c, "restart")
  /\ UNCHANGED <<todo, old, got, dirty, subs, nodes, selection, running, feed>>

\* restartStack, as far as it goes well (all of it is in GuestStack)
Restart(c) ==
  /\ At(c, "restart")
  /\ running' = config
  /\ Goto(c, "idle")
  /\ UNCHANGED <<todo, old, got, dirty, subs, nodes, selection, config, generated, overtaken,
                 lagging, feed>>

\* An error on the way to the restart, or in it.
ApplyFails(c) ==
  /\ "apply" \in Faults /\ pc[c] \in {"apply", "generate", "install", "restart"}
  /\ generated' = [generated EXCEPT ![c] = {}]
  /\ lagging' = (lagging \/ c \notin overtaken)
  /\ overtaken' = IF c \in overtaken \/ At(c, "restart") THEN overtaken \ {c}
                  ELSE {d \in Callers \ {c} : At(d, "install")}
  /\ \/ UNCHANGED running
     \/ At(c, "restart") /\ running' = {}
  /\ Goto(c, "idle")
  /\ UNCHANGED <<todo, old, got, dirty, subs, nodes, selection, config, feed>>

-----------------------------------------------------------------------------
(* Requests of one Update.                                                 *)

\* AddSubscription fetches first.  The new subscription has an ID nobody has seen.
BeginAdd(c) ==
  /\ "add" \in Ops /\ At(c, "idle")
  /\ \E s \in Subs \ ToSet(subs) :
       /\ Owned(nodes, s) = <<>>
       /\ \A d \in Callers : s \notin ToSet(todo[d])
       /\ todo' = [todo EXCEPT ![c] = <<s>>]
       /\ got' = [got EXCEPT ![c] = feed[s]]
  /\ Goto(c, "add")
  /\ UNCHANGED <<old, dirty, subs, nodes, selection, xray, feed>>

FinishAdd(c) ==
  /\ At(c, "add")
  /\ subs' = Append(subs, Head(todo[c]))
  /\ nodes' = Merge(nodes, got[c], Head(todo[c]))
  /\ IF active = <<>> THEN \E changed \in BOOLEAN : Reselect(nodes', Head(todo[c]), {}, changed)
     ELSE UNCHANGED <<active, fallback>>
  /\ todo' = [todo EXCEPT ![c] = <<>>]
  /\ got' = [got EXCEPT ![c] = <<>>]
  /\ Goto(c, "idle")
  /\ UNCHANGED <<old, dirty, mode, xray, feed>>

DeleteSubscription(s) ==
  /\ "deleteSub" \in Ops /\ s \in ToSet(subs)
  /\ subs' = Kept(subs, Subs \ {s})
  /\ nodes' = Without(nodes, s)
  /\ active' = Live(active, nodes')
  /\ UNCHANGED <<mode, fallback, xray, feed, local>>

DeleteNode(id) ==
  /\ "deleteNode" \in Ops /\ id \in ToSet(IdsOf(nodes))
  /\ nodes' = Kept(nodes, {n \in ToSet(nodes) : n.id # id})
  /\ active' = Kept(active, Ids \ {id})
  /\ fallback' = Kept(fallback, Ids \ {id})
  /\ UNCHANGED <<subs, mode, xray, feed, local>>

AddManualNode(h) ==
  /\ "manual" \in Ops
  /\ nodes' = Merge(nodes, <<h>>, Manual)
  /\ UNCHANGED <<subs, selection, xray, feed, local>>

\* UpdateSelection with what the servers page sends: the ticked servers in the order
\* of the table, as active_node_ids and as fallback_order.  Only the former is cut to
\* one in single mode.
UpdateSelection(c) ==
  /\ "select" \in Ops /\ At(c, "idle")
  /\ \E m \in Modes, ticked \in SUBSET ToSet(IdsOf(nodes)), apply \in BOOLEAN :
       LET ids == Kept(IdsOf(nodes), ticked)
       IN  /\ ids # <<>>
           /\ mode' = m
           /\ active' = IF m = "single" THEN First(ids) ELSE ids
           /\ fallback' = ids
           /\ Goto(c, IF apply THEN "apply" ELSE "idle")
  /\ UNCHANGED <<subs, nodes, xray, feed, todo, old, got, dirty>>

-----------------------------------------------------------------------------
FeedChanges ==
  /\ "feed" \in Faults
  /\ \E s \in Subs, list \in Lists : feed' = [feed EXCEPT ![s] = list]
  /\ UNCHANGED <<subs, nodes, selection, xray, local>>

\* Requests in progress are lost with the panel process; panel.json is not.
PanelCrashes ==
  /\ "panel" \in Faults /\ \E c \in Callers : ~At(c, "idle")
  /\ pc' = [c \in Callers |-> "idle"]
  /\ todo' = [c \in Callers |-> <<>>]
  /\ old' = [c \in Callers |-> {}]
  /\ got' = [c \in Callers |-> <<>>]
  /\ dirty' = [c \in Callers |-> FALSE]
  /\ generated' = [c \in Callers |-> {}]
  /\ overtaken' = {} /\ lagging' = TRUE
  /\ UNCHANGED <<subs, nodes, selection, running, config, feed>>

Work(c) ==
  Snapshot(c) \/ Fetch(c) \/ FetchFails(c) \/ Store(c) \/ EndRefresh(c)
  \/ Sanitize(c) \/ Generate(c) \/ Install(c) \/ Restart(c) \/ ApplyFails(c) \/ FinishAdd(c)

Request(c) ==
  BeginRefresh(c) \/ BeginRefreshAll(c) \/ BeginApply(c) \/ BeginAdd(c) \/ UpdateSelection(c)

Edit ==
  \/ \E s \in Subs : DeleteSubscription(s)
  \/ \E id \in Ids : DeleteNode(id)
  \/ \E h \in Links : AddManualNode(h)

Next ==
  \/ \E c \in Callers : Work(c) \/ Request(c)
  \/ Edit \/ FeedChanges \/ PanelCrashes

\* What is under way goes on, and the scheduler refreshes again and again.
Fairness == \A c \in Callers : WF_vars(Work(c)) /\ WF_vars(BeginRefreshAll(c))

Spec == Init /\ [][Next]_vars

FairSpec == Spec /\ Fairness

-----------------------------------------------------------------------------
(* Properties.                                                             *)

\* Every variable has its type, and no two servers share an ID or a hash: what
\* MergeNodes is for.
TypeOK ==
  /\ subs \in Seq(Subs) /\ IsInjective(subs)
  /\ nodes \in Seq([id : Ids, link : Links, sub : Subs \cup {Manual}])
  /\ IsInjective(IdsOf(nodes)) /\ IsInjective([i \in DOMAIN nodes |-> nodes[i].link])
  /\ mode \in {"single", "multi"}
  /\ active \in Seq(Ids) /\ fallback \in Seq(Ids) /\ IsInjective(active)
  /\ running \subseteq Links /\ config \subseteq Links
  /\ generated \in [Callers -> SUBSET Links]
  /\ overtaken \subseteq {c \in Callers : pc[c] = "install"} /\ lagging \in BOOLEAN
  /\ feed \in [Subs -> Lists]
  /\ pc \in [Callers -> {"idle", "next", "fetch", "store", "apply", "generate", "install",
                      "restart", "add"}]
  /\ todo \in [Callers -> Seq(Subs)] /\ got \in [Callers -> Lists \cup {<<>>}]
  /\ old \in [Callers -> SUBSET Links] /\ dirty \in [Callers -> BOOLEAN]

\* Whatever other requests did since it was chosen, an active server is one that is
\* listed: no Update leaves a dangling ID behind (generator.go's "node not found").
ActiveIsListed == ToSet(active) \subseteq ToSet(IdsOf(nodes))

\* As long as there is a server, what sanitizeSelection makes of the selection is
\* usable: the config Apply generates has all the active servers and at least one.
\* (In multi mode; in single mode the fallback order is not cut as active is, and the
\* two may have no server in common.)
ApplyUsesSelection ==
  LET sound == Sanitized(nodes, active, fallback)
  IN  nodes # <<>> =>
        /\ ToSet(sound.active) # {}
        /\ Selected(nodes, sound.active, sound.fallback) = ToSet(sound.active)

\* A refresh of one subscription leaves every other server in the list, under its ID,
\* even if other requests changed the list while the fetch was under way.
OthersSurvive ==
  [][\A c \in Callers : At(c, "store") /\ At(c, "next")' =>
       \A n \in ToSet(nodes) : n.sub # Head(todo[c]) =>
         \E m \in ToSet(nodes') : m.id = n.id /\ m.link = n.link]_vars

\* With auto-apply, when no request is under way xray runs the selected servers:
\* refreshes that overlap, with answers as old as they may be, leave no store
\* behind that nobody applies, unless the last of their Applies failed, was lost in a crash
\* or installed after a newer one had.  (Where every change is a refresh.)
IdleMeansApplied ==
  LET chosen == Selected(nodes, active, fallback)
  IN  (\A c \in Callers : At(c, "idle")) /\ ~lagging /\ running # {} /\ chosen # {} =>
        running = LinksUnder(chosen)

\* A step that is no fault.  (Stated by what it is: a crash of an idle panel looks
\* like the end of a refresh.)
Routine ==
  \E c \in Callers :
    \/ Request(c) \/ Snapshot(c) \/ Fetch(c) \/ Store(c) \/ EndRefresh(c)
    \/ Sanitize(c) \/ Generate(c) \/ Install(c) \/ Restart(c) \/ FinishAdd(c)

\* The automatic refresh carries a change of the subscriptions to xray: once the
\* lists stop changing and the faults end, xray comes to run listed servers only, even
\* if the panel crashed between the store and the Apply it called for.
RefreshReachesXray ==
  <>[][Routine]_vars => <>[](nodes # <<>> => running \subseteq LinksOf(nodes))
=============================================================================
