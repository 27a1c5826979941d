-------------------------- MODULE SelectionProofs --------------------------
(***************************************************************************)
(* Proofs about Selection, for any number of callers, subscriptions and    *)
(* servers and whatever the subscriptions list.                            *)
(*                                                                         *)
(* That an active server is listed, and that a refresh leaves the other    *)
(* subscriptions' servers alone, needs nothing of the new IDs.  That no    *)
(* two servers share one, and that what is selected can be used, needs     *)
(* them to be new, as UUIDs are: EnoughIds, which keeps them from running  *)
(* out, and which a finite set of IDs can only approximate.                *)
(***************************************************************************)
EXTENDS Selection, SublistsProofs

-----------------------------------------------------------------------------
(* The server list.                                                        *)

Server(A) == [id : A, link : Links, sub : Subs \cup {Manual}]

LEMMA IdsOfIs ==
  ASSUME NEW A, NEW ns \in Seq(Server(A))
  PROVE  /\ IdsOf(ns) \in Seq(A)
         /\ ToSet(IdsOf(ns)) = {n.id : n \in ToSet(ns)}
         /\ ToSet(ns) \subseteq Server(A)
         /\ Len(IdsOf(ns)) = Len(ns) /\ \A i \in 1..Len(ns) : IdsOf(ns)[i] = ns[i].id
<1>1. Len(ns) \in Nat /\ DOMAIN ns = 1..Len(ns) /\ \A i \in 1..Len(ns) : ns[i] \in Server(A)
  OBVIOUS
<1>2. PICK ids : ids = [i \in 1..Len(ns) |-> ns[i].id]
  OBVIOUS
<1>3. IdsOf(ns) = ids
  BY <1>1, <1>2 DEF IdsOf
<1>4. \A i \in 1..Len(ns) : ids[i] = ns[i].id /\ ids[i] \in A
  BY <1>1, <1>2 DEF Server
<1>5. ids \in Seq(A) /\ Len(ids) = Len(ns) /\ DOMAIN ids = 1..Len(ns)
  BY <1>1, <1>2, <1>4
<1>6. ToSet(ids) = {n.id : n \in ToSet(ns)}
  BY <1>1, <1>4, <1>5 DEF ToSet
<1>7. ToSet(ns) \subseteq Server(A)
  BY <1>1 DEF ToSet
<1> QED
  BY <1>3, <1>4, <1>5, <1>6, <1>7

\* What Merge adds.
New(ns, list) == Kept(Once(list), Links \ LinksOf(ns))

LEMMA NewIs ==
  ASSUME NEW ns, NEW list \in Seq(Links)
  PROVE  /\ New(ns, list) \in Seq(Links) /\ IsInjective(New(ns, list))
         /\ ToSet(New(ns, list)) = ToSet(list) \ LinksOf(ns)
<1>1. PICK once : once = Once(list)
  OBVIOUS
<1>2. once \in Seq(Links) /\ IsInjective(once) /\ ToSet(once) = ToSet(list)
  BY <1>1, OnceIs
<1>3. ToSet(list) \subseteq Links
  BY ToSetIs
<1>4. New(ns, list) = Kept(once, Links \ LinksOf(ns))
  BY <1>1 DEF New
<1> QED
  BY <1>2, <1>3, <1>4, KeptMembers, KeptInjective

LEMMA HandedIs ==
  ASSUME NEW A, NEW ns \in Seq(Server(A)), NEW list, NEW s \in Subs \cup {Manual}
  PROVE  /\ Handed(ns, list, s) \in Seq(Server(A)) /\ Len(Handed(ns, list, s)) = Len(ns)
         /\ \A i \in 1..Len(ns) : /\ Handed(ns, list, s)[i].id = ns[i].id
                                 /\ Handed(ns, list, s)[i].link = ns[i].link
<1>1. Len(ns) \in Nat /\ DOMAIN ns = 1..Len(ns) /\ \A i \in 1..Len(ns) : ns[i] \in Server(A)
  OBVIOUS
<1>2. PICK h : h = Handed(ns, list, s)
  OBVIOUS
<1>3. DOMAIN h = 1..Len(ns) /\ \A i \in 1..Len(ns) :
        h[i] = IF ns[i].link \in ToSet(list) THEN [ns[i] EXCEPT !.sub = s] ELSE ns[i]
  BY <1>1, <1>2 DEF Handed
<1>4. ASSUME NEW i \in 1..Len(ns)
      PROVE  h[i] \in Server(A) /\ h[i].id = ns[i].id /\ h[i].link = ns[i].link
  BY <1>1, <1>3 DEF Server
<1>5. h \in [1..Len(ns) -> Server(A)]
  BY <1>1, <1>2, <1>3, <1>4 DEF Handed
<1>6. h \in Seq(Server(A)) /\ Len(h) = Len(ns)
  BY <1>1, <1>3, <1>5
<1> QED
  BY <1>2, <1>4, <1>6

LEMMA AddedIs ==
  ASSUME NEW A, NEW new \in Seq(Links), NEW s \in Subs \cup {Manual},
         \A i \in Nat \ {0} : Fresh(i) \in A
  PROVE  /\ Added(new, s) \in Seq(Server(A)) /\ Len(Added(new, s)) = Len(new)
         /\ \A i \in 1..Len(new) : Added(new, s)[i] = [id |-> Fresh(i), link |-> new[i], sub |-> s]
<1>1. Len(new) \in Nat /\ DOMAIN new = 1..Len(new) /\ \A i \in 1..Len(new) : new[i] \in Links
  OBVIOUS
<1>2. PICK a : a = Added(new, s)
  OBVIOUS
<1>3. DOMAIN a = 1..Len(new) /\ \A i \in 1..Len(new) :
        a[i] = [id |-> Fresh(i), link |-> new[i], sub |-> s]
  BY <1>1, <1>2 DEF Added
<1>4. ASSUME NEW i \in 1..Len(new) PROVE a[i] \in Server(A)
  <2>1. Fresh(i) \in A
    BY <1>1
  <2> QED
    BY <1>1, <1>3, <2>1 DEF Server
<1>5. a \in [1..Len(new) -> Server(A)]
  BY <1>1, <1>2, <1>3, <1>4 DEF Added
<1>6. a \in Seq(Server(A)) /\ Len(a) = Len(new)
  BY <1>1, <1>3, <1>5
<1> QED
  BY <1>2, <1>3, <1>6

\* subscription.MergeNodes keeps every server, under its ID, and gives the others new IDs.
LEMMA MergeIs ==
  ASSUME NEW A, NEW ns \in Seq(Server(A)), NEW list \in Seq(Links), NEW s \in Subs \cup {Manual},
         \A i \in Nat \ {0} : Fresh(i) \in A
  PROVE  /\ Merge(ns, list, s) \in Seq(Server(A))
         /\ \A n \in ToSet(ns) : \E m \in ToSet(Merge(ns, list, s)) : m.id = n.id /\ m.link = n.link
         /\ \A m \in ToSet(Merge(ns, list, s)) :
              \/ \E n \in ToSet(ns) : m.id = n.id /\ m.link = n.link
              \/ \E i \in Nat \ {0} : m.id = Fresh(i)
<1>1. PICK h : h = Handed(ns, list, s)
  OBVIOUS
<1>2. PICK new : new = New(ns, list)
  OBVIOUS
<1>3. PICK a : a = Added(new, s)
  OBVIOUS
<1>4. PICK merged : merged = Merge(ns, list, s)
  OBVIOUS
<1>5. merged = h \o a
  BY <1>1, <1>2, <1>3, <1>4 DEF Merge, New
<1>6. new \in Seq(Links)
  BY <1>2, NewIs
<1>7. /\ h \in Seq(Server(A)) /\ Len(h) = Len(ns)
      /\ \A i \in 1..Len(ns) : h[i].id = ns[i].id /\ h[i].link = ns[i].link
  BY <1>1, HandedIs
<1>8. /\ a \in Seq(Server(A)) /\ Len(a) = Len(new)
      /\ \A i \in 1..Len(new) : a[i] = [id |-> Fresh(i), link |-> new[i], sub |-> s]
  BY <1>3, <1>6, AddedIs
<1>9. merged \in Seq(Server(A)) /\ ToSet(merged) = ToSet(h) \cup ToSet(a)
  BY <1>5, <1>7, <1>8, ConcatToSet
<1>10. /\ ToSet(ns) = {ns[i] : i \in 1..Len(ns)} /\ ToSet(h) = {h[i] : i \in 1..Len(ns)}
       /\ ToSet(a) = {a[i] : i \in 1..Len(new)}
  <2>1. ToSet(ns) = {ns[i] : i \in 1..Len(ns)}
    BY ToSetIs
  <2>2. ToSet(h) = {h[i] : i \in 1..Len(h)}
    BY <1>7, ToSetIs
  <2>3. ToSet(a) = {a[i] : i \in 1..Len(a)}
    BY <1>8, ToSetIs
  <2> QED
    BY <1>7, <1>8, <2>1, <2>2, <2>3
<1>11. \A n \in ToSet(ns) : \E m \in ToSet(merged) : m.id = n.id /\ m.link = n.link
  BY <1>7, <1>9, <1>10
<1>12. \A m \in ToSet(h) : \E n \in ToSet(ns) : m.id = n.id /\ m.link = n.link
  BY <1>7, <1>10
<1>13. \A m \in ToSet(a) : \E i \in Nat \ {0} : m.id = Fresh(i)
  <2>1. Len(new) \in Nat
    BY <1>6
  <2>2. ASSUME NEW i \in 1..Len(new) PROVE i \in Nat \ {0} /\ a[i].id = Fresh(i)
    <3>1. a[i] = [id |-> Fresh(i), link |-> new[i], sub |-> s]
      BY <1>8
    <3> QED
      BY <2>1, <3>1
  <2> QED
    BY <1>10, <2>2
<1> QED
  BY <1>4, <1>9, <1>11, <1>12, <1>13

-----------------------------------------------------------------------------
(* What the selection is repaired with.                                    *)

LEMMA WithoutIs ==
  ASSUME NEW A, NEW ns \in Seq(Server(A)), NEW s
  PROVE  /\ Without(ns, s) \in Seq(Server(A))
         /\ ToSet(Without(ns, s)) = {n \in ToSet(ns) : n.sub # s}
         /\ Owned(ns, s) \in Seq(Server(A))
         /\ ToSet(Owned(ns, s)) = {n \in ToSet(ns) : n.sub = s}
<1>1. Without(ns, s) \in Seq(Server(A)) /\ ToSet(Without(ns, s)) = {n \in ToSet(ns) : n.sub # s}
  BY KeptMembers DEF Without
<1>2. Owned(ns, s) \in Seq(Server(A)) /\ ToSet(Owned(ns, s)) = {n \in ToSet(ns) : n.sub = s}
  BY KeptMembers DEF Owned
<1> QED
  BY <1>1, <1>2

LEMMA LiveIs ==
  ASSUME NEW A, NEW ids \in Seq(A), NEW ns
  PROVE  /\ Live(ids, ns) \in Seq(A)
         /\ ToSet(Live(ids, ns)) = ToSet(ids) \cap ToSet(IdsOf(ns))
BY KeptMembers DEF Live

LEMMA FirstIs ==
  ASSUME NEW A, NEW ids \in Seq(A)
  PROVE  First(ids) \in Seq(A) /\ ToSet(First(ids)) \subseteq ToSet(ids)
<1>1. CASE ids = <<>>
  <2>1. First(ids) = <<>> /\ ToSet(<<>>) = {}
    BY <1>1 DEF First, ToSet
  <2> QED
    BY <2>1
<1>2. CASE ids # <<>>
  <2>1. First(ids) = <<ids[1]>> /\ 1 \in 1..Len(ids)
    BY <1>2 DEF First
  <2>2. ToSet(<<ids[1]>>) = {ids[1]}
    BY DEF ToSet
  <2>3. ids[1] \in ToSet(ids) /\ ids[1] \in A
    BY <2>1, ToSetIs
  <2> QED
    BY <2>1, <2>2, <2>3
<1> QED
  BY <1>1, <1>2

LEMMA PreferVlessIs ==
  ASSUME NEW A, NEW ns \in Seq(Server(A))
  PROVE  /\ PreferVless(ns) \in Seq(Server(A)) /\ ToSet(PreferVless(ns)) \subseteq ToSet(ns)
         /\ ns # <<>> => PreferVless(ns) # <<>>
<1>1. PICK vless : vless = Kept(ns, {n \in ToSet(ns) : n.link \in Vless})
  OBVIOUS
<1>2. vless \in Seq(Server(A)) /\ ToSet(vless) \subseteq ToSet(ns)
  BY <1>1, KeptMembers
<1>3. PreferVless(ns) = IF vless # <<>> THEN vless ELSE ns
  BY <1>1 DEF PreferVless
<1> QED
  BY <1>2, <1>3

\* The IDs that a strategy picks from and that a repair falls back on.
LEMMA PreferredIds ==
  ASSUME NEW A, NEW ns \in Seq(Server(A))
  PROVE  /\ IdsOf(PreferVless(ns)) \in Seq(A)
         /\ ToSet(IdsOf(PreferVless(ns))) \subseteq ToSet(IdsOf(ns))
         /\ ns # <<>> => IdsOf(PreferVless(ns)) # <<>>
<1>1. PICK vless : vless = PreferVless(ns)
  OBVIOUS
<1>2. /\ vless \in Seq(Server(A)) /\ ToSet(vless) \subseteq ToSet(ns)
      /\ ns # <<>> => vless # <<>>
  BY <1>1, PreferVlessIs
<1>3. /\ IdsOf(vless) \in Seq(A) /\ ToSet(IdsOf(vless)) = {n.id : n \in ToSet(vless)}
      /\ Len(IdsOf(vless)) = Len(vless)
  BY <1>2, IdsOfIs
<1>4. ToSet(IdsOf(ns)) = {n.id : n \in ToSet(ns)}
  BY IdsOfIs
<1>5. vless # <<>> => IdsOf(vless) # <<>>
  BY <1>2, <1>3
<1> QED
  BY <1>1, <1>2, <1>3, <1>4, <1>5

LEMMA PicksIs ==
  ASSUME NEW A, NEW ns \in Seq(Server(A))
  PROVE  Picks(ns) \subseteq ToSet(IdsOf(ns)) /\ ToSet(IdsOf(ns)) \subseteq A
<1>1. PICK ids : ids = IdsOf(PreferVless(ns))
  OBVIOUS
<1>2. ids \in Seq(A) /\ ToSet(ids) \subseteq ToSet(IdsOf(ns))
  BY <1>1, PreferredIds
<1>3. ToSet(First(ids)) \subseteq ToSet(ids)
  BY <1>2, FirstIs
<1>4. Picks(ns) = IF Strategy = "best_ping" THEN ToSet(ids) ELSE ToSet(First(ids))
  BY <1>1 DEF Picks
<1>5. ToSet(IdsOf(ns)) \subseteq A
  BY IdsOfIs, ToSetIs
<1> QED
  BY <1>2, <1>3, <1>4, <1>5

\* sanitizeSelection selects listed servers only, and the fallback order agrees if what is
\* listed of it did.
LEMMA SanitizedIs ==
  ASSUME NEW A, NEW ns \in Seq(Server(A)), NEW act \in Seq(A), NEW fb \in Seq(A),
         NEW sound, sound = Sanitized(ns, act, fb)
  PROVE  /\ sound.active \in Seq(A) /\ sound.fallback \in Seq(A)
         /\ ToSet(sound.active) \subseteq ToSet(IdsOf(ns))
         /\ ToSet(sound.fallback) \subseteq ToSet(IdsOf(ns))
         /\ sound.active = IF Live(act, ns) # <<>> THEN Live(act, ns)
                           ELSE First(IdsOf(PreferVless(ns)))
         /\ sound.fallback = IF Live(fb, ns) # <<>> THEN Live(fb, ns) ELSE sound.active
<1>1. PICK first : first = First(IdsOf(PreferVless(ns)))
  OBVIOUS
<1>2. first \in Seq(A) /\ ToSet(first) \subseteq ToSet(IdsOf(ns))
  BY <1>1, PreferredIds, FirstIs
<1>3. /\ Live(act, ns) \in Seq(A) /\ ToSet(Live(act, ns)) \subseteq ToSet(IdsOf(ns))
      /\ Live(fb, ns) \in Seq(A) /\ ToSet(Live(fb, ns)) \subseteq ToSet(IdsOf(ns))
  BY LiveIs
<1>4. /\ sound.active = IF Live(act, ns) # <<>> THEN Live(act, ns) ELSE first
      /\ sound.fallback = IF Live(fb, ns) # <<>> THEN Live(fb, ns) ELSE sound.active
  BY <1>1 DEF Sanitized
<1> QED
  BY <1>1, <1>2, <1>3, <1>4

-----------------------------------------------------------------------------
(* The requests under way.                                                 *)

Steps == {"idle", "next", "fetch", "store", "apply", "generate", "install", "restart", "add"}

\* A request that has fetched or stores has a subscription to do it for.
TasksInv ==
  /\ subs \in Seq(Subs)
  /\ feed \in [Subs -> Lists]
  /\ pc \in [Callers -> Steps]
  /\ todo \in [Callers -> Seq(Subs)] /\ got \in [Callers -> Lists \cup {<<>>}]
  /\ dirty \in [Callers -> BOOLEAN]
  /\ \A c \in Callers : pc[c] \in {"fetch", "store", "add"} => todo[c] # <<>>

LEMMA TailIs ==
  ASSUME NEW T, NEW seq \in Seq(T), seq # <<>>
  PROVE  Head(seq) \in T /\ Tail(seq) \in Seq(T) /\ Head(seq) \in ToSet(seq)
<1>1. Head(seq) = seq[1] /\ 1 \in 1..Len(seq) /\ Tail(seq) \in Seq(T)
  OBVIOUS
<1> QED
  BY <1>1, ToSetIs

LEMMA TasksInit == Init => TasksInv
BY SelectionAssumption DEF Init, TasksInv, Steps

LEMMA TasksWork ==
  ASSUME TasksInv, NEW c \in Callers, Work(c)
  PROVE  TasksInv'
<1> USE DEF TasksInv, At, Goto, Steps
<1>1. CASE Snapshot(c)
  <2>1. Tail(todo[c]) \in Seq(Subs)
    BY <1>1, TailIs DEF Snapshot
  <2> QED
    BY <1>1, <2>1 DEF Snapshot, selection
<1>2. CASE Fetch(c)
  <2>1. Head(todo[c]) \in Subs
    BY <1>2, TailIs DEF Fetch
  <2> QED
    BY <1>2, <2>1 DEF Fetch, selection
<1>3. CASE FetchFails(c)
  <2>1. Tail(todo[c]) \in Seq(Subs)
    BY <1>3, TailIs DEF FetchFails
  <2> QED
    BY <1>3, <2>1 DEF FetchFails, selection
<1>4. CASE Store(c)
  <2>1. Tail(todo[c]) \in Seq(Subs)
    BY <1>4, TailIs DEF Store
  <2>2. dirty' \in [Callers -> BOOLEAN]
    <3>1. PICK changed \in BOOLEAN :
            dirty' = [dirty EXCEPT ![c] = @ \/ changed
                        \/ LinksOf(Owned(nodes', Head(todo[c]))) # old[c]]
      BY <1>4 DEF Store
    <3> QED
      BY <3>1
  <2> QED
    BY <1>4, <2>1, <2>2 DEF Store, selection
<1>5. CASE EndRefresh(c)
  BY <1>5 DEF EndRefresh, selection
<1>6. CASE Sanitize(c)
  BY <1>6 DEF Sanitize, selection
<1>7. CASE Generate(c) \/ Install(c) \/ Restart(c) \/ ApplyFails(c)
  BY <1>7 DEF Generate, Install, Restart, ApplyFails, selection
<1>8. CASE FinishAdd(c)
  <2>1. Head(todo[c]) \in Subs
    BY <1>8, TailIs DEF FinishAdd
  <2>2. subs' \in Seq(Subs)
    BY <1>8, <2>1 DEF FinishAdd
  <2> QED
    BY <1>8, <2>2 DEF FinishAdd
<1> QED
  BY <1>1, <1>2, <1>3, <1>4, <1>5, <1>6, <1>7, <1>8 DEF Work

LEMMA TasksRequest ==
  ASSUME TasksInv, NEW c \in Callers, Request(c)
  PROVE  TasksInv'
<1> USE DEF TasksInv, At, Goto, Steps
<1>1. CASE BeginRefresh(c)
  <2>1. PICK s \in ToSet(subs) : Begin(c, <<s>>)
    BY <1>1 DEF BeginRefresh
  <2>2. <<s>> \in Seq(Subs)
    BY ToSetIs
  <2> QED
    BY <2>1, <2>2 DEF Begin, selection
<1>2. CASE BeginRefreshAll(c)
  BY <1>2 DEF BeginRefreshAll, Begin, selection
<1>3. CASE BeginApply(c)
  BY <1>3 DEF BeginApply, selection
<1>4. CASE BeginAdd(c)
  <2>1. PICK s \in Subs : todo' = [todo EXCEPT ![c] = <<s>>] /\ got' = [got EXCEPT ![c] = feed[s]]
    BY <1>4 DEF BeginAdd
  <2> QED
    BY <1>4, <2>1 DEF BeginAdd, selection
<1>5. CASE UpdateSelection(c)
  <2>1. PICK apply \in BOOLEAN : Goto(c, IF apply THEN "apply" ELSE "idle")
    BY <1>5 DEF UpdateSelection
  <2> QED
    BY <1>5, <2>1 DEF UpdateSelection
<1> QED
  BY <1>1, <1>2, <1>3, <1>4, <1>5 DEF Request

LEMMA TasksNext == TasksInv /\ [Next]_vars => TasksInv'
<1> SUFFICES ASSUME TasksInv, [Next]_vars PROVE TasksInv'
  OBVIOUS
<1>1. ASSUME NEW s \in Subs, DeleteSubscription(s) PROVE TasksInv'
  BY <1>1, KeptMembers DEF TasksInv, DeleteSubscription, local
<1>2. ASSUME NEW id \in Ids, DeleteNode(id) PROVE TasksInv'
  BY <1>2 DEF TasksInv, DeleteNode, local
<1>3. ASSUME NEW h \in Links, AddManualNode(h) PROVE TasksInv'
  BY <1>3 DEF TasksInv, AddManualNode, local
<1>4. CASE FeedChanges
  BY <1>4 DEF TasksInv, FeedChanges, local
<1>5. CASE PanelCrashes
  BY <1>5 DEF TasksInv, PanelCrashes, Steps
<1>6. CASE UNCHANGED vars
  BY <1>6 DEF TasksInv, vars
<1> QED
  BY <1>1, <1>2, <1>3, <1>4, <1>5, <1>6, TasksWork, TasksRequest DEF Next, Edit

-----------------------------------------------------------------------------
(* The selection is of listed servers.                                     *)

\* The lists, with IDs from A.
Listed(A) ==
  /\ nodes \in Seq(Server(A))
  /\ active \in Seq(A) /\ fallback \in Seq(A)
  /\ ActiveIsListed

LEMMA ReselectIs ==
  ASSUME NEW A, active \in Seq(A), fallback \in Seq(A),
         NEW ns \in Seq(Server(A)), NEW s, NEW before, NEW changed, Reselect(ns, s, before, changed)
  PROVE  /\ active' \in Seq(A) /\ fallback' \in Seq(A)
         /\ ToSet(active') \subseteq ToSet(IdsOf(ns))
<1>1. PICK valid : valid = Live(active, ns)
  OBVIOUS
<1>2. valid \in Seq(A) /\ ToSet(valid) \subseteq ToSet(IdsOf(ns))
  BY <1>1, LiveIs
<1>3. PICK own : own = Owned(ns, s)
  OBVIOUS
<1>4. own \in Seq(Server(A)) /\ ToSet(own) \subseteq ToSet(ns)
  BY <1>3, WithoutIs
<1>5. ToSet(IdsOf(own)) \subseteq ToSet(IdsOf(ns)) /\ ToSet(IdsOf(ns)) \subseteq A
  <2>1. /\ ToSet(IdsOf(own)) = {n.id : n \in ToSet(own)}
        /\ ToSet(IdsOf(ns)) = {n.id : n \in ToSet(ns)}
        /\ IdsOf(ns) \in Seq(A)
    BY <1>4, IdsOfIs
  <2> QED
    BY <1>4, <2>1, ToSetIs
<1>6. ASSUME NEW id \in Picks(own), active' = <<id>>,
             fallback' = <<id>> \/ fallback' = fallback
      PROVE  /\ active' \in Seq(A) /\ fallback' \in Seq(A)
             /\ ToSet(active') \subseteq ToSet(IdsOf(ns))
  <2>1. id \in ToSet(IdsOf(ns)) /\ id \in A
    BY <1>4, <1>5, PicksIs
  <2>2. ToSet(<<id>>) = {id} /\ <<id>> \in Seq(A)
    BY <2>1 DEF ToSet
  <2> QED
    BY <1>6, <2>1, <2>2
<1>7. PICK sound : sound = Sanitized(ns, active, fallback)
  OBVIOUS
<1>8. /\ sound.active \in Seq(A) /\ sound.fallback \in Seq(A)
      /\ ToSet(sound.active) \subseteq ToSet(IdsOf(ns))
  BY <1>7, SanitizedIs
<1>9. \/ active' = valid /\ (fallback' = valid \/ fallback' = fallback)
      \/ active' = sound.active /\ fallback' = sound.fallback
      \/ \E id \in Picks(own) : active' = <<id>> /\ (fallback' = <<id>> \/ fallback' = fallback)
  BY <1>1, <1>3, <1>7 DEF Reselect
<1> QED
  BY <1>2, <1>6, <1>8, <1>9

\* What a list does to the IDs the selection is made of.
LEMMA MergeListed ==
  ASSUME NEW A, \A i \in Nat \ {0} : Fresh(i) \in A, NEW ns \in Seq(Server(A)),
         NEW list \in Seq(Links), NEW s \in Subs \cup {Manual}
  PROVE  /\ Merge(ns, list, s) \in Seq(Server(A))
         /\ ToSet(IdsOf(ns)) \subseteq ToSet(IdsOf(Merge(ns, list, s)))
<1>1. PICK merged : merged = Merge(ns, list, s)
  OBVIOUS
<1>2. /\ merged \in Seq(Server(A))
      /\ \A n \in ToSet(ns) : \E m \in ToSet(merged) : m.id = n.id /\ m.link = n.link
  BY <1>1, MergeIs
<1>3. /\ ToSet(IdsOf(ns)) = {n.id : n \in ToSet(ns)}
      /\ ToSet(IdsOf(merged)) = {n.id : n \in ToSet(merged)}
  BY <1>2, IdsOfIs
<1> QED
  BY <1>1, <1>2, <1>3

LEMMA GotIsList ==
  ASSUME TasksInv, NEW c \in Callers
  PROVE  got[c] \in Seq(Links)
<1>1. got[c] \in Lists \/ got[c] = <<>>
  BY DEF TasksInv
<1>2. \A list \in Lists : list \in Seq(Links)
  BY SelectionAssumption
<1>3. <<>> \in Seq(Links)
  OBVIOUS
<1> QED
  BY <1>1, <1>2, <1>3, Zenon

\* A refresh merges what the caller fetched into the servers of the others.
LEMMA RefreshedIs ==
  ASSUME NEW A, \A i \in Nat \ {0} : Fresh(i) \in A, TasksInv, Listed(A), NEW c \in Callers,
         Store(c)
  PROVE  /\ Head(todo[c]) \in Subs
         /\ Without(nodes, Head(todo[c])) \in Seq(Server(A))
         /\ got[c] \in Seq(Links)
         /\ nodes' = Merge(Without(nodes, Head(todo[c])), got[c], Head(todo[c]))
         /\ nodes' \in Seq(Server(A))
<1>1. Head(todo[c]) \in Subs
  BY TailIs DEF Store, TasksInv, At
<1>2. Without(nodes, Head(todo[c])) \in Seq(Server(A))
  BY WithoutIs DEF Listed
<1>3. nodes' = Merge(Without(nodes, Head(todo[c])), got[c], Head(todo[c]))
  BY DEF Store, Refreshed
<1> QED
  BY <1>1, <1>2, <1>3, GotIsList, MergeListed

LEMMA ListedWork ==
  ASSUME NEW A, \A i \in Nat \ {0} : Fresh(i) \in A, TasksInv, Listed(A), NEW c \in Callers,
         Work(c)
  PROVE  Listed(A)'
<1> USE DEF Listed, ActiveIsListed
<1>1. CASE UNCHANGED <<nodes, active, fallback>>
  BY <1>1
<1>2. CASE Store(c)
  <2>1. nodes' \in Seq(Server(A))
    BY <1>2, RefreshedIs
  <2>2. PICK changed : Reselect(nodes', Head(todo[c]), old[c], changed)
    BY <1>2 DEF Store
  <2> QED
    BY <2>1, <2>2, ReselectIs
<1>3. CASE Sanitize(c)
  <2>1. PICK sound : sound = Sanitized(nodes, active, fallback)
    OBVIOUS
  <2>2. active' = sound.active /\ fallback' = sound.fallback /\ nodes' = nodes
    BY <1>3, <2>1 DEF Sanitize
  <2> QED
    BY <2>1, <2>2, SanitizedIs
<1>4. CASE FinishAdd(c)
  <2>1. Head(todo[c]) \in Subs
    BY <1>4, TailIs DEF FinishAdd, TasksInv, At
  <2>2. nodes' \in Seq(Server(A)) /\ ToSet(IdsOf(nodes)) \subseteq ToSet(IdsOf(nodes'))
    BY <1>4, <2>1, GotIsList, MergeListed DEF FinishAdd
  <2>3. CASE UNCHANGED <<active, fallback>>
    BY <2>2, <2>3
  <2>4. ASSUME NEW changed, Reselect(nodes', Head(todo[c]), {}, changed) PROVE Listed(A)'
    BY <2>2, <2>4, ReselectIs
  <2> QED
    BY <1>4, <2>3, <2>4 DEF FinishAdd
<1> QED
  BY <1>1, <1>2, <1>3, <1>4 DEF Work, Snapshot, Fetch, FetchFails, EndRefresh,
       Generate, Install, Restart, ApplyFails, selection

LEMMA ListedSelect ==
  ASSUME NEW A, Listed(A), NEW c \in Callers, UpdateSelection(c)
  PROVE  Listed(A)'
<1>1. PICK m \in Modes, ticked \in SUBSET ToSet(IdsOf(nodes)) :
        /\ active' = IF m = "single" THEN First(Kept(IdsOf(nodes), ticked))
                     ELSE Kept(IdsOf(nodes), ticked)
        /\ fallback' = Kept(IdsOf(nodes), ticked)
        /\ nodes' = nodes
  BY DEF UpdateSelection
<1>2. PICK ids : ids = Kept(IdsOf(nodes), ticked)
  OBVIOUS
<1>3. IdsOf(nodes) \in Seq(A)
  BY IdsOfIs DEF Listed
<1>4. ids \in Seq(A) /\ ToSet(ids) \subseteq ToSet(IdsOf(nodes))
  BY <1>2, <1>3, KeptMembers
<1>5. First(ids) \in Seq(A) /\ ToSet(First(ids)) \subseteq ToSet(ids)
  BY <1>4, FirstIs
<1> QED
  BY <1>1, <1>2, <1>4, <1>5 DEF Listed, ActiveIsListed

LEMMA ListedEdit ==
  ASSUME NEW A, \A i \in Nat \ {0} : Fresh(i) \in A, Listed(A), Edit
  PROVE  Listed(A)'
<1> USE DEF Listed, ActiveIsListed
<1>1. ASSUME NEW s \in Subs, DeleteSubscription(s) PROVE Listed(A)'
  <2>1. nodes' = Without(nodes, s) /\ active' = Live(active, nodes') /\ fallback' = fallback
    BY <1>1 DEF DeleteSubscription
  <2> QED
    BY <2>1, WithoutIs, LiveIs
<1>2. ASSUME NEW id \in Ids, DeleteNode(id) PROVE Listed(A)'
  <2>1. /\ nodes' \in Seq(Server(A)) /\ ToSet(nodes') = {n \in ToSet(nodes) : n.id # id}
        /\ active' \in Seq(A) /\ ToSet(active') = ToSet(active) \cap (Ids \ {id})
        /\ fallback' \in Seq(A)
    BY <1>2, KeptMembers DEF DeleteNode
  <2>2. /\ ToSet(IdsOf(nodes)) = {n.id : n \in ToSet(nodes)}
        /\ ToSet(IdsOf(nodes')) = {n.id : n \in ToSet(nodes')}
    BY <2>1, IdsOfIs
  <2> QED
    BY <2>1, <2>2
<1>3. ASSUME NEW h \in Links, AddManualNode(h) PROVE Listed(A)'
  <2>1. <<h>> \in Seq(Links)
    OBVIOUS
  <2>2. nodes' \in Seq(Server(A)) /\ ToSet(IdsOf(nodes)) \subseteq ToSet(IdsOf(nodes'))
    BY <1>3, <2>1, MergeListed DEF AddManualNode
  <2> QED
    BY <1>3, <2>2 DEF AddManualNode, selection
<1> QED
  BY <1>1, <1>2, <1>3 DEF Edit

LEMMA ListedNext ==
  ASSUME NEW A, \A i \in Nat \ {0} : Fresh(i) \in A, TasksInv, Listed(A), [Next]_vars
  PROVE  Listed(A)'
<1>1. CASE UNCHANGED <<nodes, active, fallback>>
  BY <1>1 DEF Listed, ActiveIsListed
<1>2. ASSUME NEW c \in Callers, Request(c) PROVE Listed(A)'
  BY <1>1, <1>2, ListedSelect
     DEF Request, BeginRefresh, BeginRefreshAll, Begin, BeginApply, BeginAdd, selection
<1> QED
  BY <1>1, <1>2, ListedWork, ListedEdit DEF Next, FeedChanges, PanelCrashes, selection, vars

\* For IDs from wherever they are drawn: each step may add some.
SomeListed == \E A : Listed(A)

LEMMA ListedGrows ==
  ASSUME NEW A, NEW B, A \subseteq B, Listed(A)
  PROVE  Listed(B)
<1>1. Server(A) \subseteq Server(B)
  BY DEF Server
<1> QED
  BY <1>1, SeqMonotonic DEF Listed

LEMMA SomeListedInit == Init => SomeListed
<1> SUFFICES ASSUME Init PROVE Listed({})
  BY DEF SomeListed
<1>1. nodes = <<>> /\ active = <<>> /\ fallback = <<>>
  BY DEF Init
<1>2. ToSet(<<>>) = {}
  BY DEF ToSet
<1> QED
  BY <1>1, <1>2 DEF Listed, ActiveIsListed

LEMMA ListedWithFresh ==
  ASSUME SomeListed
  PROVE  \E A : Listed(A) /\ \A i \in Nat \ {0} : Fresh(i) \in A
<1>1. PICK A : Listed(A)
  BY DEF SomeListed
<1>2. PICK B : B = A \cup {Fresh(i) : i \in Nat \ {0}}
  OBVIOUS
<1>3. Listed(B) /\ \A i \in Nat \ {0} : Fresh(i) \in B
  BY <1>1, <1>2, ListedGrows
<1> QED
  BY <1>3

LEMMA SomeListedNext == TasksInv /\ SomeListed /\ [Next]_vars => SomeListed'
BY ListedWithFresh, ListedNext DEF SomeListed

\* Whatever is selected, deleted, added and refreshed, by any number of callers at once and
\* with crashes between a fetch and its store: an active server is always a listed one, so
\* that generating a config never meets an ID nobody has (generator.go).
THEOREM ActiveAlwaysListed == Spec => []ActiveIsListed
<1>1. SomeListed => ActiveIsListed
  BY DEF SomeListed, Listed
<1> QED
  BY <1>1, TasksInit, TasksNext, SomeListedInit, SomeListedNext, PTL DEF Spec

-----------------------------------------------------------------------------
(* A refresh leaves the servers of others alone.                           *)

\* A caller leaves "store" for "next" by a Store only.
LEMMA StoreOrNot ==
  ASSUME TasksInv, [Next]_vars, NEW c \in Callers, At(c, "store"), At(c, "next")'
  PROVE  Store(c)
<1> USE DEF TasksInv, At, Goto, Steps
<1>1. ASSUME NEW d \in Callers, Request(d) PROVE FALSE
  BY <1>1 DEF Request, BeginRefresh, BeginRefreshAll, Begin, BeginApply, BeginAdd, UpdateSelection
<1>2. ASSUME NEW d \in Callers, Work(d) PROVE d = c /\ Store(d)
  BY <1>2 DEF Work, Snapshot, Fetch, FetchFails, Store, EndRefresh, Sanitize, Generate,
       Install, Restart, ApplyFails, FinishAdd
<1>3. ~Edit
  BY DEF Edit, DeleteSubscription, DeleteNode, AddManualNode, local
<1>4. ~FeedChanges /\ ~PanelCrashes /\ ~UNCHANGED vars
  BY DEF FeedChanges, PanelCrashes, local, vars
<1> QED
  BY <1>1, <1>2, <1>3, <1>4 DEF Next

LEMMA StoreKeepsOthers ==
  ASSUME TasksInv, SomeListed, NEW c \in Callers, Store(c),
         NEW n \in ToSet(nodes), n.sub # Head(todo[c])
  PROVE  \E m \in ToSet(nodes') : m.id = n.id /\ m.link = n.link
<1>1. PICK A : Listed(A) /\ \A i \in Nat \ {0} : Fresh(i) \in A
  BY ListedWithFresh
<1>2. PICK others : others = Without(nodes, Head(todo[c]))
  OBVIOUS
<1>3. /\ Head(todo[c]) \in Subs /\ others \in Seq(Server(A)) /\ got[c] \in Seq(Links)
      /\ nodes' = Merge(others, got[c], Head(todo[c]))
  BY <1>1, <1>2, RefreshedIs
<1>4. n \in ToSet(others)
  BY <1>1, <1>2, WithoutIs DEF Listed
<1> QED
  BY <1>1, <1>3, <1>4, MergeIs

\* A refresh of one subscription leaves every other server in the list, under its ID, whatever
\* happened to the list since the fetch began (refreshSubscriptionStore).
THEOREM OthersAlwaysSurvive == Spec => OthersSurvive
<1>1. ASSUME TasksInv, SomeListed, [Next]_vars, NEW c \in Callers, At(c, "store"), At(c, "next")'
      PROVE  \A n \in ToSet(nodes) : n.sub # Head(todo[c]) =>
               \E m \in ToSet(nodes') : m.id = n.id /\ m.link = n.link
  BY <1>1, StoreOrNot, StoreKeepsOthers
<1>2. TasksInv /\ SomeListed /\ [Next]_vars =>
        [\A c \in Callers : At(c, "store") /\ At(c, "next")' =>
          \A n \in ToSet(nodes) : n.sub # Head(todo[c]) =>
            \E m \in ToSet(nodes') : m.id = n.id /\ m.link = n.link]_vars
  BY <1>1
<1> QED
  BY <1>2, TasksInit, TasksNext, SomeListedInit, SomeListedNext, PTL DEF Spec, OthersSurvive

-----------------------------------------------------------------------------
(* New IDs are new.                                                        *)

\* IDs are UUIDs: they do not run out.
EnoughIds == ~IsFiniteSet(Ids)

\* An infinite set of numbers has an i-th least member for every i.
LEMMA InfiniteHasRanks ==
  ASSUME NEW U, U \subseteq Nat, ~IsFiniteSet(U)
  PROVE  \A k \in Nat : \E n \in U : Cardinality({m \in U : m < n}) = k
<1> DEFINE Below(n) == {m \in U : m < n}
           S == {k \in Nat : \E n \in U : IsFiniteSet(Below(n)) /\ Cardinality(Below(n)) = k}
<1>1. 0 \in S
  <2>1. U # {}
    BY FS_EmptySet
  <2>2. PICK n \in U : \A m \in U : n <= m
    BY <2>1, LeastElement
  <2>3. \A m \in U : ~(m < n)
    <3>1. n \in Nat /\ \A m \in U : m \in Nat
      OBVIOUS
    <3> QED
      BY <2>2, <3>1
  <2>4. Below(n) = {}
    BY <2>3
  <2> QED
    BY <2>4, FS_EmptySet
<1>2. ASSUME NEW k \in Nat, k \in S PROVE k + 1 \in S
  <2>1. PICK n \in U : IsFiniteSet(Below(n)) /\ Cardinality(Below(n)) = k
    BY <1>2
  <2> DEFINE Above == {m \in U : n < m}
  <2>2. Above # {}
    <3>1. SUFFICES ASSUME Above = {} PROVE FALSE
      OBVIOUS
    <3>2. \A m \in U : m <= n
      BY <3>1
    <3> QED
      BY <3>2, FS_BoundedSetOfNaturals
  <2>3. PICK next \in Above : \A m \in Above : next <= m
    BY <2>2, LeastElement
  <2>4. Below(next) = Below(n) \cup {n}
    <3>1. n \in Nat /\ next \in Nat /\ n < next /\ \A m \in U : m \in Nat
      BY <2>3
    <3>2. \A m \in U : m < next <=> m < n \/ m = n
      BY <2>3, <3>1
    <3> QED
      BY <3>2
  <2>5. n \notin Below(n)
    OBVIOUS
  <2> HIDE DEF Below
  <2>6. IsFiniteSet(Below(next)) /\ Cardinality(Below(next)) = k + 1
    BY <2>1, <2>4, <2>5, FS_AddElement
  <2> QED
    BY <2>3, <2>6
<1>3. Nat \subseteq S
  <2> HIDE DEF S
  <2> QED
    BY <1>1, <1>2, NatInd
<1> QED
  BY <1>3

LEMMA ToSetFinite ==
  ASSUME NEW T, NEW seq \in Seq(T)
  PROVE  IsFiniteSet(ToSet(seq))
<1>1. Len(seq) \in Nat /\ seq \in [1..Len(seq) -> ToSet(seq)]
  <2>1. seq \in [1..Len(seq) -> T] /\ \A i \in 1..Len(seq) : seq[i] \in ToSet(seq)
    BY ToSetIs
  <2> QED
    BY <2>1
<1>2. \A x \in ToSet(seq) : \E i \in 1..Len(seq) : seq[i] = x
  BY ToSetIs
<1>3. seq \in Surjection(1..Len(seq), ToSet(seq))
  BY <1>1, <1>2 DEF Surjection
<1>4. IsFiniteSet(1..Len(seq))
  BY <1>1, FS_Interval
<1> QED
  BY <1>3, <1>4, FS_Surjection

LEMMA FreshIsUnused ==
  ASSUME EnoughIds, SomeListed, NEW i \in Nat \ {0}
  PROVE  Fresh(i) \in Unused /\ Cardinality({m \in Unused : m < Fresh(i)}) = i - 1
<1>1. PICK A : Listed(A)
  BY DEF SomeListed
<1>2. PICK used : used = ToSet(IdsOf(nodes)) \cup ToSet(active) \cup ToSet(fallback)
  OBVIOUS
<1>3. IsFiniteSet(used)
  <2>1. IdsOf(nodes) \in Seq(A) /\ active \in Seq(A) /\ fallback \in Seq(A)
    BY <1>1, IdsOfIs DEF Listed
  <2> QED
    BY <1>2, <2>1, ToSetFinite, FS_Union
<1>4. Unused \subseteq Nat /\ ~IsFiniteSet(Unused)
  <2>1. Unused = Ids \ used
    BY <1>2 DEF Unused
  <2>2. Ids \subseteq Unused \cup used
    BY <2>1
  <2>3. ASSUME IsFiniteSet(Unused) PROVE FALSE
    BY <1>3, <2>2, <2>3, FS_Union, FS_Subset DEF EnoughIds
  <2> QED
    BY <2>1, <2>3, SelectionAssumption
<1>5. i - 1 \in Nat
  OBVIOUS
<1>6. \E n \in Unused : Cardinality({m \in Unused : m < n}) = i - 1
  BY <1>4, <1>5, InfiniteHasRanks
<1> QED
  BY <1>6 DEF Fresh

-----------------------------------------------------------------------------
(* An Apply uses what is selected.                                         *)

\* What is listed of the fallback order is nothing, or it is the active servers.
Agrees(fb, act, ids) == ToSet(fb) \cap ids \in {{}, ToSet(act) \cap ids}

\* Who selects by hand selects in multi mode.
MultiOnly == "select" \in Ops => Modes \subseteq {"multi"}

SelectionInv ==
  /\ Listed(Ids)
  /\ Agrees(fallback, active, ToSet(IdsOf(nodes)))

LEMMA FreshIds ==
  ASSUME EnoughIds, Listed(Ids)
  PROVE  /\ Unused \subseteq Ids
         /\ \A i \in Nat \ {0} : Fresh(i) \in Unused /\ Fresh(i) \in Ids
<1>1. Unused \subseteq Ids
  BY DEF Unused
<1>2. SomeListed
  BY DEF SomeListed
<1> QED
  BY <1>1, <1>2, FreshIsUnused

LEMMA EmptyIs ==
  ASSUME NEW T, NEW seq \in Seq(T)
  PROVE  ToSet(seq) = {} <=> seq = <<>>
<1>1. CASE seq = <<>>
  <2>1. ToSet(<<>>) = {}
    BY DEF ToSet
  <2> QED
    BY <1>1, <2>1
<1>2. CASE seq # <<>>
  <2>1. 1 \in 1..Len(seq)
    BY <1>2
  <2>2. seq[1] \in ToSet(seq)
    BY <2>1, ToSetIs
  <2> QED
    BY <1>2, <2>2
<1> QED
  BY <1>1, <1>2

\* A merge selects nothing new: the IDs it brings in are ones nothing referred to.
LEMMA MergeAgrees ==
  ASSUME EnoughIds, Listed(Ids), NEW ns \in Seq(Server(Ids)), NEW list \in Seq(Links),
         NEW s \in Subs \cup {Manual}, Agrees(fallback, active, ToSet(IdsOf(ns)))
  PROVE  /\ Merge(ns, list, s) \in Seq(Server(Ids))
         /\ ToSet(IdsOf(ns)) \subseteq ToSet(IdsOf(Merge(ns, list, s)))
         /\ Agrees(fallback, active, ToSet(IdsOf(Merge(ns, list, s))))
<1>1. PICK merged : merged = Merge(ns, list, s)
  OBVIOUS
<1>2. \A i \in Nat \ {0} : Fresh(i) \in Unused /\ Fresh(i) \in Ids
  BY FreshIds
<1>3. merged \in Seq(Server(Ids)) /\ ToSet(IdsOf(ns)) \subseteq ToSet(IdsOf(merged))
  BY <1>1, <1>2, MergeListed
<1>4. \A m \in ToSet(merged) :
        \/ \E n \in ToSet(ns) : m.id = n.id /\ m.link = n.link
        \/ \E i \in Nat \ {0} : m.id = Fresh(i)
  BY <1>1, <1>2, MergeIs
<1>5. /\ ToSet(IdsOf(ns)) = {n.id : n \in ToSet(ns)}
      /\ ToSet(IdsOf(merged)) = {n.id : n \in ToSet(merged)}
  BY <1>3, IdsOfIs
<1>6. ToSet(IdsOf(merged)) \subseteq ToSet(IdsOf(ns)) \cup Unused
  BY <1>2, <1>4, <1>5
<1>7. Unused \cap ToSet(active) = {} /\ Unused \cap ToSet(fallback) = {}
  BY DEF Unused
<1>8. /\ ToSet(active) \cap ToSet(IdsOf(merged)) = ToSet(active) \cap ToSet(IdsOf(ns))
      /\ ToSet(fallback) \cap ToSet(IdsOf(merged)) = ToSet(fallback) \cap ToSet(IdsOf(ns))
  BY <1>3, <1>6, <1>7
<1> QED
  BY <1>1, <1>3, <1>8 DEF Agrees

\* sanitizeSelection keeps them in agreement.
LEMMA SanitizedAgrees ==
  ASSUME NEW ns \in Seq(Server(Ids)), NEW act \in Seq(Ids), NEW fb \in Seq(Ids),
         Agrees(fb, act, ToSet(IdsOf(ns))), NEW sound, sound = Sanitized(ns, act, fb)
  PROVE  ToSet(sound.fallback) = ToSet(sound.active)
<1>1. PICK a : a = Live(act, ns)
  OBVIOUS
<1>2. PICK f : f = Live(fb, ns)
  OBVIOUS
<1>3. /\ a \in Seq(Ids) /\ ToSet(a) = ToSet(act) \cap ToSet(IdsOf(ns))
      /\ f \in Seq(Ids) /\ ToSet(f) = ToSet(fb) \cap ToSet(IdsOf(ns))
  BY <1>1, <1>2, LiveIs
<1>4. (a # <<>> => sound.active = a) /\ sound.fallback = IF f # <<>> THEN f ELSE sound.active
  BY <1>1, <1>2, SanitizedIs
<1>5. (ToSet(a) = {} <=> a = <<>>) /\ (ToSet(f) = {} <=> f = <<>>)
  BY <1>3, EmptyIs
<1> QED
  BY <1>3, <1>4, <1>5 DEF Agrees

LEMMA ReselectAgrees ==
  ASSUME active \in Seq(Ids), fallback \in Seq(Ids), NEW ns \in Seq(Server(Ids)), NEW s,
         NEW before, NEW changed, Reselect(ns, s, before, changed),
         Agrees(fallback, active, ToSet(IdsOf(ns)))
  PROVE  Agrees(fallback', active', ToSet(IdsOf(ns)))
<1>1. PICK valid : valid = Live(active, ns)
  OBVIOUS
<1>2. valid \in Seq(Ids) /\ ToSet(valid) = ToSet(active) \cap ToSet(IdsOf(ns))
  BY <1>1, LiveIs
<1>3. ASSUME active' = valid, fallback' = valid \/ fallback' = fallback
      PROVE  Agrees(fallback', active', ToSet(IdsOf(ns)))
  BY <1>2, <1>3 DEF Agrees
<1>4. ASSUME active' = Sanitized(ns, active, fallback).active,
             fallback' = Sanitized(ns, active, fallback).fallback
      PROVE  Agrees(fallback', active', ToSet(IdsOf(ns)))
  BY <1>4, SanitizedAgrees DEF Agrees
<1>5. ASSUME fallback' = active' \/ (fallback' = fallback /\ active = valid /\ valid = <<>>)
      PROVE  Agrees(fallback', active', ToSet(IdsOf(ns)))
  <2>1. valid = <<>> => ToSet(valid) = {}
    BY <1>2, EmptyIs
  <2> QED
    BY <1>2, <1>5, <2>1 DEF Agrees
<1>6. \/ active' = valid /\ (fallback' = valid \/ fallback' = fallback)
      \/ /\ active' = Sanitized(ns, active, fallback).active
         /\ fallback' = Sanitized(ns, active, fallback).fallback
      \/ fallback' = active' \/ (fallback' = fallback /\ active = valid /\ valid = <<>>)
  BY <1>1 DEF Reselect
<1> QED
  BY <1>3, <1>4, <1>5, <1>6

\* Deleting shrinks the list.
LEMMA FewerAgree ==
  ASSUME NEW ids, NEW fewer \in SUBSET ids, Agrees(fallback, active, ids)
  PROVE  Agrees(fallback, active, fewer)
BY DEF Agrees

LEMMA AgreesWork ==
  ASSUME EnoughIds, TasksInv, SelectionInv, NEW c \in Callers, Work(c)
  PROVE  Agrees(fallback, active, ToSet(IdsOf(nodes)))'
<1> DEFINE Goal == Agrees(fallback', active', ToSet(IdsOf(nodes')))
<1> SUFFICES Goal
  OBVIOUS
<1>1. CASE UNCHANGED <<nodes, active, fallback>>
  BY <1>1 DEF SelectionInv
<1>2. active \in Seq(Ids) /\ fallback \in Seq(Ids) /\ nodes \in Seq(Server(Ids)) /\ Listed(Ids)
  BY DEF SelectionInv, Listed
<1>3. CASE Store(c)
  <2>1. PICK others : others = Without(nodes, Head(todo[c]))
    OBVIOUS
  <2>2. /\ Head(todo[c]) \in Subs /\ others \in Seq(Server(Ids)) /\ got[c] \in Seq(Links)
        /\ nodes' = Merge(others, got[c], Head(todo[c]))
    BY <1>2, <1>3, <2>1, FreshIds, RefreshedIs
  <2>3. ToSet(IdsOf(others)) \subseteq ToSet(IdsOf(nodes))
    <3>1. ToSet(others) \subseteq ToSet(nodes)
      BY <1>2, <2>1, WithoutIs
    <3>2. /\ ToSet(IdsOf(nodes)) = {n.id : n \in ToSet(nodes)}
          /\ ToSet(IdsOf(others)) = {n.id : n \in ToSet(others)}
      BY <1>2, <2>2, IdsOfIs
    <3> QED
      BY <3>1, <3>2
  <2>4. Agrees(fallback, active, ToSet(IdsOf(others)))
    BY <2>3, FewerAgree DEF SelectionInv
  <2>5. nodes' \in Seq(Server(Ids)) /\ Agrees(fallback, active, ToSet(IdsOf(nodes')))
    BY <1>2, <2>2, <2>4, MergeAgrees
  <2>6. PICK changed : Reselect(nodes', Head(todo[c]), old[c], changed)
    BY <1>3 DEF Store
  <2> QED
    BY <1>2, <2>5, <2>6, ReselectAgrees
<1>4. CASE Sanitize(c)
  <2>1. PICK sound : sound = Sanitized(nodes, active, fallback)
    OBVIOUS
  <2>2. active' = sound.active /\ fallback' = sound.fallback
    BY <1>4, <2>1 DEF Sanitize
  <2>3. ToSet(sound.fallback) = ToSet(sound.active)
    BY <1>2, <2>1, SanitizedAgrees DEF SelectionInv
  <2> QED
    BY <2>2, <2>3 DEF Agrees
<1>5. CASE FinishAdd(c)
  <2>1. Head(todo[c]) \in Subs /\ got[c] \in Seq(Links)
    BY <1>5, TailIs, GotIsList DEF FinishAdd, TasksInv, At
  <2>2. nodes' = Merge(nodes, got[c], Head(todo[c]))
    BY <1>5 DEF FinishAdd
  <2>3. nodes' \in Seq(Server(Ids)) /\ Agrees(fallback, active, ToSet(IdsOf(nodes')))
    BY <1>2, <2>1, <2>2, MergeAgrees DEF SelectionInv
  <2>4. ASSUME NEW changed, Reselect(nodes', Head(todo[c]), {}, changed) PROVE Goal
    BY <1>2, <2>3, <2>4, ReselectAgrees
  <2>5. CASE UNCHANGED <<active, fallback>>
    BY <2>3, <2>5
  <2> QED
    BY <1>5, <2>4, <2>5 DEF FinishAdd
<1> QED
  BY <1>1, <1>3, <1>4, <1>5 DEF Work, Snapshot, Fetch, FetchFails, EndRefresh,
       Generate, Install, Restart, ApplyFails, selection

LEMMA AgreesSelect ==
  ASSUME MultiOnly, NEW c \in Callers, UpdateSelection(c)
  PROVE  Agrees(fallback, active, ToSet(IdsOf(nodes)))'
<1>1. fallback' = active'
  BY DEF UpdateSelection, MultiOnly
<1> QED
  BY <1>1 DEF Agrees

LEMMA AgreesEdit ==
  ASSUME EnoughIds, SelectionInv, Edit
  PROVE  Agrees(fallback, active, ToSet(IdsOf(nodes)))'
<1> DEFINE Goal == Agrees(fallback', active', ToSet(IdsOf(nodes')))
<1> SUFFICES Goal
  OBVIOUS
<1>1. active \in Seq(Ids) /\ fallback \in Seq(Ids) /\ nodes \in Seq(Server(Ids)) /\ Listed(Ids)
  BY DEF SelectionInv, Listed
<1>2. ToSet(IdsOf(nodes)) = {n.id : n \in ToSet(nodes)}
  BY <1>1, IdsOfIs
<1>3. ASSUME NEW s \in Subs, DeleteSubscription(s) PROVE Goal
  <2>1. nodes' = Without(nodes, s) /\ active' = Live(active, nodes') /\ fallback' = fallback
    BY <1>3 DEF DeleteSubscription
  <2>2. nodes' \in Seq(Server(Ids)) /\ ToSet(nodes') \subseteq ToSet(nodes)
    BY <1>1, <2>1, WithoutIs
  <2>3. ToSet(IdsOf(nodes')) \subseteq ToSet(IdsOf(nodes))
    BY <1>2, <2>2, IdsOfIs
  <2>4. ToSet(active') = ToSet(active) \cap ToSet(IdsOf(nodes'))
    BY <1>1, <2>1, LiveIs
  <2>5. Agrees(fallback, active, ToSet(IdsOf(nodes')))
    BY <2>3, FewerAgree DEF SelectionInv
  <2> QED
    BY <2>1, <2>4, <2>5 DEF Agrees
<1>4. ASSUME NEW id \in Ids, DeleteNode(id) PROVE Goal
  <2>1. /\ nodes' \in Seq(Server(Ids)) /\ ToSet(nodes') = {n \in ToSet(nodes) : n.id # id}
        /\ ToSet(active') = ToSet(active) \cap (Ids \ {id})
        /\ ToSet(fallback') = ToSet(fallback) \cap (Ids \ {id})
    BY <1>1, <1>4, KeptMembers DEF DeleteNode
  <2>2. ToSet(IdsOf(nodes')) = {n.id : n \in ToSet(nodes')}
    BY <2>1, IdsOfIs
  <2>3. ToSet(IdsOf(nodes')) = ToSet(IdsOf(nodes)) \ {id}
    BY <1>2, <2>1, <2>2
  <2>4. ToSet(active) \subseteq Ids /\ ToSet(fallback) \subseteq Ids
    BY <1>1, ToSetIs
  <2> QED
    BY <2>1, <2>3, <2>4 DEF Agrees, SelectionInv
<1>5. ASSUME NEW h \in Links, AddManualNode(h) PROVE Goal
  <2>1. <<h>> \in Seq(Links)
    OBVIOUS
  <2>2. nodes' = Merge(nodes, <<h>>, Manual) /\ active' = active /\ fallback' = fallback
    BY <1>5 DEF AddManualNode, selection
  <2> QED
    BY <1>1, <2>1, <2>2, MergeAgrees DEF SelectionInv
<1> QED
  BY <1>3, <1>4, <1>5 DEF Edit

LEMMA SelectionInit == Init => SelectionInv
<1> SUFFICES ASSUME Init PROVE SelectionInv
  OBVIOUS
<1>1. nodes = <<>> /\ active = <<>> /\ fallback = <<>>
  BY DEF Init
<1>2. ToSet(<<>>) = {}
  BY DEF ToSet
<1>3. Listed(Ids)
  BY <1>1, <1>2 DEF Listed, ActiveIsListed
<1> QED
  BY <1>1, <1>2, <1>3 DEF SelectionInv, Agrees

LEMMA SelectionNext ==
  ASSUME EnoughIds, MultiOnly, TasksInv, SelectionInv, [Next]_vars
  PROVE  SelectionInv'
<1> DEFINE Agreed == Agrees(fallback, active, ToSet(IdsOf(nodes)))
<1>1. CASE UNCHANGED <<nodes, active, fallback>>
  BY <1>1 DEF SelectionInv, Listed, ActiveIsListed
<1>2. Listed(Ids)'
  BY FreshIds, ListedNext DEF SelectionInv
<1>3. ASSUME NEW c \in Callers, Request(c), ~UNCHANGED <<nodes, active, fallback>> PROVE Agreed'
  BY <1>3, AgreesSelect
     DEF Request, BeginRefresh, BeginRefreshAll, Begin, BeginApply, BeginAdd, selection
<1>4. CASE Agreed'
  BY <1>2, <1>4 DEF SelectionInv
<1> QED
  BY <1>1, <1>3, <1>4, AgreesWork, AgreesEdit DEF Next, FeedChanges, PanelCrashes, selection, vars

LEMMA SoundIsUsed ==
  ASSUME SelectionInv PROVE ApplyUsesSelection
<1>1. PICK sound : sound = Sanitized(nodes, active, fallback)
  OBVIOUS
<1>2. active \in Seq(Ids) /\ fallback \in Seq(Ids) /\ nodes \in Seq(Server(Ids))
  BY DEF SelectionInv, Listed
<1>3. PICK first : first = IdsOf(PreferVless(nodes))
  OBVIOUS
<1>4. /\ sound.active \in Seq(Ids) /\ sound.fallback \in Seq(Ids)
      /\ ToSet(sound.active) \subseteq ToSet(IdsOf(nodes))
      /\ sound.active = IF Live(active, nodes) # <<>> THEN Live(active, nodes) ELSE First(first)
  BY <1>1, <1>2, <1>3, SanitizedIs
<1>5. ToSet(sound.fallback) = ToSet(sound.active)
  BY <1>1, <1>2, SanitizedAgrees DEF SelectionInv
<1>6. ASSUME nodes # <<>> PROVE sound.active # <<>>
  <2>1. first \in Seq(Ids) /\ first # <<>>
    BY <1>2, <1>3, <1>6, PreferredIds
  <2>2. First(first) # <<>>
    BY <2>1 DEF First
  <2> QED
    BY <1>4, <2>2
<1>7. nodes # <<>> => ToSet(sound.active) # {}
  BY <1>4, <1>6, EmptyIs
<1>8. Selected(nodes, sound.active, sound.fallback) = ToSet(sound.active)
  BY <1>4, <1>5 DEF Selected
<1> QED
  BY <1>1, <1>7, <1>8 DEF ApplyUsesSelection

\* In multi mode, once a server is listed, what sanitizeSelection makes of the selection at
\* any moment is usable: it has an active server, and the generated config has all of them.
THEOREM ApplyAlwaysUsesSelection ==
  ASSUME EnoughIds, MultiOnly
  PROVE  Spec => []ApplyUsesSelection
<1>1. TasksInv /\ SelectionInv /\ [Next]_vars => SelectionInv'
  BY SelectionNext
<1>2. SelectionInv => ApplyUsesSelection
  BY SoundIsUsed
<1> QED
  BY <1>1, <1>2, TasksInit, TasksNext, SelectionInit, PTL DEF Spec

-----------------------------------------------------------------------------
(* No two servers share an ID or a hash.                                   *)

Distinct(ns) ==
  /\ IsInjective(ns)
  /\ \A m, n \in ToSet(ns) : m.id = n.id \/ m.link = n.link => m = n

\* By position, as it is stated and as Merge builds it.
LEMMA DistinctIs ==
  ASSUME NEW ns \in Seq(Server(Ids))
  PROVE  Distinct(ns) <=>
           \A i, j \in 1..Len(ns) : ns[i].id = ns[j].id \/ ns[i].link = ns[j].link => i = j
<1>1. DOMAIN ns = 1..Len(ns) /\ ToSet(ns) = {ns[i] : i \in 1..Len(ns)}
  BY ToSetIs
<1>2. ASSUME Distinct(ns), NEW i \in 1..Len(ns), NEW j \in 1..Len(ns),
             ns[i].id = ns[j].id \/ ns[i].link = ns[j].link
      PROVE  i = j
  <2>1. ns[i] = ns[j]
    BY <1>1, <1>2 DEF Distinct
  <2> QED
    BY <1>1, <1>2, <2>1 DEF Distinct, IsInjective
<1>3. ASSUME \A i, j \in 1..Len(ns) : ns[i].id = ns[j].id \/ ns[i].link = ns[j].link => i = j
      PROVE  Distinct(ns)
  <2>1. IsInjective(ns)
    BY <1>1, <1>3 DEF IsInjective
  <2>2. ASSUME NEW m \in ToSet(ns), NEW n \in ToSet(ns), m.id = n.id \/ m.link = n.link
        PROVE  m = n
    <3>1. PICK i \in 1..Len(ns), j \in 1..Len(ns) : m = ns[i] /\ n = ns[j]
      BY <1>1
    <3> QED
      BY <1>3, <2>2, <3>1
  <2> QED
    BY <2>1, <2>2 DEF Distinct
<1> QED
  BY <1>2, <1>3

LEMMA DistinctSequences ==
  ASSUME NEW ns \in Seq(Server(Ids)), Distinct(ns)
  PROVE  IsInjective(IdsOf(ns)) /\ IsInjective([i \in DOMAIN ns |-> ns[i].link])
<1>1. DOMAIN ns = 1..Len(ns)
  OBVIOUS
<1>2. \A i, j \in 1..Len(ns) : ns[i].id = ns[j].id \/ ns[i].link = ns[j].link => i = j
  BY DistinctIs
<1>3. IsInjective([i \in DOMAIN ns |-> ns[i].id])
  BY <1>1, <1>2 DEF IsInjective
<1>4. IsInjective([i \in DOMAIN ns |-> ns[i].link])
  BY <1>1, <1>2 DEF IsInjective
<1> QED
  BY <1>3, <1>4 DEF IdsOf

LEMMA KeptDistinct ==
  ASSUME NEW ns \in Seq(Server(Ids)), Distinct(ns), NEW keep
  PROVE  Distinct(Kept(ns, keep))
<1>1. IsInjective(ns)
  BY DEF Distinct
<1>2. IsInjective(Kept(ns, keep)) /\ ToSet(Kept(ns, keep)) = ToSet(ns) \cap keep
  BY <1>1, KeptInjective, KeptMembers
<1> QED
  BY <1>2 DEF Distinct

\* Different new servers get different IDs.
LEMMA FreshDiffers ==
  ASSUME EnoughIds, Listed(Ids), NEW i \in Nat \ {0}, NEW j \in Nat \ {0}, Fresh(i) = Fresh(j)
  PROVE  i = j
<1>1. SomeListed
  BY DEF SomeListed
<1>2. /\ Cardinality({m \in Unused : m < Fresh(i)}) = i - 1
      /\ Cardinality({m \in Unused : m < Fresh(j)}) = j - 1
  BY <1>1, FreshIsUnused
<1>3. i - 1 = j - 1
  BY <1>2
<1> QED
  BY <1>3

\* subscription.MergeNodes adds no server twice and no ID twice.
LEMMA MergeDistinct ==
  ASSUME EnoughIds, Listed(Ids), NEW ns \in Seq(Server(Ids)), Distinct(ns),
         ToSet(IdsOf(ns)) \subseteq ToSet(IdsOf(nodes)),
         NEW list \in Seq(Links), NEW s \in Subs \cup {Manual}
  PROVE  Distinct(Merge(ns, list, s))
<1>1. PICK h : h = Handed(ns, list, s)
  OBVIOUS
<1>2. PICK new : new = New(ns, list)
  OBVIOUS
<1>3. PICK a : a = Added(new, s)
  OBVIOUS
<1>4. PICK merged : merged = Merge(ns, list, s)
  OBVIOUS
<1>5. merged = h \o a
  BY <1>1, <1>2, <1>3, <1>4 DEF Merge, New
<1>6. new \in Seq(Links) /\ IsInjective(new) /\ ToSet(new) \cap LinksOf(ns) = {}
  BY <1>2, NewIs
<1>7. \A i \in Nat \ {0} : Fresh(i) \in Unused /\ Fresh(i) \in Ids
  BY FreshIds
<1>8. /\ h \in Seq(Server(Ids)) /\ Len(h) = Len(ns)
      /\ \A i \in 1..Len(ns) : h[i].id = ns[i].id /\ h[i].link = ns[i].link
  BY <1>1, HandedIs
<1>9. /\ a \in Seq(Server(Ids)) /\ Len(a) = Len(new)
      /\ \A i \in 1..Len(new) : a[i] = [id |-> Fresh(i), link |-> new[i], sub |-> s]
  BY <1>3, <1>6, <1>7, AddedIs
<1>10. Len(ns) \in Nat /\ Len(new) \in Nat
  BY <1>6
<1>11. ASSUME NEW i \in 1..Len(new) PROVE a[i].id = Fresh(i) /\ a[i].link = new[i]
  <2>1. a[i] = [id |-> Fresh(i), link |-> new[i], sub |-> s]
    BY <1>9
  <2> QED
    BY <2>1
<1>12. \A i, j \in 1..Len(ns) : h[i].id = h[j].id \/ h[i].link = h[j].link => i = j
  BY <1>8, DistinctIs
<1>13. ASSUME NEW i \in 1..Len(new), NEW j \in 1..Len(new),
              a[i].id = a[j].id \/ a[i].link = a[j].link
       PROVE  i = j
  <2>1. a[i].id = Fresh(i) /\ a[i].link = new[i] /\ a[j].id = Fresh(j) /\ a[j].link = new[j]
    BY <1>11
  <2>2. i \in Nat \ {0} /\ j \in Nat \ {0}
    BY <1>10
  <2>3. CASE Fresh(i) = Fresh(j)
    BY <2>2, <2>3, FreshDiffers
  <2>4. CASE new[i] = new[j]
    BY <1>6, <2>4 DEF IsInjective
  <2> QED
    BY <1>13, <2>1, <2>3, <2>4
<1>14. ASSUME NEW i \in 1..Len(ns), NEW j \in 1..Len(new)
       PROVE  h[i].id # a[j].id /\ h[i].link # a[j].link
  <2>1. h[i].id = ns[i].id /\ h[i].link = ns[i].link /\ a[j].id = Fresh(j) /\ a[j].link = new[j]
    BY <1>8, <1>11, Zenon
  <2>2. j \in Nat \ {0}
    BY <1>10
  <2>3. ns[i] \in ToSet(ns) /\ new[j] \in ToSet(new)
    BY <1>6, ToSetIs
  <2>4. ns[i].id \in ToSet(IdsOf(nodes))
    BY <2>3, IdsOfIs
  <2>5. Fresh(j) \notin ToSet(IdsOf(nodes))
    BY <1>7, <2>2 DEF Unused
  <2>6. ns[i].link \in LinksOf(ns)
    BY <2>3 DEF LinksOf
  <2> QED
    BY <1>6, <2>1, <2>3, <2>4, <2>5, <2>6
<1>15. /\ merged \in Seq(Server(Ids)) /\ Len(merged) = Len(ns) + Len(new)
       /\ \A k \in 1..Len(merged) :
            IF k <= Len(ns) THEN k \in 1..Len(ns) /\ merged[k] = h[k]
            ELSE k - Len(ns) \in 1..Len(new) /\ merged[k] = a[k - Len(ns)]
  <2>1. merged \in Seq(Server(Ids)) /\ Len(merged) = Len(h) + Len(a)
    <3>1. h \in Seq(Server(Ids)) /\ a \in Seq(Server(Ids))
      BY <1>8, <1>9
    <3>2. \A S : \A x, y \in Seq(S) : x \o y \in Seq(S) /\ Len(x \o y) = Len(x) + Len(y)
      OBVIOUS
    <3> QED
      BY <1>5, <3>1, <3>2, Zenon
  <2>2. ASSUME NEW k \in 1..Len(merged)
        PROVE  IF k <= Len(h) THEN k \in 1..Len(h) /\ merged[k] = h[k]
               ELSE k - Len(h) \in 1..Len(a) /\ merged[k] = a[k - Len(h)]
    BY <1>5, <1>8, <1>9, <2>1
  <2> QED
    BY <1>8, <1>9, <2>1, <2>2
<1>16. ASSUME NEW i \in 1..Len(merged), NEW j \in 1..Len(merged),
              merged[i].id = merged[j].id \/ merged[i].link = merged[j].link
       PROVE  i = j
  <2>1. i \in Nat /\ j \in Nat
    BY <1>10, <1>15
  <2>2. CASE i <= Len(ns) /\ j <= Len(ns)
    <3>1. i \in 1..Len(ns) /\ j \in 1..Len(ns) /\ merged[i] = h[i] /\ merged[j] = h[j]
      BY <1>15, <2>2
    <3> QED
      BY <1>12, <1>16, <3>1
  <2>3. CASE ~(i <= Len(ns)) /\ ~(j <= Len(ns))
    <3>1. /\ i - Len(ns) \in 1..Len(new) /\ merged[i] = a[i - Len(ns)]
          /\ j - Len(ns) \in 1..Len(new) /\ merged[j] = a[j - Len(ns)]
      BY <1>15, <2>3
    <3>2. i - Len(ns) = j - Len(ns)
      BY <1>13, <1>16, <3>1
    <3> QED
      BY <1>10, <2>1, <3>2
  <2>4. CASE i <= Len(ns) /\ ~(j <= Len(ns))
    <3>1. /\ i \in 1..Len(ns) /\ merged[i] = h[i]
          /\ j - Len(ns) \in 1..Len(new) /\ merged[j] = a[j - Len(ns)]
      BY <1>15, <2>4
    <3> QED
      BY <1>14, <1>16, <3>1
  <2>5. CASE ~(i <= Len(ns)) /\ j <= Len(ns)
    <3>1. /\ j \in 1..Len(ns) /\ merged[j] = h[j]
          /\ i - Len(ns) \in 1..Len(new) /\ merged[i] = a[i - Len(ns)]
      BY <1>15, <2>5
    <3> QED
      BY <1>14, <1>16, <3>1
  <2> QED
    BY <2>2, <2>3, <2>4, <2>5
<1> QED
  BY <1>4, <1>15, <1>16, DistinctIs

-----------------------------------------------------------------------------
(* Every variable has its type.                                            *)

\* A subscription that is being added is nobody else's.
AddsInv ==
  /\ IsInjective(subs)
  /\ \A c \in Callers : At(c, "add") =>
       /\ Head(todo[c]) \notin ToSet(subs)
       /\ \A d \in Callers \ {c} : At(d, "add") => Head(todo[d]) # Head(todo[c])

ServersInv ==
  /\ Distinct(nodes)
  /\ IsInjective(active)
  /\ mode \in {"single", "multi"}
  /\ old \in [Callers -> SUBSET Links]

LEMMA AddsInit == Init => AddsInv
BY DEF Init, AddsInv, At, IsInjective

LEMMA AddsNext ==
  ASSUME TasksInv, AddsInv, [Next]_vars
  PROVE  AddsInv'
<1> USE DEF AddsInv, At
<1> DEFINE Stays(c) == pc'[c] = "add" => pc[c] = "add" /\ todo'[c] = todo[c]
<1>1. ASSUME subs' = subs, \A c \in Callers : Stays(c) PROVE AddsInv'
  BY <1>1
<1>2. ASSUME NEW c \in Callers, subs' = subs, pc'[c] # "add",
             \A d \in Callers \ {c} : pc'[d] = pc[d] /\ todo'[d] = todo[d]
      PROVE  AddsInv'
  BY <1>2
<1>3. ASSUME NEW c \in Callers, FinishAdd(c) PROVE AddsInv'
  <2>1. PICK s : s = Head(todo[c])
    OBVIOUS
  <2>2. s \in Subs /\ s \notin ToSet(subs) /\ subs \in Seq(Subs) /\ IsInjective(subs)
    BY <1>3, <2>1, TailIs DEF FinishAdd, TasksInv
  <2>3. subs' = Append(subs, s)
    BY <1>3, <2>1 DEF FinishAdd
  <2>4. IsInjective(subs') /\ ToSet(subs') = ToSet(subs) \cup {s}
    BY <2>2, <2>3, InjectiveAppend, AppendToSet
  <2>5. /\ pc'[c] = "idle" /\ pc[c] = "add"
        /\ \A d \in Callers \ {c} : pc'[d] = pc[d] /\ todo'[d] = todo[d]
    BY <1>3 DEF FinishAdd, Goto, TasksInv
  <2> QED
    BY <2>1, <2>4, <2>5
<1>4. ASSUME NEW c \in Callers, BeginAdd(c) PROVE AddsInv'
  <2>1. PICK s \in Subs \ ToSet(subs) :
          /\ \A d \in Callers : s \notin ToSet(todo[d])
          /\ todo' = [todo EXCEPT ![c] = <<s>>]
    BY <1>4 DEF BeginAdd
  <2>2. /\ pc'[c] = "add" /\ todo'[c] = <<s>> /\ subs' = subs
        /\ \A d \in Callers \ {c} : pc'[d] = pc[d] /\ todo'[d] = todo[d]
    BY <1>4, <2>1 DEF BeginAdd, Goto, TasksInv
  <2>3. \A d \in Callers : pc[d] = "add" => Head(todo[d]) # s
    BY <2>1, TailIs DEF TasksInv
  <2>4. Head(todo'[c]) = s
    BY <2>2
  <2> QED
    BY <2>1, <2>2, <2>3, <2>4
<1>5. ASSUME NEW s \in Subs, DeleteSubscription(s) PROVE AddsInv'
  <2>1. subs' = Kept(subs, Subs \ {s}) /\ pc' = pc /\ todo' = todo
    BY <1>5 DEF DeleteSubscription, local
  <2>2. IsInjective(subs') /\ ToSet(subs') \subseteq ToSet(subs)
    BY <2>1, KeptInjective, KeptMembers DEF TasksInv
  <2> QED
    BY <2>1, <2>2
<1>6. ASSUME NEW c \in Callers, Work(c), ~FinishAdd(c) PROVE AddsInv'
  BY <1>2, <1>6
     DEF Work, Snapshot, Fetch, FetchFails, Store, EndRefresh, Sanitize, Generate,
         Install, Restart, ApplyFails, Goto, TasksInv
<1>7. ASSUME NEW c \in Callers, Request(c), ~BeginAdd(c) PROVE AddsInv'
  BY <1>2, <1>7
     DEF Request, BeginRefresh, BeginRefreshAll, Begin, BeginApply, UpdateSelection, Goto, TasksInv
<1>8. CASE PanelCrashes
  BY <1>1, <1>8 DEF PanelCrashes
<1>9. CASE UNCHANGED <<subs, pc, todo>>
  BY <1>1, <1>9
<1> QED
  BY <1>3, <1>4, <1>5, <1>6, <1>7, <1>8, <1>9
     DEF Next, Edit, DeleteNode, AddManualNode, FeedChanges, local, vars

LEMMA ShortInjective ==
  ASSUME NEW ids
  PROVE  IsInjective(First(ids)) /\ \A id : IsInjective(<<id>>)
<1>1. IsInjective(<<>>) /\ \A id : IsInjective(<<id>>)
  BY DEF IsInjective
<1> QED
  BY <1>1 DEF First

LEMMA SanitizedInjective ==
  ASSUME NEW ns \in Seq(Server(Ids)), NEW act \in Seq(Ids), NEW fb \in Seq(Ids), IsInjective(act)
  PROVE  IsInjective(Sanitized(ns, act, fb).active)
<1>1. PICK sound : sound = Sanitized(ns, act, fb)
  OBVIOUS
<1>2. PICK first : first = IdsOf(PreferVless(ns))
  OBVIOUS
<1>3. sound.active = IF Live(act, ns) # <<>> THEN Live(act, ns) ELSE First(first)
  BY <1>1, <1>2, SanitizedIs
<1>4. IsInjective(Live(act, ns)) /\ IsInjective(First(first))
  BY KeptInjective, ShortInjective DEF Live
<1> QED
  BY <1>1, <1>3, <1>4

LEMMA ReselectInjective ==
  ASSUME active \in Seq(Ids), fallback \in Seq(Ids), IsInjective(active),
         NEW ns \in Seq(Server(Ids)), NEW s, NEW before, NEW changed,
         Reselect(ns, s, before, changed)
  PROVE  IsInjective(active')
<1>1. \/ active' = Live(active, ns)
      \/ active' = Sanitized(ns, active, fallback).active
      \/ \E id : active' = <<id>>
  BY DEF Reselect
<1>2. IsInjective(Live(active, ns))
  BY KeptInjective DEF Live
<1> QED
  BY <1>1, <1>2, SanitizedInjective, ShortInjective

LEMMA LinksOfIs ==
  ASSUME NEW ns \in Seq(Server(Ids))
  PROVE  LinksOf(ns) \subseteq Links
<1>1. ToSet(ns) \subseteq Server(Ids)
  BY ToSetIs
<1> QED
  BY <1>1 DEF LinksOf, Server

LEMMA ServersInit == Init => ServersInv
<1>1. IsInjective(<<>>) /\ ToSet(<<>>) = {}
  BY DEF IsInjective, ToSet
<1> QED
  BY <1>1 DEF Init, ServersInv, Distinct

LEMMA ServersWork ==
  ASSUME EnoughIds, TasksInv, Listed(Ids), ServersInv, NEW c \in Callers, Work(c)
  PROVE  ServersInv'
<1> DEFINE Rest == mode' = mode /\ old' \in [Callers -> SUBSET Links]
<1>1. active \in Seq(Ids) /\ fallback \in Seq(Ids) /\ nodes \in Seq(Server(Ids))
  BY DEF Listed
<1>2. Distinct(nodes) /\ IsInjective(active) /\ old \in [Callers -> SUBSET Links]
  BY DEF ServersInv
<1>3. ASSUME UNCHANGED <<nodes, active>>, Rest PROVE ServersInv'
  BY <1>3 DEF ServersInv
<1>4. ASSUME Distinct(nodes'), IsInjective(active'), Rest PROVE ServersInv'
  BY <1>4 DEF ServersInv
<1>5. CASE Snapshot(c)
  <2>1. LinksOf(Owned(nodes, Head(todo[c]))) \subseteq Links
    BY <1>1, WithoutIs, LinksOfIs
  <2>2. old' \in [Callers -> SUBSET Links]
    BY <1>2, <1>5, <2>1 DEF Snapshot
  <2> QED
    BY <1>3, <1>5, <2>2 DEF Snapshot, selection
<1>6. CASE Store(c)
  <2>1. PICK others : others = Without(nodes, Head(todo[c]))
    OBVIOUS
  <2>2. /\ Head(todo[c]) \in Subs /\ others \in Seq(Server(Ids)) /\ got[c] \in Seq(Links)
        /\ nodes' = Merge(others, got[c], Head(todo[c])) /\ nodes' \in Seq(Server(Ids))
    BY <1>6, <2>1, FreshIds, RefreshedIs
  <2>3. ToSet(IdsOf(others)) \subseteq ToSet(IdsOf(nodes))
    <3>1. ToSet(others) \subseteq ToSet(nodes)
      BY <1>1, <2>1, WithoutIs
    <3>2. /\ ToSet(IdsOf(nodes)) = {n.id : n \in ToSet(nodes)}
          /\ ToSet(IdsOf(others)) = {n.id : n \in ToSet(others)}
      BY <1>1, <2>2, IdsOfIs
    <3> QED
      BY <3>1, <3>2
  <2>4. Distinct(others)
    BY <1>1, <1>2, <2>1, KeptDistinct DEF Without
  <2>5. Distinct(nodes')
    BY <2>2, <2>3, <2>4, MergeDistinct
  <2>6. PICK changed : Reselect(nodes', Head(todo[c]), old[c], changed)
    BY <1>6 DEF Store
  <2>7. IsInjective(active')
    BY <1>1, <1>2, <2>2, <2>6, ReselectInjective
  <2>8. Rest
    BY <1>2, <1>6 DEF Store
  <2> QED
    BY <1>4, <2>5, <2>7, <2>8
<1>7. CASE Sanitize(c)
  <2>1. IsInjective(active') /\ nodes' = nodes
    BY <1>1, <1>2, <1>7, SanitizedInjective DEF Sanitize
  <2>2. Rest
    BY <1>2, <1>7 DEF Sanitize
  <2> QED
    BY <1>2, <1>4, <2>1, <2>2
<1>8. CASE FinishAdd(c)
  <2>1. Head(todo[c]) \in Subs /\ got[c] \in Seq(Links)
    BY <1>8, TailIs, GotIsList DEF FinishAdd, TasksInv, At
  <2>2. nodes' = Merge(nodes, got[c], Head(todo[c]))
    BY <1>8 DEF FinishAdd
  <2>3. Distinct(nodes')
    BY <1>1, <1>2, <2>1, <2>2, MergeDistinct
  <2>4. nodes' \in Seq(Server(Ids))
    BY <1>1, <2>1, <2>2, FreshIds, MergeListed
  <2>5. IsInjective(active')
    <3>1. ASSUME NEW changed, Reselect(nodes', Head(todo[c]), {}, changed)
          PROVE  IsInjective(active')
      BY <1>1, <1>2, <2>4, <3>1, ReselectInjective
    <3> QED
      BY <1>2, <1>8, <3>1 DEF FinishAdd
  <2>6. Rest
    BY <1>2, <1>8 DEF FinishAdd
  <2> QED
    BY <1>4, <2>3, <2>5, <2>6
<1>9. CASE Generate(c) \/ Install(c) \/ Restart(c) \/ ApplyFails(c)
  <2>1. UNCHANGED <<nodes, active>> /\ Rest
    BY <1>2, <1>9 DEF Generate, Install, Restart, ApplyFails, selection
  <2> QED
    BY <1>3, <2>1
<1>10. CASE Fetch(c) \/ FetchFails(c) \/ EndRefresh(c)
  <2>1. UNCHANGED <<nodes, active>> /\ Rest
    BY <1>2, <1>10 DEF Fetch, FetchFails, EndRefresh, selection
  <2> QED
    BY <1>3, <2>1
<1> QED
  BY <1>5, <1>6, <1>7, <1>8, <1>9, <1>10 DEF Work

LEMMA ServersSelect ==
  ASSUME Listed(Ids), ServersInv, NEW c \in Callers, UpdateSelection(c)
  PROVE  ServersInv'
<1>1. PICK m \in Modes, ticked \in SUBSET ToSet(IdsOf(nodes)) :
        /\ mode' = m
        /\ active' = IF m = "single" THEN First(Kept(IdsOf(nodes), ticked))
                     ELSE Kept(IdsOf(nodes), ticked)
        /\ UNCHANGED <<nodes, old>>
  BY DEF UpdateSelection
<1>2. IdsOf(nodes) \in Seq(Ids) /\ IsInjective(IdsOf(nodes))
  BY IdsOfIs, DistinctSequences DEF Listed, ServersInv
<1>3. IsInjective(Kept(IdsOf(nodes), ticked)) /\ IsInjective(First(Kept(IdsOf(nodes), ticked)))
  BY <1>2, KeptInjective, ShortInjective
<1>4. m \in {"single", "multi"}
  BY SelectionAssumption
<1> QED
  BY <1>1, <1>3, <1>4 DEF ServersInv

LEMMA ServersEdit ==
  ASSUME EnoughIds, Listed(Ids), ServersInv, Edit
  PROVE  ServersInv'
<1> DEFINE Rest == UNCHANGED <<mode, old>>
<1>1. active \in Seq(Ids) /\ nodes \in Seq(Server(Ids)) /\ Distinct(nodes) /\ IsInjective(active)
  BY DEF Listed, ServersInv
<1>2. ASSUME Distinct(nodes'), IsInjective(active'), Rest PROVE ServersInv'
  BY <1>2 DEF ServersInv
<1>3. ASSUME NEW s \in Subs, DeleteSubscription(s) PROVE ServersInv'
  BY <1>1, <1>2, <1>3, KeptDistinct, KeptInjective DEF DeleteSubscription, Without, Live, local
<1>4. ASSUME NEW id \in Ids, DeleteNode(id) PROVE ServersInv'
  BY <1>1, <1>2, <1>4, KeptDistinct, KeptInjective DEF DeleteNode, local
<1>5. ASSUME NEW h \in Links, AddManualNode(h) PROVE ServersInv'
  <2>1. <<h>> \in Seq(Links)
    OBVIOUS
  <2>2. nodes' = Merge(nodes, <<h>>, Manual) /\ active' = active /\ Rest
    BY <1>5 DEF AddManualNode, selection, local
  <2>3. Distinct(nodes')
    BY <1>1, <2>1, <2>2, MergeDistinct
  <2> QED
    BY <1>1, <1>2, <2>2, <2>3
<1> QED
  BY <1>3, <1>4, <1>5 DEF Edit

\* The configs of Applies that are under way, and the one xray has.
StackInv ==
  /\ running \subseteq Links /\ config \subseteq Links
  /\ generated \in [Callers -> SUBSET Links]
  /\ overtaken \subseteq {c \in Callers : pc[c] = "install"}
  /\ lagging \in BOOLEAN

LEMMA LinksUnderIs ==
  ASSUME NEW A, nodes \in Seq(Server(A)), NEW ids
  PROVE  LinksUnder(ids) \subseteq Links
<1>1. ToSet(nodes) \subseteq Server(A)
  BY ToSetIs
<1> QED
  BY <1>1 DEF LinksUnder, Server

LEMMA StackInit == Init => StackInv
BY DEF Init, StackInv

LEMMA StackNext ==
  ASSUME TasksInv, Listed(Ids), StackInv, [Next]_vars
  PROVE  StackInv'
<1> USE DEF StackInv, TasksInv, At, Goto
<1>1. ASSUME UNCHANGED xray, \A c \in Callers : pc[c] = "install" => pc'[c] = "install"
      PROVE  StackInv'
  BY <1>1 DEF xray
<1>2. ASSUME NEW c \in Callers, Work(c) PROVE StackInv'
  <2>1. CASE Generate(c)
    <3>1. PICK links : links = LinksUnder(Selected(nodes, active, fallback))
      OBVIOUS
    <3>2. links \in SUBSET Links
      BY <3>1, LinksUnderIs DEF Listed
    <3>3. generated' = generated \/ generated' = [generated EXCEPT ![c] = links]
      BY <2>1, <3>1 DEF Generate
    <3>4. overtaken' \subseteq {d \in Callers : pc'[d] = "install"}
      BY <2>1 DEF Generate, Steps
    <3>5. generated' \in [Callers -> SUBSET Links]
      BY <3>2, <3>3
    <3> QED
      BY <2>1, <3>4, <3>5 DEF Generate
  <2>2. CASE Install(c)
    BY <2>2 DEF Install, Steps
  <2>3. CASE Restart(c)
    BY <2>3 DEF Restart, Steps
  <2>4. CASE ApplyFails(c)
    BY <2>4 DEF ApplyFails, Steps
  <2>5. CASE Snapshot(c) \/ Fetch(c) \/ FetchFails(c) \/ Store(c) \/ EndRefresh(c) \/ Sanitize(c)
    BY <1>1, <2>5 DEF Snapshot, Fetch, FetchFails, Store, EndRefresh, Sanitize
  <2>6. CASE FinishAdd(c)
    BY <1>1, <2>6 DEF FinishAdd
  <2> QED
    BY <1>2, <2>1, <2>2, <2>3, <2>4, <2>5, <2>6 DEF Work
<1>3. ASSUME NEW c \in Callers, Request(c) PROVE StackInv'
  BY <1>1, <1>3
     DEF Request, BeginRefresh, BeginRefreshAll, Begin, BeginApply, BeginAdd, UpdateSelection
<1>4. ASSUME Edit \/ FeedChanges \/ UNCHANGED vars PROVE StackInv'
  BY <1>1, <1>4
     DEF Edit, DeleteSubscription, DeleteNode, AddManualNode, FeedChanges, local, xray, vars
<1>5. CASE PanelCrashes
  BY <1>5 DEF PanelCrashes
<1> QED
  BY <1>2, <1>3, <1>4, <1>5 DEF Next

TypeInv == TasksInv /\ AddsInv /\ Listed(Ids) /\ ServersInv /\ StackInv

LEMMA TypeInvNext ==
  ASSUME EnoughIds, TypeInv, [Next]_vars
  PROVE  TypeInv'
<1> USE DEF TypeInv
<1>1. TasksInv' /\ AddsInv' /\ Listed(Ids)' /\ StackInv'
  BY TasksNext, AddsNext, ListedNext, StackNext, FreshIds
<1>2. ASSUME NEW c \in Callers, Request(c) PROVE ServersInv'
  BY <1>2, ServersSelect DEF Request, BeginRefresh, BeginRefreshAll, Begin, BeginApply, BeginAdd,
       selection, ServersInv
<1>3. ASSUME PanelCrashes PROVE ServersInv'
  BY <1>3 DEF PanelCrashes, selection, ServersInv
<1>4. ASSUME UNCHANGED <<nodes, selection, old>> PROVE ServersInv'
  BY <1>4 DEF selection, ServersInv
<1>5. ServersInv'
  BY <1>2, <1>3, <1>4, ServersWork, ServersEdit DEF Next, FeedChanges, local, selection, vars
<1> QED
  BY <1>1, <1>5

\* No refresh, however late its list comes, and no request puts a server into the list twice
\* or gives two servers one ID; nothing is selected twice, no subscription is there twice.
THEOREM TypeCorrect == ASSUME EnoughIds PROVE Spec => []TypeOK
<1>1. TypeInv => TypeOK
  <2> SUFFICES ASSUME TypeInv PROVE TypeOK
    OBVIOUS
  <2>1. nodes \in Seq([id : Ids, link : Links, sub : Subs \cup {Manual}]) /\ Distinct(nodes)
    BY DEF TypeInv, Listed, Server, ServersInv
  <2>2. IsInjective(IdsOf(nodes)) /\ IsInjective([i \in DOMAIN nodes |-> nodes[i].link])
    BY <2>1, DistinctSequences DEF Server
  <2> QED
    BY <2>1, <2>2 DEF TypeInv, TasksInv, Steps, AddsInv, Listed, ServersInv, StackInv, TypeOK
<1>2. Init => TypeInv
  <2>1. Init => Listed(Ids)
    BY SelectionInit DEF SelectionInv
  <2> QED
    BY <2>1, TasksInit, AddsInit, ServersInit, StackInit DEF TypeInv
<1>3. TypeInv /\ [Next]_vars => TypeInv'
  BY TypeInvNext
<1> QED
  BY <1>1, <1>2, <1>3, PTL DEF Spec

-----------------------------------------------------------------------------
(* When nothing is under way, xray runs what is selected.                  *)

\* Nothing is chosen or deleted by hand, and no list is empty.
OnlyRefreshes ==
  /\ AutoApply
  /\ Ops \subseteq {"refresh", "refreshAll", "add", "manual", "apply"}
  /\ <<>> \notin Lists

Chosen == Selected(nodes, active, fallback)

\* A config with these servers is one that an Apply would generate now.
Right(links) == Chosen = {} \/ links = LinksUnder(Chosen)

\* The caller will generate a config.
Pending(c) == pc[c] \in {"apply", "generate"} \/ dirty[c]

\* The caller has the newest config, and is about to install it.
Newest(c) == pc[c] = "install" /\ c \notin overtaken

\* Unless a config will be generated, the newest is right, and it will be installed or is.
Covered ==
  \/ \E c \in Callers : Pending(c)
  \/ /\ \A c \in Callers : Newest(c) => Right(generated[c])
     /\ (\E c \in Callers : Newest(c)) \/ lagging \/ config = {} \/ Right(config)

One(ids) == \A i, j \in ToSet(ids) : i = j

\* A config has been made of a selection that was not empty, and none becomes so.
MadeOfSome ==
  running # {} \/ config # {} \/ (\E c \in Callers : pc[c] = "install") => active # <<>>

\* Where a request can be when it has to apply, and when it has fetched.
Places ==
  \A c \in Callers : /\ dirty[c] => pc[c] \in {"next", "fetch", "store"}
                     /\ pc[c] = "store" => got[c] \in Lists

\* What is in the config file runs, or is about to.
Restarted == lagging \/ running = config \/ \E c \in Callers : pc[c] = "restart"

AppliedInv == One(active) /\ MadeOfSome /\ Places /\ Covered /\ Restarted

LEMMA SingleIs ==
  ASSUME NEW T, NEW seq \in Seq(T), IsInjective(seq), NEW x, ToSet(seq) = {x}
  PROVE  seq = <<x>>
<1>1. Len(seq) \in Nat /\ DOMAIN seq = 1..Len(seq) /\ \A i \in 1..Len(seq) : seq[i] = x
  BY ToSetIs
<1>2. seq # <<>>
  BY EmptyIs
<1>3. Len(seq) # 0
  BY <1>2
<1>4. ~(Len(seq) >= 2)
  BY <1>1 DEF IsInjective
<1>5. Len(seq) = 1
  BY <1>1, <1>3, <1>4
<1> QED
  BY <1>1, <1>5

LEMMA ShortIsOne == \A ids : One(First(ids)) /\ \A id : One(<<id>>)
<1>1. \A id : ToSet(<<id>>) = {id}
  BY DEF ToSet
<1>2. ToSet(<<>>) = {}
  BY DEF ToSet
<1> QED
  BY <1>1, <1>2 DEF First, One

LEMMA SelectedIs ==
  ASSUME NEW ns, NEW act, NEW fb, ToSet(act) \subseteq ToSet(IdsOf(ns))
  PROVE  Selected(ns, act, fb) = IF fb # <<>> THEN ToSet(fb) \cap ToSet(act) ELSE ToSet(act)
BY DEF Selected

\* What was listed and stays listed under its ID stays the same server.
LEMMA LinksStay ==
  ASSUME nodes \in Seq(Server(Ids)), nodes' \in Seq(Server(Ids)), Distinct(nodes'),
         NEW ids, ids \subseteq ToSet(IdsOf(nodes)),
         \A n \in ToSet(nodes) : n.id \in ids =>
           \E m \in ToSet(nodes') : m.id = n.id /\ m.link = n.link
  PROVE  LinksUnder(ids)' = LinksUnder(ids)
<1>1. ToSet(IdsOf(nodes)) = {n.id : n \in ToSet(nodes)}
  BY IdsOfIs
<1>2. \A m, n \in ToSet(nodes') : m.id = n.id => m = n
  BY DEF Distinct
<1>3. LinksUnder(ids)' = {n.link : n \in {m \in ToSet(nodes') : m.id \in ids}}
  BY DEF LinksUnder
<1>4. ASSUME NEW m \in ToSet(nodes'), m.id \in ids
      PROVE  \E n \in ToSet(nodes) : n.id = m.id /\ n.link = m.link
  <2>1. PICK n \in ToSet(nodes) : n.id = m.id
    BY <1>1, <1>4
  <2> QED
    BY <1>2, <1>4, <2>1
<1> QED
  BY <1>3, <1>4 DEF LinksUnder

\* A merge leaves the servers that were there, and those that it drops it leaves unlisted.
LEMMA MergeStays ==
  ASSUME EnoughIds, Listed(Ids), Distinct(nodes), NEW ns \in Seq(Server(Ids)),
         Distinct(ns), ToSet(ns) \subseteq ToSet(nodes), NEW list \in Seq(Links),
         NEW s \in Subs \cup {Manual}, nodes' = Merge(ns, list, s),
         NEW ids, ids \subseteq ToSet(IdsOf(nodes)), ids \subseteq ToSet(IdsOf(nodes'))
  PROVE  LinksUnder(ids)' = LinksUnder(ids)
<1>1. \A i \in Nat \ {0} : Fresh(i) \in Unused /\ Fresh(i) \in Ids
  BY FreshIds
<1>2. nodes \in Seq(Server(Ids))
  BY DEF Listed
<1>3. /\ ToSet(IdsOf(nodes)) = {n.id : n \in ToSet(nodes)}
      /\ ToSet(IdsOf(ns)) = {n.id : n \in ToSet(ns)}
  BY <1>2, IdsOfIs
<1>4. nodes' \in Seq(Server(Ids)) /\ Distinct(nodes')
  BY <1>1, <1>3, MergeListed, MergeDistinct
<1>5. /\ \A n \in ToSet(ns) : \E m \in ToSet(nodes') : m.id = n.id /\ m.link = n.link
      /\ \A m \in ToSet(nodes') :
           \/ \E n \in ToSet(ns) : m.id = n.id /\ m.link = n.link
           \/ \E i \in Nat \ {0} : m.id = Fresh(i)
  BY <1>1, MergeIs
<1>6. ToSet(IdsOf(nodes')) = {n.id : n \in ToSet(nodes')}
  BY <1>4, IdsOfIs
<1>7. ASSUME NEW n \in ToSet(nodes), n.id \in ids
      PROVE  \E m \in ToSet(nodes') : m.id = n.id /\ m.link = n.link
  <2>1. PICK m \in ToSet(nodes') : m.id = n.id
    BY <1>6, <1>7
  <2>2. ~ \E i \in Nat \ {0} : m.id = Fresh(i)
    BY <1>1, <1>7, <2>1 DEF Unused
  <2>3. PICK o \in ToSet(ns) : m.id = o.id
    BY <1>5, <2>2
  <2>4. o = n
    BY <2>1, <2>3 DEF Distinct
  <2> QED
    BY <1>5, <2>3, <2>4
<1> QED
  BY <1>2, <1>4, <1>7, LinksStay

\* A list that is not empty leaves a server.
LEMMA MergeNonempty ==
  ASSUME EnoughIds, Listed(Ids), NEW ns \in Seq(Server(Ids)), NEW list \in Seq(Links),
         list # <<>>, NEW s \in Subs \cup {Manual}
  PROVE  Merge(ns, list, s) # <<>>
<1>1. PICK merged : merged = Merge(ns, list, s)
  OBVIOUS
<1>2. /\ merged \in Seq(Server(Ids))
      /\ \A n \in ToSet(ns) : \E m \in ToSet(merged) : m.id = n.id /\ m.link = n.link
  BY <1>1, FreshIds, MergeIs
<1>3. CASE ns # <<>>
  BY <1>1, <1>2, <1>3, EmptyIs
<1>4. CASE ns = <<>>
  <2>1. PICK new : new = New(ns, list)
    OBVIOUS
  <2>2. PICK a : a = Added(new, s)
    OBVIOUS
  <2>3. LinksOf(ns) = {}
    BY <1>4, EmptyIs DEF LinksOf
  <2>4. new \in Seq(Links) /\ ToSet(new) = ToSet(list)
    <3>1. new \in Seq(Links) /\ ToSet(new) = ToSet(list) \ LinksOf(ns)
      BY <2>1, NewIs, Zenon
    <3> QED
      BY <2>3, <3>1
  <2>5. new # <<>>
    BY <2>4, EmptyIs
  <2>6. a \in Seq(Server(Ids)) /\ Len(a) = Len(new)
    BY <2>2, <2>4, FreshIds, AddedIs
  <2>7. a # <<>>
    BY <2>4, <2>5, <2>6
  <2>8. Handed(ns, list, s) \in Seq(Server(Ids))
    BY HandedIs
  <2>9. merged = Handed(ns, list, s) \o a
    BY <1>1, <2>1, <2>2 DEF Merge, New
  <2>10. ToSet(a) \subseteq ToSet(merged)
    BY <2>6, <2>8, <2>9, ConcatToSet
  <2> QED
    BY <1>1, <1>2, <2>6, <2>7, <2>10, EmptyIs
<1> QED
  BY <1>3, <1>4

\* A repair that calls for no Apply leaves the choice as it is, or leaves none.
LEMMA QuietReselect ==
  ASSUME active \in Seq(Ids), fallback \in Seq(Ids), IsInjective(active), One(active),
         ToSet(active) \subseteq ToSet(IdsOf(nodes)),
         NEW ns \in Seq(Server(Ids)), NEW s, NEW before, NEW changed,
         Reselect(ns, s, before, changed),
         LinksOf(Owned(ns, s)) = before, changed = FALSE
  PROVE  \/ Selected(ns, active', fallback') = {}
         \/ Selected(ns, active', fallback') = Selected(nodes, active, fallback)
<1>1. PICK valid : valid = Live(active, ns)
  OBVIOUS
<1>2. valid \in Seq(Ids) /\ ToSet(valid) = ToSet(active) \cap ToSet(IdsOf(ns))
  BY <1>1, LiveIs
<1>3. valid = <<>> <=> ToSet(valid) = {}
  BY <1>2, EmptyIs
<1>4. ToSet(active') \subseteq ToSet(IdsOf(ns))
  BY ReselectIs
<1>5. Selected(nodes, active, fallback) =
        IF fallback # <<>> THEN ToSet(fallback) \cap ToSet(active) ELSE ToSet(active)
  BY SelectedIs
<1>6. Selected(ns, active', fallback') =
        IF fallback' # <<>> THEN ToSet(fallback') \cap ToSet(active') ELSE ToSet(active')
  BY <1>4, SelectedIs
<1>7. CASE /\ active' = valid /\ valid # <<>>
           /\ fallback' = IF fallback = <<>> THEN valid ELSE fallback
  <2>1. ToSet(valid) = ToSet(active)
    BY <1>2, <1>3, <1>7 DEF One
  <2> QED
    BY <1>5, <1>6, <1>7, <2>1
<1>8. CASE active' = active /\ fallback' = fallback
  BY <1>5, <1>6, <1>8
<1>9. CASE active' = active /\ valid = <<>>
  <2>1. ToSet(active') = {}
    BY <1>2, <1>3, <1>4, <1>9
  <2> QED
    BY <1>6, <2>1
<1>10. CASE active' = active /\ valid # <<>> /\ valid # active
  <2>1. ToSet(active) = ToSet(valid)
    BY <1>2, <1>4, <1>10
  <2>2. PICK id : ToSet(valid) = {id}
    BY <1>3, <1>10, <2>1 DEF One
  <2>3. IsInjective(valid)
    BY <1>1, KeptInjective DEF Live
  <2>4. valid = <<id>> /\ active = <<id>>
    BY <1>2, <2>1, <2>2, <2>3, SingleIs
  <2> QED
    BY <1>10, <2>4
<1>11. \/ /\ active' = valid /\ valid # <<>>
          /\ fallback' = IF fallback = <<>> THEN valid ELSE fallback
       \/ active' = active /\ fallback' = fallback
       \/ active' = active /\ valid = <<>>
       \/ active' = active /\ valid # <<>> /\ valid # active
  BY <1>1 DEF Reselect
<1> QED
  BY <1>7, <1>8, <1>9, <1>10, <1>11

LEMMA ReselectOne ==
  ASSUME active \in Seq(Ids), fallback \in Seq(Ids), One(active),
         NEW ns \in Seq(Server(Ids)), NEW s, NEW before, NEW changed,
         Reselect(ns, s, before, changed)
  PROVE  /\ One(active')
         /\ active # <<>> /\ ns # <<>> => active' # <<>>
<1>1. PICK valid : valid = Live(active, ns)
  OBVIOUS
<1>2. PICK first : first = IdsOf(PreferVless(ns))
  OBVIOUS
<1>3. One(valid)
  BY <1>1, LiveIs DEF One
<1>4. One(First(first)) /\ \A id : One(<<id>>)
  BY ShortIsOne
<1>5. Sanitized(ns, active, fallback).active = IF valid # <<>> THEN valid ELSE First(first)
  BY <1>1, <1>2 DEF Sanitized
<1>6. ns # <<>> => First(first) # <<>>
  BY <1>2, PreferredIds DEF First
<1>7. \/ active' = valid /\ (valid # <<>> \/ valid = active)
      \/ active' = Sanitized(ns, active, fallback).active
      \/ \E id : active' = <<id>>
  BY <1>1 DEF Reselect
<1>8. \A id : <<id>> # <<>>
  OBVIOUS
<1>9. CASE active' = valid /\ (valid # <<>> \/ valid = active)
  BY <1>3, <1>9
<1>10. CASE active' = IF valid # <<>> THEN valid ELSE First(first)
  BY <1>3, <1>4, <1>6, <1>10
<1>11. ASSUME NEW id, active' = <<id>> PROVE One(active') /\ active' # <<>>
  BY <1>4, <1>8, <1>11, Zenon
<1> QED
  BY <1>5, <1>7, <1>9, <1>10, <1>11

\* No request gives up an Apply it owes, starts to install or stops to.
Keeps ==
  \A c \in Callers : /\ Pending(c) => Pending(c)'
                     /\ pc[c] = "install" <=> pc'[c] = "install"
                     /\ pc[c] = "restart" => pc'[c] = "restart"

\* Then what was covered is, if a config generated now is the same or fails.
LEMMA CoveredStays ==
  ASSUME Covered, UNCHANGED xray, Keeps,
         Chosen' = {} \/ (Chosen' = Chosen /\ LinksUnder(Chosen)' = LinksUnder(Chosen))
  PROVE  Covered'
<1>1. PICK links : links = LinksUnder(Chosen)
  OBVIOUS
<1>2. CASE \E c \in Callers : Pending(c)
  BY <1>2 DEF Covered, Keeps
<1>3. CASE ~ \E c \in Callers : Pending(c)
  <2>1. \A c \in Callers : Newest(c)' <=> Newest(c)
    BY DEF Newest, Keeps, xray
  <2>2. /\ \A c \in Callers : Newest(c) => Chosen = {} \/ generated[c] = links
        /\ \/ \E c \in Callers : Newest(c)
           \/ lagging \/ config = {} \/ Chosen = {} \/ config = links
    BY <1>1, <1>3 DEF Covered, Right
  <2>3. Chosen' = {} \/ (Chosen' = Chosen /\ LinksUnder(Chosen)' = links)
    BY <1>1
  <2>4. \A c \in Callers : Newest(c)' => Chosen' = {} \/ generated'[c] = LinksUnder(Chosen)'
    BY <2>1, <2>2, <2>3 DEF xray
  <2>5. \/ \E c \in Callers : Newest(c)'
        \/ lagging' \/ config' = {} \/ Chosen' = {} \/ config' = LinksUnder(Chosen)'
    BY <2>1, <2>2, <2>3 DEF xray
  <2> QED
    BY <2>4, <2>5 DEF Covered, Right
<1> QED
  BY <1>2, <1>3

\* A step that leaves the list, the selection and the configs alone.
LEMMA AppliedStays ==
  ASSUME AppliedInv, UNCHANGED <<nodes, active, fallback, xray>>, Places', Keeps
  PROVE  AppliedInv'
<1>1. Chosen' = Chosen /\ LinksUnder(Chosen)' = LinksUnder(Chosen)
  BY DEF Chosen, LinksUnder
<1>2. Covered'
  BY <1>1, CoveredStays DEF AppliedInv
<1>3. MadeOfSome' /\ Restarted'
  BY DEF AppliedInv, MadeOfSome, Restarted, Keeps, xray
<1> QED
  BY <1>2, <1>3 DEF AppliedInv, One

LEMMA SelectedListed ==
  ASSUME NEW ns, NEW act, NEW fb
  PROVE  Selected(ns, act, fb) \subseteq ToSet(act) \cap ToSet(IdsOf(ns))
BY DEF Selected

LEMMA AppliedStore ==
  ASSUME OnlyRefreshes, EnoughIds, TypeInv, TypeInv', AppliedInv, NEW c \in Callers, Store(c)
  PROVE  AppliedInv'
<1>1. /\ active \in Seq(Ids) /\ fallback \in Seq(Ids) /\ nodes \in Seq(Server(Ids))
      /\ Listed(Ids) /\ Distinct(nodes) /\ IsInjective(active)
      /\ ToSet(active) \subseteq ToSet(IdsOf(nodes)) /\ TasksInv /\ nodes' \in Seq(Server(Ids))
  BY DEF TypeInv, Listed, ActiveIsListed, ServersInv
<1>2. /\ One(active) /\ MadeOfSome /\ Places /\ Covered /\ Restarted
      /\ pc[c] = "store" /\ got[c] \in Lists /\ got[c] # <<>>
  BY DEF AppliedInv, Places, Store, At, OnlyRefreshes
<1>3. PICK others : others = Without(nodes, Head(todo[c]))
  OBVIOUS
<1>4. /\ Head(todo[c]) \in Subs /\ others \in Seq(Server(Ids)) /\ got[c] \in Seq(Links)
      /\ nodes' = Merge(others, got[c], Head(todo[c]))
  BY <1>1, <1>3, FreshIds, RefreshedIs
<1>5. Distinct(others) /\ ToSet(others) \subseteq ToSet(nodes)
  <2>1. Distinct(others)
    BY <1>1, <1>3, KeptDistinct DEF Without
  <2>2. ToSet(others) \subseteq ToSet(nodes)
    BY <1>1, <1>3, WithoutIs
  <2> QED
    BY <2>1, <2>2
<1>6. PICK changed \in BOOLEAN :
        /\ Reselect(nodes', Head(todo[c]), old[c], changed)
        /\ dirty' = [dirty EXCEPT ![c] =
                       @ \/ changed \/ LinksOf(Owned(nodes', Head(todo[c]))) # old[c]]
  BY DEF Store
<1>7. nodes' # <<>>
  BY <1>1, <1>2, <1>4, MergeNonempty
<1>8. One(active') /\ (active # <<>> => active' # <<>>)
  BY <1>1, <1>2, <1>6, <1>7, ReselectOne
<1>9. /\ pc'[c] = "next"
      /\ \A d \in Callers \ {c} : pc'[d] = pc[d] /\ dirty'[d] = dirty[d] /\ got'[d] = got[d]
  BY <1>1, <1>6 DEF Store, Goto, TasksInv
<1>10. Places' /\ UNCHANGED xray
  BY <1>2, <1>9 DEF Places, Store
<1>11. dirty'[c] <=> dirty[c] \/ changed \/ LinksOf(Owned(nodes', Head(todo[c]))) # old[c]
  BY <1>1, <1>6 DEF TasksInv
<1>12. Keeps
  BY <1>2, <1>9, <1>11 DEF Keeps, Pending
<1>13. MadeOfSome' /\ Restarted'
  BY <1>2, <1>8, <1>10, <1>12 DEF MadeOfSome, Restarted, Keeps, xray
<1>14. Covered'
  <2>1. CASE dirty'[c]
    BY <2>1 DEF Covered, Pending
  <2>2. CASE ~dirty'[c]
    <3>1. LinksOf(Owned(nodes', Head(todo[c]))) = old[c] /\ changed = FALSE
      BY <1>11, <2>2
    <3>2. PICK chosen : chosen = Chosen
      OBVIOUS
    <3>3. Chosen' = {} \/ Chosen' = chosen
      BY <1>1, <1>2, <1>6, <3>1, <3>2, QuietReselect DEF Chosen
    <3>4. ASSUME Chosen' = chosen PROVE LinksUnder(Chosen)' = LinksUnder(Chosen)
      <4>1. chosen \subseteq ToSet(IdsOf(nodes)) /\ chosen \subseteq ToSet(IdsOf(nodes'))
        BY <3>2, <3>4, SelectedListed DEF Chosen
      <4>2. LinksUnder(chosen)' = LinksUnder(chosen)
        BY <1>1, <1>4, <1>5, <4>1, MergeStays
      <4>3. LinksUnder(Chosen)' = LinksUnder(chosen)'
        BY <3>4 DEF LinksUnder
      <4> QED
        BY <3>2, <4>2, <4>3
    <3> QED
      BY <1>2, <1>10, <1>12, <3>2, <3>3, <3>4, CoveredStays
  <2> QED
    BY <2>1, <2>2
<1> QED
  BY <1>8, <1>10, <1>13, <1>14 DEF AppliedInv

\* A server that is added, by hand or with a subscription, changes nothing that is selected.
LEMMA AppliedMerge ==
  ASSUME EnoughIds, TypeInv, TypeInv', AppliedInv, NEW list \in Seq(Links),
         NEW s \in Subs \cup {Manual}, nodes' = Merge(nodes, list, s),
         UNCHANGED <<active, fallback, xray>>, Places', Keeps
  PROVE  AppliedInv'
<1>1. /\ Listed(Ids) /\ nodes \in Seq(Server(Ids)) /\ Distinct(nodes)
      /\ ToSet(active) \subseteq ToSet(IdsOf(nodes))
      /\ ToSet(active) \subseteq ToSet(IdsOf(nodes'))
  BY DEF TypeInv, Listed, ActiveIsListed, ServersInv
<1>2. PICK chosen : chosen = Chosen
  OBVIOUS
<1>3. Chosen' = chosen
  <2>1. PICK ns : ns = nodes'
    OBVIOUS
  <2>2. /\ Selected(ns, active, fallback) =
             IF fallback # <<>> THEN ToSet(fallback) \cap ToSet(active) ELSE ToSet(active)
        /\ Selected(nodes, active, fallback) =
             IF fallback # <<>> THEN ToSet(fallback) \cap ToSet(active) ELSE ToSet(active)
    BY <1>1, <2>1, SelectedIs, Zenon
  <2> QED
    BY <1>2, <2>1, <2>2 DEF Chosen
<1>4. chosen \subseteq ToSet(active)
  BY <1>2, SelectedListed DEF Chosen
<1>5. LinksUnder(chosen)' = LinksUnder(chosen)
  BY <1>1, <1>4, MergeStays
<1>6. LinksUnder(Chosen)' = LinksUnder(chosen)'
  BY <1>3 DEF LinksUnder
<1>7. Covered'
  BY <1>2, <1>3, <1>5, <1>6, CoveredStays DEF AppliedInv
<1>8. MadeOfSome' /\ Restarted'
  BY DEF AppliedInv, MadeOfSome, Restarted, Keeps, xray
<1> QED
  BY <1>7, <1>8 DEF AppliedInv, One

\* The steps of an Apply after sanitizeSelection change neither the list nor the selection.
LEMMA AppliedApply ==
  ASSUME TypeInv, AppliedInv, NEW c \in Callers,
         Generate(c) \/ Install(c) \/ Restart(c) \/ ApplyFails(c)
  PROVE  AppliedInv'
<1>1. /\ pc \in [Callers -> Steps] /\ dirty \in [Callers -> BOOLEAN]
      /\ active \in Seq(Ids) /\ ToSet(active) \subseteq ToSet(IdsOf(nodes))
      /\ generated \in [Callers -> SUBSET Links]
      /\ overtaken \subseteq {d \in Callers : pc[d] = "install"} /\ lagging \in BOOLEAN
  BY DEF TypeInv, TasksInv, Listed, ActiveIsListed, StackInv
<1>2. One(active) /\ MadeOfSome /\ Places /\ Covered /\ Restarted
  BY DEF AppliedInv
<1>3. PICK links : links = LinksUnder(Chosen)
  OBVIOUS
<1>4. PICK chosen : chosen = Chosen
  OBVIOUS
<1>5. UNCHANGED <<nodes, active, fallback, dirty, got>>
  BY DEF Generate, Install, Restart, ApplyFails, selection
<1>6. Chosen' = chosen /\ LinksUnder(Chosen)' = links
  BY <1>3, <1>4, <1>5 DEF Chosen, LinksUnder
<1>7. \A d \in Callers \ {c} : pc'[d] = pc[d]
  BY <1>1 DEF Generate, Install, Restart, ApplyFails, Goto
<1>8. pc[c] \in {"apply", "generate", "install", "restart"} /\ ~dirty[c]
  BY <1>2 DEF Generate, Install, Restart, ApplyFails, At, Places
<1>9. pc'[c] \in {"idle", "install", "restart"}
  BY <1>1 DEF Generate, Install, Restart, ApplyFails, Goto
<1>10. Places' /\ One(active')
  BY <1>2, <1>5, <1>7, <1>8, <1>9 DEF Places, One
<1>11. \A d \in Callers \ {c} : Pending(d)' <=> Pending(d)
  BY <1>5, <1>7 DEF Pending
<1>12. \/ \E d \in Callers : Pending(d)
       \/ /\ \A d \in Callers : Newest(d) => chosen = {} \/ generated[d] = links
          /\ \/ \E d \in Callers : Newest(d)
             \/ lagging \/ config = {} \/ chosen = {} \/ config = links
  BY <1>2, <1>3, <1>4 DEF Covered, Right
<1>13. ASSUME \/ \E d \in Callers : Pending(d)'
              \/ /\ \A d \in Callers : Newest(d)' => chosen = {} \/ generated'[d] = links
                 /\ \/ \E d \in Callers : Newest(d)'
                    \/ lagging' \/ config' = {} \/ chosen = {} \/ config' = links
       PROVE  Covered'
  BY <1>6, <1>13 DEF Covered, Right
<1>14. CASE Generate(c)
  <2>1. /\ pc[c] = "generate" /\ UNCHANGED <<running, config, lagging>>
        /\ chosen # {} => /\ generated' = [generated EXCEPT ![c] = links]
                          /\ overtaken' = {d \in Callers \ {c} : pc[d] = "install"}
                          /\ pc'[c] = "install"
        /\ chosen = {} => UNCHANGED <<generated, overtaken>> /\ pc'[c] = "idle"
    BY <1>1, <1>3, <1>4, <1>14 DEF Generate, At, Goto, Chosen
  <2>2. chosen # {} => active # <<>>
    BY <1>1, <1>4, SelectedListed, EmptyIs DEF Chosen
  <2>3. MadeOfSome' /\ Restarted'
    BY <1>2, <1>5, <1>7, <2>1, <2>2 DEF MadeOfSome, Restarted
  <2>4. CASE chosen # {}
    <3>1. Newest(c)' /\ generated'[c] = links
      BY <1>1, <2>1, <2>4 DEF Newest
    <3>2. \A d \in Callers \ {c} : ~Newest(d)'
      BY <1>7, <2>1, <2>4 DEF Newest
    <3> QED
      BY <1>10, <1>13, <2>3, <3>1, <3>2 DEF AppliedInv
  <2>5. CASE chosen = {}
    BY <1>10, <1>13, <2>3, <2>5 DEF AppliedInv
  <2> QED
    BY <2>4, <2>5
<1>15. CASE Install(c)
  <2>1. /\ pc[c] = "install" /\ pc'[c] = "restart" /\ UNCHANGED running
        /\ config' = generated[c] /\ lagging' = (c \in overtaken)
        /\ overtaken' = overtaken \ {c}
        /\ \A d \in Callers \ {c} : generated'[d] = generated[d]
    BY <1>1, <1>15 DEF Install, At, Goto
  <2>2. MadeOfSome' /\ Restarted'
    BY <1>2, <1>5, <1>7, <2>1 DEF MadeOfSome, Restarted
  <2>3. ~Pending(c) /\ ~Newest(c)'
    BY <1>8, <2>1 DEF Pending, Newest
  <2>4. \A d \in Callers \ {c} : Newest(d)' <=> Newest(d)
    BY <1>7, <2>1 DEF Newest
  <2>5. Newest(c) \/ lagging'
    BY <2>1 DEF Newest
  <2>6. Covered'
    BY <1>11, <1>12, <1>13, <2>1, <2>3, <2>4, <2>5
  <2> QED
    BY <1>10, <2>2, <2>6 DEF AppliedInv
<1>16. CASE Restart(c)
  <2>1. /\ pc[c] = "restart" /\ pc'[c] = "idle" /\ running' = config
        /\ UNCHANGED <<config, generated, overtaken, lagging>>
    BY <1>1, <1>16 DEF Restart, At, Goto
  <2>2. MadeOfSome' /\ Restarted'
    BY <1>2, <1>5, <1>7, <2>1 DEF MadeOfSome, Restarted
  <2>3. ~Pending(c) /\ \A d \in Callers : Newest(d)' <=> Newest(d)
    BY <1>7, <1>8, <2>1 DEF Pending, Newest
  <2>4. Covered'
    BY <1>11, <1>12, <1>13, <2>1, <2>3
  <2> QED
    BY <1>10, <2>2, <2>4 DEF AppliedInv
<1>17. CASE ApplyFails(c)
  <2>1. /\ pc'[c] = "idle" /\ running' \in {running, {}} /\ UNCHANGED config
        /\ lagging' = (lagging \/ c \notin overtaken)
        /\ overtaken' = IF c \in overtaken \/ pc[c] = "restart" THEN overtaken \ {c}
                        ELSE {d \in Callers \ {c} : pc[d] = "install"}
        /\ \A d \in Callers \ {c} : generated'[d] = generated[d]
    BY <1>1, <1>17 DEF ApplyFails, At, Goto
  <2>2. MadeOfSome'
    BY <1>2, <1>5, <1>7, <2>1 DEF MadeOfSome
  <2>3. Restarted'
    <3>1. CASE lagging'
      BY <3>1 DEF Restarted
    <3>2. CASE ~lagging'
      <4>1. c \in overtaken /\ pc[c] = "install" /\ ~lagging
        BY <1>1, <2>1, <3>2
      <4>2. running' = running
        BY <1>17, <4>1 DEF ApplyFails, At
      <4> QED
        BY <1>2, <1>7, <2>1, <4>1, <4>2 DEF Restarted
    <3> QED
      BY <3>1, <3>2
  <2>4. CASE c \in overtaken
    <3>1. pc[c] = "install" /\ lagging' = lagging /\ overtaken' = overtaken \ {c}
      BY <1>1, <2>1, <2>4
    <3>2. ~Pending(c) /\ ~Newest(c) /\ ~Newest(c)'
      BY <1>8, <2>1, <2>4, <3>1 DEF Pending, Newest
    <3>3. \A d \in Callers \ {c} : Newest(d)' <=> Newest(d)
      BY <1>7, <3>1 DEF Newest
    <3>4. Covered'
      BY <1>11, <1>12, <1>13, <2>1, <3>1, <3>2, <3>3
    <3> QED
      BY <1>10, <2>2, <2>3, <3>4 DEF AppliedInv
  <2>5. CASE c \notin overtaken /\ pc[c] = "restart"
    <3>1. ~Pending(c) /\ lagging'
      BY <1>8, <2>1, <2>5 DEF Pending
    <3>2. ~Newest(c)' /\ \A d \in Callers \ {c} : Newest(d)' <=> Newest(d)
      BY <1>7, <2>1, <2>5 DEF Newest
    <3>3. Covered'
      BY <1>11, <1>12, <1>13, <2>1, <3>1, <3>2
    <3> QED
      BY <1>10, <2>2, <2>3, <3>3 DEF AppliedInv
  <2>6. CASE c \notin overtaken /\ pc[c] # "restart"
    <3>1. lagging' /\ \A d \in Callers : ~Newest(d)'
      BY <1>7, <2>1, <2>6 DEF Newest
    <3>2. Covered'
      BY <1>13, <3>1
    <3> QED
      BY <1>10, <2>2, <2>3, <3>2 DEF AppliedInv
  <2> QED
    BY <2>4, <2>5, <2>6
<1> QED
  BY <1>14, <1>15, <1>16, <1>17

LEMMA AppliedWork ==
  ASSUME OnlyRefreshes, EnoughIds, TypeInv, TypeInv', AppliedInv, NEW c \in Callers, Work(c)
  PROVE  AppliedInv'
<1>1. /\ active \in Seq(Ids) /\ fallback \in Seq(Ids) /\ nodes \in Seq(Server(Ids))
      /\ ToSet(active) \subseteq ToSet(IdsOf(nodes))
      /\ pc \in [Callers -> Steps]
      /\ dirty \in [Callers -> BOOLEAN] /\ got \in [Callers -> Lists \cup {<<>>}]
      /\ todo \in [Callers -> Seq(Subs)] /\ feed \in [Subs -> Lists] /\ TasksInv
  BY DEF TypeInv, Listed, ActiveIsListed, TasksInv
<1>2. One(active) /\ MadeOfSome /\ Places /\ Covered /\ Restarted
  BY DEF AppliedInv
<1>3. CASE Snapshot(c)
  <2>1. Places' /\ Keeps
    BY <1>1, <1>2, <1>3 DEF Snapshot, Places, At, Goto, Keeps, Pending
  <2> QED
    BY <1>3, <2>1, AppliedStays DEF Snapshot, selection
<1>4. CASE Fetch(c)
  <2>1. feed[Head(todo[c])] \in Lists
    BY <1>1, <1>4, TailIs DEF Fetch, TasksInv, At
  <2>2. Places' /\ Keeps
    BY <1>1, <1>2, <1>4, <2>1 DEF Fetch, Places, At, Goto, Keeps, Pending
  <2> QED
    BY <1>4, <2>2, AppliedStays DEF Fetch, selection
<1>5. CASE FetchFails(c)
  <2>1. Places' /\ Keeps
    BY <1>1, <1>2, <1>5 DEF FetchFails, Places, At, Goto, Keeps, Pending
  <2> QED
    BY <1>5, <2>1, AppliedStays DEF FetchFails, selection
<1>6. CASE EndRefresh(c)
  <2>1. Places' /\ Keeps
    BY <1>1, <1>2, <1>6 DEF EndRefresh, Places, At, Goto, Keeps, Pending, OnlyRefreshes
  <2> QED
    BY <1>6, <2>1, AppliedStays DEF EndRefresh, selection
<1>7. CASE Sanitize(c)
  <2>1. PICK sound : sound = Sanitized(nodes, active, fallback)
    OBVIOUS
  <2>2. PICK first : first = First(IdsOf(PreferVless(nodes)))
    OBVIOUS
  <2>3. sound.active = IF Live(active, nodes) # <<>> THEN Live(active, nodes) ELSE first
    BY <2>1, <2>2 DEF Sanitized
  <2>4. One(first) /\ One(Live(active, nodes))
    <3>1. One(first)
      BY <2>2, ShortIsOne
    <3>2. ToSet(Live(active, nodes)) = ToSet(active) \cap ToSet(IdsOf(nodes))
      BY <1>1, LiveIs, Zenon
    <3>3. One(Live(active, nodes))
      BY <1>2, <3>2 DEF One
    <3> QED
      BY <3>1, <3>3
  <2>5. active # <<>> => Live(active, nodes) # <<>>
    <3>1. Live(active, nodes) \in Seq(Ids)
      BY <1>1, LiveIs, Zenon
    <3>2. ToSet(Live(active, nodes)) = ToSet(active) \cap ToSet(IdsOf(nodes))
      BY <1>1, LiveIs, Zenon
    <3>3. ToSet(Live(active, nodes)) = ToSet(active)
      BY <1>1, <3>2, Zenon
    <3> QED
      BY <1>1, <3>1, <3>3, EmptyIs
  <2>6. active' = sound.active /\ UNCHANGED xray
    BY <1>7, <2>1 DEF Sanitize
  <2>7. One(active') /\ (active # <<>> => active' # <<>>)
    BY <1>2, <2>3, <2>4, <2>5, <2>6
  <2>8. Places' /\ Keeps /\ Pending(c)'
    BY <1>1, <1>2, <1>7 DEF Sanitize, Places, At, Goto, Keeps, Pending
  <2>9. MadeOfSome' /\ Restarted'
    BY <1>2, <2>6, <2>7, <2>8 DEF MadeOfSome, Restarted, Keeps, xray
  <2> QED
    BY <2>7, <2>8, <2>9 DEF AppliedInv, Covered
<1>8. CASE FinishAdd(c)
  <2>1. Places' /\ Keeps /\ UNCHANGED xray
    BY <1>1, <1>2, <1>8 DEF FinishAdd, Places, At, Goto, Keeps, Pending
  <2>2. CASE active # <<>>
    <3>1. UNCHANGED <<active, fallback, xray>> /\ nodes' = Merge(nodes, got[c], Head(todo[c]))
      BY <1>8, <2>2 DEF FinishAdd
    <3>2. Head(todo[c]) \in Subs /\ got[c] \in Seq(Links)
      BY <1>1, <1>8, TailIs, GotIsList DEF FinishAdd, TasksInv, At
    <3> QED
      BY <2>1, <3>1, <3>2, AppliedMerge
  <2>3. CASE active = <<>>
    <3>1. config = {} /\ \A d \in Callers : pc[d] # "install"
      BY <1>2, <2>3 DEF MadeOfSome
    <3>2. PICK changed : Reselect(nodes', Head(todo[c]), {}, changed)
      BY <1>8, <2>3 DEF FinishAdd
    <3>3. nodes' \in Seq(Server(Ids))
      BY DEF TypeInv, Listed
    <3>4. One(active')
      BY <1>1, <1>2, <3>2, <3>3, ReselectOne
    <3>5. MadeOfSome' /\ Restarted' /\ Covered'
      BY <1>2, <2>1, <2>3, <3>1
         DEF MadeOfSome, Restarted, Covered, Newest, Keeps, xray
    <3> QED
      BY <2>1, <3>4, <3>5 DEF AppliedInv
  <2> QED
    BY <2>2, <2>3
<1> QED
  BY <1>3, <1>4, <1>5, <1>6, <1>7, <1>8, AppliedStore, AppliedApply DEF Work

LEMMA AppliedOther ==
  ASSUME OnlyRefreshes, EnoughIds, TypeInv, TypeInv', AppliedInv,
         (\E c \in Callers : Request(c)) \/ Edit \/ FeedChanges \/ PanelCrashes \/ UNCHANGED vars
  PROVE  AppliedInv'
<1>1. /\ One(active) /\ MadeOfSome /\ Places /\ pc \in [Callers -> Steps]
      /\ got \in [Callers -> Lists \cup {<<>>}]
  BY DEF AppliedInv, TypeInv, TasksInv
<1>2. ASSUME UNCHANGED local PROVE Places' /\ Keeps
  BY <1>1, <1>2 DEF Places, local, Keeps, Pending
<1>3. ASSUME NEW c \in Callers, Request(c) PROVE AppliedInv'
  <2>1. BeginRefresh(c) \/ BeginRefreshAll(c) \/ BeginApply(c) \/ BeginAdd(c)
    BY <1>3 DEF Request, UpdateSelection, OnlyRefreshes
  <2>2. UNCHANGED <<nodes, active, fallback, xray>>
    BY <2>1 DEF BeginRefresh, BeginRefreshAll, Begin, BeginApply, BeginAdd, selection
  <2>3. /\ pc[c] = "idle" /\ \E step \in {"next", "apply", "add"} : pc' = [pc EXCEPT ![c] = step]
        /\ dirty' = dirty /\ \A d \in Callers \ {c} : got'[d] = got[d]
    BY <1>1, <2>1 DEF BeginRefresh, BeginRefreshAll, Begin, BeginApply, BeginAdd, At, Goto
  <2>4. Places' /\ Keeps
    BY <1>1, <2>3 DEF Places, Keeps, Pending
  <2> QED
    BY <2>2, <2>4, AppliedStays
<1>4. ASSUME Edit PROVE AppliedInv'
  <2>1. PICK h \in Links : AddManualNode(h)
    BY <1>4 DEF Edit, DeleteSubscription, DeleteNode, OnlyRefreshes
  <2>2. nodes' = Merge(nodes, <<h>>, Manual) /\ UNCHANGED <<active, fallback, xray>>
    BY <2>1 DEF AddManualNode, selection
  <2>3. Places' /\ Keeps
    BY <1>2, <2>1 DEF AddManualNode
  <2>4. <<h>> \in Seq(Links)
    OBVIOUS
  <2> QED
    BY <2>2, <2>3, <2>4, AppliedMerge
<1>5. ASSUME FeedChanges \/ UNCHANGED vars PROVE AppliedInv'
  <2>1. UNCHANGED <<nodes, active, fallback, xray>> /\ UNCHANGED local
    BY <1>5 DEF FeedChanges, selection, local, xray, vars
  <2> QED
    BY <1>2, <2>1, AppliedStays
<1>6. CASE PanelCrashes
  <2>1. /\ UNCHANGED <<active, running, config>> /\ lagging'
        /\ \A c \in Callers : pc'[c] = "idle" /\ ~dirty'[c]
    BY <1>6 DEF PanelCrashes, selection
  <2>2. One(active') /\ MadeOfSome' /\ Places' /\ Covered' /\ Restarted'
    BY <1>1, <2>1 DEF One, MadeOfSome, Places, Covered, Newest, Restarted
  <2> QED
    BY <2>2 DEF AppliedInv
<1> QED
  BY <1>3, <1>4, <1>5, <1>6

\* Where every change is a refresh, an added server or an Apply: with auto-apply, whenever no
\* request is under way xray runs the selected servers, for any number of refreshes that
\* overlap, answers however late, failed Applies and crashes, unless the newest config was not
\* installed, or one older than it was installed after it (IdleMeansApplied).
THEOREM AppliedWhenIdle ==
  ASSUME OnlyRefreshes, EnoughIds
  PROVE  Spec => []IdleMeansApplied
<1>1. Init => TypeInv /\ AppliedInv
  <2>1. Init => Listed(Ids)
    BY SelectionInit DEF SelectionInv
  <2>2. Init => TypeInv
    BY <2>1, TasksInit, AddsInit, ServersInit, StackInit DEF TypeInv
  <2>3. ToSet(<<>>) = {}
    BY DEF ToSet
  <2>4. Init => AppliedInv
    BY <2>3 DEF Init, AppliedInv, One, MadeOfSome, Places, Covered, Newest, Restarted
  <2> QED
    BY <2>2, <2>4
<1>2. TypeInv /\ AppliedInv /\ [Next]_vars => TypeInv' /\ AppliedInv'
  <2> SUFFICES ASSUME TypeInv, AppliedInv, [Next]_vars PROVE TypeInv' /\ AppliedInv'
    OBVIOUS
  <2>1. TypeInv'
    BY TypeInvNext
  <2>2. AppliedInv'
    BY <2>1, AppliedWork, AppliedOther DEF Next
  <2> QED
    BY <2>1, <2>2
<1>3. AppliedInv => IdleMeansApplied
  BY DEF AppliedInv, Places, Covered, Pending, Newest, Right, Chosen, Restarted, IdleMeansApplied, At
<1> QED
  BY <1>1, <1>2, <1>3, PTL DEF Spec

=============================================================================
