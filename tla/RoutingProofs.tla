---------------------------- MODULE RoutingProofs ----------------------------
(***************************************************************************)
(* Proofs about the routing rules: what is saved, what the page shows and  *)
(* what xray gets, for any routings a client or a backup may hold and any  *)
(* selection; and where, together with the tables, a packet for the home   *)
(* network goes.                                                           *)
(*                                                                         *)
(* Whatever is sent as the order, its normal form has each action once     *)
(* (OrderOf).  So the list that is built is three filters of the user's    *)
(* rules, one after the other, whose positions are disjoint (BuiltCounts). *)
(***************************************************************************)
EXTENDS GuestTrafficProofs, SublistsProofs

-----------------------------------------------------------------------------
(* The order of the actions.                                               *)

LEMMA ThreeActions == IsFiniteSet(Actions) /\ Cardinality(Actions) = 3
<1>1. IsFiniteSet({"direct"}) /\ Cardinality({"direct"}) = 1
  BY FS_Singleton
<1>2. IsFiniteSet({"direct"} \cup {"proxy"}) /\ Cardinality({"direct"} \cup {"proxy"}) = 2
  BY <1>1, FS_AddElement
<1>3. /\ IsFiniteSet(({"direct"} \cup {"proxy"}) \cup {"block"})
      /\ Cardinality(({"direct"} \cup {"proxy"}) \cup {"block"}) = 3
  <2>1. "block" \notin {"direct"} \cup {"proxy"}
    OBVIOUS
  <2> QED
    BY <1>2, <2>1, FS_AddElement
<1>4. Actions = ({"direct"} \cup {"proxy"}) \cup {"block"}
  BY DEF Actions
<1> QED
  BY <1>3, <1>4

LEMMA ActionNames == Actions \subseteq Texts
BY TrafficAssumption

\* The first occurrences in a list, which are those of different actions.
LEMMA FirstOnesIs ==
  ASSUME NEW list \in Seq(Texts)
  PROVE  /\ FirstOnes(list) \in Seq(Actions)
         /\ IsInjective(FirstOnes(list))
         /\ ToSet(FirstOnes(list)) = Actions \cap ToSet(list)
<1> DEFINE first == {i \in DOMAIN list :
                      list[i] \in Actions /\ \A j \in 1..(i - 1) : list[j] # list[i]}
           ids == [i \in DOMAIN list |-> i]
<1>1. Len(list) \in Nat /\ DOMAIN list = 1..Len(list)
  OBVIOUS
<1>2. /\ ids \in Seq(1..Len(list)) /\ IsInjective(ids)
      /\ ToSet(ids) = 1..Len(list)
  BY <1>1 DEF IsInjective, ToSet
<1>3. PICK at : at = Kept(ids, first)
  OBVIOUS
<1>4. first \subseteq 1..Len(list)
  BY <1>1
<1> HIDE DEF ids
<1>5. at \in Seq(1..Len(list)) /\ ToSet(at) = first /\ IsInjective(at)
  <2> HIDE DEF first
  <2>1. /\ Kept(ids, first) \in Seq(1..Len(list))
        /\ ToSet(Kept(ids, first)) = ToSet(ids) \cap first
    BY <1>2, KeptMembers, Zenon
  <2>2. IsInjective(Kept(ids, first))
    BY <1>2, KeptInjective, Zenon
  <2>3. (1..Len(list)) \cap first = first
    BY <1>4
  <2> QED
    BY <1>2, <1>3, <2>1, <2>2, <2>3, Zenon
<1>6. PICK ones : ones = [n \in DOMAIN at |-> list[at[n]]]
  OBVIOUS
<1>7. ones = FirstOnes(list)
  BY <1>3, <1>6 DEF FirstOnes, ids
<1>8. /\ Len(at) \in Nat /\ DOMAIN at = 1..Len(at)
      /\ \A n \in 1..Len(at) : at[n] \in first /\ ones[n] = list[at[n]]
      /\ \A m, n \in 1..Len(at) : at[m] = at[n] => m = n
      /\ \A i \in first : \E n \in 1..Len(at) : at[n] = i
  <2> HIDE DEF first
  <2> QED
    BY <1>5, <1>6 DEF ToSet, IsInjective
<1>9. ones \in Seq(Actions) /\ DOMAIN ones = 1..Len(at) /\ Len(ones) = Len(at)
  BY <1>6, <1>8
<1>10. \A i, j \in first : list[i] = list[j] => i = j
  BY <1>1
<1>11. IsInjective(ones)
  <2> HIDE DEF first
  <2>1. ASSUME NEW m \in 1..Len(at), NEW n \in 1..Len(at), ones[m] = ones[n] PROVE m = n
    BY <1>8, <1>10, <2>1
  <2> QED
    BY <1>9, <2>1 DEF IsInjective
<1>12. ASSUME NEW i \in 1..Len(list), list[i] \in Actions
       PROVE  \E n \in 1..Len(at) : ones[n] = list[i]
  <2> DEFINE T == {j \in 1..Len(list) : list[j] = list[i]}
  <2>1. PICK j \in T : \A k \in T : j <= k
    <3>1. T \subseteq Nat /\ T # {}
      BY <1>1
    <3> HIDE DEF T
    <3> QED
      BY <3>1, LeastElement
  <2>2. j \in first
    BY <1>1, <1>12, <2>1
  <2> QED
    BY <1>8, <2>1, <2>2
<1>13. ToSet(ones) \subseteq Actions \cap ToSet(list)
  BY <1>1, <1>8, <1>9 DEF ToSet
<1>14. ToSet(ones) = Actions \cap ToSet(list)
  BY <1>1, <1>9, <1>12, <1>13 DEF ToSet
<1> QED
  BY <1>7, <1>9, <1>11, <1>14

\* An order of the actions.
Permuted == {o \in Seq(Actions) : Len(o) = 3 /\ IsInjective(o) /\ ToSet(o) = Actions}

LEMMA OrderOf ==
  ASSUME NEW order \in Seq(Texts)
  PROVE  NormalizeRuleOrder(order) \in Permuted
<1> DEFINE list == order \o DefaultOrder
           o == NormalizeRuleOrder(order)
<1>1. DefaultOrder \in Seq(Texts) /\ ToSet(DefaultOrder) = Actions
  <2>1. PICK d : d = <<"direct", "proxy", "block">>
    OBVIOUS
  <2>2. /\ d \in Seq(Texts) /\ DOMAIN d = {1, 2, 3}
        /\ d[1] = "direct" /\ d[2] = "proxy" /\ d[3] = "block"
    <3>1. Len(d) = 3 /\ DOMAIN d = 1..3 /\ 1..3 = {1, 2, 3}
      BY <2>1
    <3>2. d[1] = "direct" /\ d[2] = "proxy" /\ d[3] = "block"
      BY <2>1
    <3>3. d \in Seq(Texts)
      <4>1. d \in Seq(Actions)
        BY <2>1 DEF Actions
      <4> QED
        BY <4>1, ActionNames, SeqMonotonic
    <3> QED
      BY <3>1, <3>2, <3>3
  <2>3. ToSet(d) = Actions
    BY <2>2 DEF Actions, ToSet
  <2> QED
    BY <2>1, <2>2, <2>3 DEF DefaultOrder
<1>2. list \in Seq(Texts) /\ Actions \subseteq ToSet(list)
  BY <1>1, ConcatToSet
<1>3. o \in Seq(Actions) /\ IsInjective(o) /\ ToSet(o) = Actions
  BY <1>2, FirstOnesIs DEF NormalizeRuleOrder
<1> HIDE DEF o
<1>4. o \in Bijection(1..Len(o), Actions)
  <2>1. Len(o) \in Nat /\ DOMAIN o = 1..Len(o) /\ o \in [1..Len(o) -> Actions]
    BY <1>3
  <2>2. \A i, j \in 1..Len(o) : o[i] = o[j] => i = j
    BY <1>3, <2>1 DEF IsInjective
  <2>3. \A a \in Actions : \E i \in 1..Len(o) : o[i] = a
    BY <1>3, <2>1 DEF ToSet
  <2> QED
    BY <2>1, <2>2, <2>3 DEF Bijection, Injection, Surjection, IsInjective
<1>5. Len(o) \in Nat /\ IsFiniteSet(1..Len(o)) /\ Cardinality(1..Len(o)) = Len(o)
  <2>1. Len(o) \in Nat /\ Len(o) \in Int /\ 1 \in Int /\ (Len(o) - 1) + 1 = Len(o)
    BY <1>3
  <2>2. /\ IsFiniteSet(1..Len(o))
        /\ Cardinality(1..Len(o)) = IF 1 > Len(o) THEN 0 ELSE (Len(o) - 1) + 1
    BY <2>1, FS_Interval, Zenon
  <2> QED
    BY <2>1, <2>2
<1>6. Len(o) = 3
  BY <1>4, <1>5, FS_Bijection, ThreeActions DEF ExistsBijection
<1> QED
  BY <1>3, <1>6 DEF o, Permuted

-----------------------------------------------------------------------------
(* The rules, sorted by their action.                                      *)

LEMMA FlattenThree ==
  ASSUME NEW ss, Len(ss) = 3
  PROVE  FlattenSeq(ss) = (ss[1] \o ss[2]) \o ss[3]
<1>1. PICK a, b, c : ss[1] = a /\ ss[2] = b /\ ss[3] = c
  OBVIOUS
<1>2. Len(ss) = 3
  OBVIOUS
<1> DEFINE Flat(f) == f = [i \in 1..Len(ss) |-> IF i = 1 THEN ss[i] ELSE f[i - 1] \o ss[i]]
           f3 == [i \in 1..3 |-> IF i = 1 THEN a ELSE IF i = 2 THEN a \o b ELSE (a \o b) \o c]
<1>3. Flat(f3)
  <2>1. f3[1] = a /\ f3[2] = a \o b /\ f3[3] = (a \o b) \o c
    OBVIOUS
  <2>2. ASSUME NEW i \in 1..3
        PROVE  f3[i] = IF i = 1 THEN ss[i] ELSE f3[i - 1] \o ss[i]
    <3> HIDE DEF f3
    <3>1. i = 1 \/ (i = 2 /\ i - 1 = 1) \/ (i = 3 /\ i - 1 = 2)
      OBVIOUS
    <3> QED
      BY <1>1, <2>1, <3>1
  <2>3. f3 = [i \in 1..3 |-> f3[i]]
    OBVIOUS
  <2> HIDE DEF f3
  <2>4. f3 = [i \in 1..3 |-> IF i = 1 THEN ss[i] ELSE f3[i - 1] \o ss[i]]
    BY <2>2, <2>3, Zenon
  <2> QED
    BY <1>2, <2>4
<1>4. PICK g : g = CHOOSE f : Flat(f)
  OBVIOUS
<1>5. FlattenSeq(ss) = g[Len(ss)]
  BY <1>2, <1>4 DEF FlattenSeq
<1>6. Flat(g)
  <2> HIDE DEF Flat
  <2> QED
    BY <1>3, <1>4
<1> DEFINE Step(i) == IF i = 1 THEN ss[i] ELSE g[i - 1] \o ss[i]
<1>7. \A i \in 1..3 : g[i] = Step(i)
  <2>1. g = [i \in 1..3 |-> Step(i)]
    BY <1>2, <1>6
  <2> HIDE DEF Step, Flat
  <2> QED
    BY <2>1, Zenon
<1>8. 1 \in 1..3 /\ 2 \in 1..3 /\ 3 \in 1..3 /\ 2 # 1 /\ 3 # 1 /\ 2 - 1 = 1 /\ 3 - 1 = 2
  OBVIOUS
<1>9. g[1] = a
  BY <1>1, <1>7
<1>10. g[2] = a \o b
  <2>1. g[2] = g[1] \o ss[2]
    BY <1>7, <1>8, Zenon
  <2> QED
    BY <1>1, <1>9, <2>1, Zenon
<1>11. g[3] = (a \o b) \o c
  <2>1. g[3] = g[2] \o ss[3]
    BY <1>7, <1>8, Zenon
  <2> QED
    BY <1>1, <1>10, <2>1, Zenon
<1> QED
  BY <1>1, <1>2, <1>5, <1>11

\* A routing in normal form.
NormalForm == {r \in Routings : r.order \in Permuted}

LEMMA NormalizeIs ==
  ASSUME NEW r \in Routings
  PROVE  /\ Normalize(r) \in NormalForm
         /\ Normalize(r).private = r.private /\ Normalize(r).hosts = r.hosts
         /\ DOMAIN Normalize(r).rules = DOMAIN r.rules
         /\ \A i \in DOMAIN r.rules : Normalize(r).rules[i] = Trimmed(r.rules[i])
<1> DEFINE new == [i \in DOMAIN r.rules |-> Trimmed(r.rules[i])]
<1>1. {"", "IPIfNonMatch", "proxy"} \subseteq Texts
  BY TrafficAssumption DEF Actions, Strategies
<1>2. Normalize(r) =
        [r EXCEPT !.strategy = IF r.strategy = "" THEN "IPIfNonMatch" ELSE r.strategy,
                  !.default = IF r.default = "" THEN "proxy" ELSE r.default,
                  !.order = NormalizeRuleOrder(r.order),
                  !.rules = new]
  BY DEF Normalize, Routings
<1>3. new \in Seq(RuleForms) /\ DOMAIN new = DOMAIN r.rules
  <2>1. r.rules \in Seq(RuleForms)
    BY DEF Routings
  <2>2. \A x \in RuleForms : Trimmed(x) \in RuleForms
    BY DEF RuleForms, Trimmed
  <2> QED
    BY <2>1, <2>2
<1>4. NormalizeRuleOrder(r.order) \in Permuted /\ Permuted \subseteq Seq(Texts)
  <2>1. r.order \in Seq(Texts)
    BY DEF Routings
  <2>2. \A o \in Seq(Actions) : o \in Seq(Texts)
    BY ActionNames, SeqMonotonic
  <2> QED
    BY <2>1, <2>2, OrderOf DEF Permuted
<1> HIDE DEF new
<1>5. /\ Normalize(r) \in Routings
      /\ Normalize(r).order = NormalizeRuleOrder(r.order)
      /\ Normalize(r).private = r.private /\ Normalize(r).hosts = r.hosts
      /\ Normalize(r).rules = new
  BY <1>2, <1>3, <1>4, <1>1 DEF Routings
<1> QED
  BY <1>3, <1>4, <1>5 DEF NormalForm, new

\* The enabled rules with an action, and those with a matcher.
Enabled(rules, action) == {rule \in ToSet(rules) : rule.enabled /\ rule.action = action}
WithMatcher == {rule \in RuleForms : HasMatcher(rule)}

LEMMA OrderedIs ==
  ASSUME NEW r \in NormalForm
  PROVE  Ordered(r) = (Kept(r.rules, Enabled(r.rules, r.order[1]))
                        \o Kept(r.rules, Enabled(r.rules, r.order[2])))
                        \o Kept(r.rules, Enabled(r.rules, r.order[3]))
<1>1. r.rules \in Seq(RuleForms) /\ Len(r.order) = 3 /\ DOMAIN r.order = 1..3
  BY DEF NormalForm, Routings, Permuted
<1>2. PICK a, b, c : /\ a = Kept(r.rules, Enabled(r.rules, r.order[1]))
                    /\ b = Kept(r.rules, Enabled(r.rules, r.order[2]))
                    /\ c = Kept(r.rules, Enabled(r.rules, r.order[3]))
  OBVIOUS
<1>4. PICK ss : ss = [i \in 1..3 |-> Kept(r.rules, Enabled(r.rules, r.order[i]))]
  OBVIOUS
<1>5. ss[1] = a /\ ss[2] = b /\ ss[3] = c /\ Len(ss) = 3
  BY <1>2, <1>4
<1>6. Ordered(r) = FlattenSeq(ss)
  BY <1>1, <1>4 DEF Ordered, Enabled
<1>7. FlattenSeq(ss) = (a \o b) \o c
  BY <1>5, FlattenThree, Zenon
<1> QED
  BY <1>2, <1>6, <1>7, Zenon

\* Only the members of a sequence matter to what is kept of it.
LEMMA KeptRelevant ==
  ASSUME NEW T, NEW seq \in Seq(T), NEW A, NEW B, ToSet(seq) \cap A = ToSet(seq) \cap B
  PROVE  Kept(seq, A) = Kept(seq, B)
<1>1. Kept(seq, ToSet(seq)) = seq
  BY KeptAll
<1>2. /\ Kept(Kept(seq, ToSet(seq)), A) = Kept(seq, ToSet(seq) \cap A)
      /\ Kept(Kept(seq, ToSet(seq)), B) = Kept(seq, ToSet(seq) \cap B)
  BY KeptKept
<1> QED
  BY <1>1, <1>2

\* The user's rules that xray gets are those of one action after the other
\* that have a matcher.
LEMMA MatchingIs ==
  ASSUME NEW r \in NormalForm
  PROVE  /\ Ordered(r) \in Seq(RuleForms)
         /\ ToSet(Ordered(r)) = {rule \in ToSet(r.rules) : rule.enabled /\ rule.action \in Actions}
         /\ Matching(Ordered(r)) =
              (Kept(r.rules, Enabled(r.rules, r.order[1]) \cap WithMatcher)
                \o Kept(r.rules, Enabled(r.rules, r.order[2]) \cap WithMatcher))
                \o Kept(r.rules, Enabled(r.rules, r.order[3]) \cap WithMatcher)
<1>1. r.rules \in Seq(RuleForms) /\ r.order \in Permuted
  BY DEF NormalForm, Routings
<1>2. PICK x, y, z : /\ x = Enabled(r.rules, r.order[1])
                    /\ y = Enabled(r.rules, r.order[2])
                    /\ z = Enabled(r.rules, r.order[3])
  OBVIOUS
<1>3. PICK a, b, c : a = Kept(r.rules, x) /\ b = Kept(r.rules, y) /\ c = Kept(r.rules, z)
  OBVIOUS
<1>4. /\ a \in Seq(RuleForms) /\ ToSet(a) = ToSet(r.rules) \cap x
      /\ b \in Seq(RuleForms) /\ ToSet(b) = ToSet(r.rules) \cap y
      /\ c \in Seq(RuleForms) /\ ToSet(c) = ToSet(r.rules) \cap z
  BY <1>1, <1>3, KeptMembers
<1>5. PICK ab : ab = a \o b
  OBVIOUS
<1>6. PICK flat : flat = ab \o c
  OBVIOUS
<1>7. Ordered(r) = flat
  BY <1>2, <1>3, <1>6, <1>5, OrderedIs, Zenon
<1>8. ab \in Seq(RuleForms) /\ ToSet(ab) = ToSet(a) \cup ToSet(b)
  BY <1>4, <1>5, ConcatToSet
<1>9. flat \in Seq(RuleForms) /\ ToSet(flat) = ToSet(ab) \cup ToSet(c)
  <2>1. c \in Seq(RuleForms) /\ ab \in Seq(RuleForms)
    BY <1>4, <1>8
  <2>2. /\ ab \o c \in Seq(RuleForms)
        /\ ToSet(ab \o c) = ToSet(ab) \cup ToSet(c)
    BY <2>1, ConcatToSet
  <2> QED
    BY <1>6, <2>2, Zenon
<1>10. Actions = {r.order[1], r.order[2], r.order[3]}
  <2>1. Len(r.order) = 3 /\ DOMAIN r.order = 1..3 /\ ToSet(r.order) = Actions /\ 1..3 = {1, 2, 3}
    BY <1>1 DEF Permuted
  <2> QED
    BY <2>1 DEF ToSet
<1>11. ToSet(flat) = {rule \in ToSet(r.rules) : rule.enabled /\ rule.action \in Actions}
  BY <1>2, <1>4, <1>8, <1>9, <1>10 DEF Enabled
<1>12. Matching(flat) = Kept(flat, WithMatcher)
  <2>1. ToSet(flat) \subseteq RuleForms
    BY <1>9, ToSetIs
  <2>2. ToSet(flat) \cap {rule \in ToSet(flat) : HasMatcher(rule)} = ToSet(flat) \cap WithMatcher
    BY <2>1 DEF WithMatcher
  <2> QED
    BY <1>9, <2>2, KeptRelevant DEF Matching
<1>13. Kept(flat, WithMatcher) = (Kept(a, WithMatcher) \o Kept(b, WithMatcher)) \o Kept(c, WithMatcher)
  <2>1. Kept(flat, WithMatcher) = Kept(ab, WithMatcher) \o Kept(c, WithMatcher)
    <3>1. c \in Seq(RuleForms) /\ ab \in Seq(RuleForms)
      BY <1>4, <1>8
    <3>2. Kept(ab \o c, WithMatcher) = Kept(ab, WithMatcher) \o Kept(c, WithMatcher)
      BY <3>1, KeptConcat
    <3> QED
      BY <1>6, <3>2, Zenon
  <2>2. Kept(ab, WithMatcher) = Kept(a, WithMatcher) \o Kept(b, WithMatcher)
    BY <1>4, <1>5, KeptConcat
  <2> QED
    BY <2>1, <2>2, Zenon
<1>14. /\ Kept(a, WithMatcher) = Kept(r.rules, x \cap WithMatcher)
       /\ Kept(b, WithMatcher) = Kept(r.rules, y \cap WithMatcher)
       /\ Kept(c, WithMatcher) = Kept(r.rules, z \cap WithMatcher)
  BY <1>1, <1>3, KeptKept
<1>15. Matching(Ordered(r)) = (Kept(r.rules, x \cap WithMatcher)
                                \o Kept(r.rules, y \cap WithMatcher))
                                \o Kept(r.rules, z \cap WithMatcher)
  BY <1>7, <1>12, <1>13, <1>14, Zenon
<1> QED
  BY <1>2, <1>7, <1>9, <1>11, <1>15, Zenon

\* Positions of the user's rules that xray should get.
Valid(rules) == {i \in DOMAIN rules : /\ rules[i].enabled /\ HasMatcher(rules[i])
                                      /\ rules[i].action \in Actions}

\* Each of them is in what is built, and counted once.
LEMMA BuiltCounts ==
  ASSUME NEW r \in NormalForm
  PROVE  /\ Matching(Ordered(r)) \in Seq(RuleForms)
         /\ Len(Matching(Ordered(r))) = Cardinality(Valid(r.rules))
         /\ \A i \in Valid(r.rules) : r.rules[i] \in ToSet(Matching(Ordered(r)))
<1>1. r.rules \in Seq(RuleForms) /\ r.order \in Permuted
  BY DEF NormalForm, Routings
<1> DEFINE W(k) == Wanted(r.rules, Enabled(r.rules, r.order[k]) \cap WithMatcher)
           K(k) == Kept(r.rules, Enabled(r.rules, r.order[k]) \cap WithMatcher)
<1>2. ASSUME NEW k \in 1..3
      PROVE  /\ K(k) \in Seq(RuleForms) /\ Len(K(k)) \in Nat
             /\ IsFiniteSet(W(k)) /\ Len(K(k)) = Cardinality(W(k))
             /\ ToSet(K(k)) = ToSet(r.rules) \cap (Enabled(r.rules, r.order[k]) \cap WithMatcher)
  BY <1>1, KeptMembers, KeptLength
<1>3. /\ Len(r.rules) \in Nat /\ DOMAIN r.rules = 1..Len(r.rules)
      /\ \A i \in 1..Len(r.rules) : r.rules[i] \in RuleForms /\ r.rules[i] \in ToSet(r.rules)
  BY <1>1 DEF ToSet
<1>4. \A k \in 1..3 : W(k) = {i \in 1..Len(r.rules) :
           r.rules[i].enabled /\ r.rules[i].action = r.order[k] /\ HasMatcher(r.rules[i])}
  BY <1>3 DEF Wanted, Enabled, WithMatcher
<1>5. /\ Actions = {r.order[1], r.order[2], r.order[3]}
      /\ r.order[1] # r.order[2] /\ r.order[1] # r.order[3] /\ r.order[2] # r.order[3]
  <2>1. /\ Len(r.order) = 3 /\ DOMAIN r.order = 1..3 /\ ToSet(r.order) = Actions
        /\ 1..3 = {1, 2, 3} /\ IsInjective(r.order)
    BY <1>1 DEF Permuted
  <2> QED
    BY <2>1 DEF ToSet, IsInjective
<1> HIDE DEF W, K
<1>6. 1 \in 1..3 /\ 2 \in 1..3 /\ 3 \in 1..3
  OBVIOUS
<1>7. Valid(r.rules) = (W(1) \cup W(2)) \cup W(3)
  BY <1>3, <1>4, <1>5, <1>6 DEF Valid
<1>8. W(1) \cap W(2) = {} /\ (W(1) \cup W(2)) \cap W(3) = {}
  BY <1>4, <1>5, <1>6
<1>9. /\ IsFiniteSet(W(1) \cup W(2))
      /\ Cardinality(W(1) \cup W(2)) = Cardinality(W(1)) + Cardinality(W(2)) - Cardinality(W(1) \cap W(2))
  BY <1>2, <1>6, FS_Union
<1>10. Cardinality((W(1) \cup W(2)) \cup W(3)) =
         Cardinality(W(1) \cup W(2)) + Cardinality(W(3)) - Cardinality((W(1) \cup W(2)) \cap W(3))
  BY <1>2, <1>6, <1>9, FS_Union
<1>11. Cardinality(Valid(r.rules)) = (Len(K(1)) + Len(K(2))) + Len(K(3))
  <2>1. /\ Len(K(1)) \in Nat /\ Len(K(1)) = Cardinality(W(1))
        /\ Len(K(2)) \in Nat /\ Len(K(2)) = Cardinality(W(2))
        /\ Len(K(3)) \in Nat /\ Len(K(3)) = Cardinality(W(3))
    BY <1>2, <1>6
  <2>2. /\ Cardinality(W(1) \cap W(2)) = 0
        /\ Cardinality((W(1) \cup W(2)) \cap W(3)) = 0
    BY <1>8, FS_EmptySet, Zenon
  <2> QED
    BY <1>7, <1>9, <1>10, <2>1, <2>2
<1>12. Matching(Ordered(r)) = (K(1) \o K(2)) \o K(3)
  BY MatchingIs DEF K
<1>13. PICK two : two = K(1) \o K(2)
  OBVIOUS
<1>14. /\ two \in Seq(RuleForms) /\ Len(two) = Len(K(1)) + Len(K(2))
       /\ ToSet(two) = ToSet(K(1)) \cup ToSet(K(2))
  BY <1>2, <1>6, <1>13, ConcatToSet, ConcatProperties
<1>15. /\ two \o K(3) \in Seq(RuleForms)
       /\ Len(two \o K(3)) = Len(two) + Len(K(3))
       /\ ToSet(two \o K(3)) = ToSet(two) \cup ToSet(K(3))
  <2>1. two \in Seq(RuleForms) /\ K(3) \in Seq(RuleForms)
    BY <1>2, <1>6, <1>14
  <2> QED
    BY <2>1, ConcatToSet, ConcatProperties
<1>16. ASSUME NEW i \in Valid(r.rules)
       PROVE  r.rules[i] \in (ToSet(K(1)) \cup ToSet(K(2))) \cup ToSet(K(3))
  <2>1. /\ r.rules[i] \in ToSet(r.rules) /\ r.rules[i] \in WithMatcher
        /\ \E k \in 1..3 : r.rules[i] \in Enabled(r.rules, r.order[k])
    BY <1>3, <1>5, <1>6 DEF Valid, WithMatcher, Enabled
  <2>2. PICK k \in 1..3 : r.rules[i] \in ToSet(K(k))
    BY <1>2, <2>1
  <2>3. k = 1 \/ k = 2 \/ k = 3
    OBVIOUS
  <2> QED
    BY <2>2, <2>3
<1> QED
  BY <1>11, <1>12, <1>13, <1>14, <1>16, <1>15

-----------------------------------------------------------------------------
(* The list of rules xray gets.                                            *)

Outbounds == {"api", "direct", "block", "balancer", "server"}
Built ==
  [inbound : {"api", "any", "guest"}, domains : SUBSET (Matchers \cup Texts),
   ips : SUBSET Matchers, outbound : Outbounds]
Chosen == [servers : Seq(Texts), balance : BOOLEAN]

LEMMA OutboundIs ==
  ASSUME NEW action, NEW s
  PROVE  Outbound(action, s) \in Outbounds
BY DEF Outbound, Outbounds

LEMMA UserRulesIs ==
  ASSUME NEW rules \in Seq(RuleForms), NEW s
  PROVE  /\ UserRules(rules, s) \in Seq(Built) /\ Len(UserRules(rules, s)) = Len(rules)
         /\ \A i \in 1..Len(rules) : UserRules(rules, s)[i] =
              Rule("any", rules[i].domains, rules[i].ips, Outbound(rules[i].action, s))
<1>1. /\ Len(rules) \in Nat /\ DOMAIN rules = 1..Len(rules)
      /\ \A i \in 1..Len(rules) : rules[i] \in RuleForms
  OBVIOUS
<1>2. PICK u : u = [i \in 1..Len(rules) |->
                     Rule("any", rules[i].domains, rules[i].ips, Outbound(rules[i].action, s))]
  OBVIOUS
<1>3. u = UserRules(rules, s)
  BY <1>1, <1>2 DEF UserRules
<1>4. ASSUME NEW x \in RuleForms
      PROVE  Rule("any", x.domains, x.ips, Outbound(x.action, s)) \in Built
  BY OutboundIs DEF Rule, Built, RuleForms
<1>5. u \in Seq(Built) /\ Len(u) = Len(rules)
  BY <1>1, <1>2, <1>4
<1> QED
  BY <1>2, <1>3, <1>5

\* The panel's rules: the API first, then the bypass of private addresses.
LEMMA SystemRulesIs ==
  ASSUME NEW r \in Routings, NEW s \in Chosen
  PROVE  /\ SystemRules(r, s) \in Seq(Built)
         /\ SystemRules(r, s)[1] = ApiRule /\ Len(SystemRules(r, s)) >= 1
         /\ r.private => Len(SystemRules(r, s)) >= 2 /\ SystemRules(r, s)[2] = PrivateRule
<1>1. PICK api, private, hosts :
        /\ api = <<ApiRule>>
        /\ private = IF r.private THEN <<PrivateRule>> ELSE <<>>
        /\ hosts = IF r.hosts THEN HostRules(s) ELSE <<>>
  OBVIOUS
<1>2. ApiRule \in Built /\ PrivateRule \in Built
  BY DEF ApiRule, PrivateRule, Rule, Built, Outbounds, Matchers, Destinations, Bypassed
<1>3. HostRules(s) \in Seq(Built)
  <2>1. PICK named : named = Kept(s.servers, ToSet(s.servers) \ {""})
    OBVIOUS
  <2>2. s.servers \in Seq(Texts)
    BY DEF Chosen
  <2>3. named \in Seq(Texts)
    BY <2>1, <2>2, KeptMembers
  <2>4. \A x \in Texts : Rule("any", {x}, {}, "direct") \in Built
    BY DEF Rule, Built, Outbounds
  <2>5. [i \in DOMAIN named |-> Rule("any", {named[i]}, {}, "direct")] \in Seq(Built)
    <3>1. Len(named) \in Nat /\ DOMAIN named = 1..Len(named) /\ \A i \in 1..Len(named) : named[i] \in Texts
      BY <2>3
    <3>2. \A i \in 1..Len(named) : Rule("any", {named[i]}, {}, "direct") \in Built
      BY <2>4, <3>1
    <3> QED
      BY <3>1, <3>2
  <2> QED
    BY <2>1, <2>5 DEF HostRules
<1>4. api \in Seq(Built) /\ Len(api) = 1 /\ api[1] = ApiRule
  BY <1>1, <1>2
<1>5. /\ private \in Seq(Built)
      /\ r.private => Len(private) = 1 /\ private[1] = PrivateRule
  BY <1>1, <1>2
<1>6. hosts \in Seq(Built)
  BY <1>1, <1>3
<1>7. PICK two : two = api \o private
  OBVIOUS
<1>8. /\ two \in Seq(Built) /\ Len(two) = 1 + Len(private) /\ two[1] = ApiRule
      /\ r.private => two[2] = PrivateRule
  <2>1. Len(private) \in Nat
    BY <1>5
  <2>2. /\ two \in Seq(Built) /\ Len(two) = Len(api) + Len(private)
        /\ \A i \in 1..Len(api) + Len(private) : two[i] =
             IF i <= Len(api) THEN api[i] ELSE private[i - Len(api)]
    BY <1>4, <1>5, <1>7, ConcatProperties
  <2>3. 1 \in 1..1 + Len(private)
    BY <2>1
  <2>4. two[1] = ApiRule
    BY <1>4, <2>2, <2>3
  <2>5. ASSUME r.private PROVE two[2] = PrivateRule
    BY <1>4, <1>5, <2>2, <2>5
  <2> QED
    BY <1>4, <2>2, <2>4, <2>5
<1>9. PICK all : all = two \o hosts
  OBVIOUS
<1>10. all = SystemRules(r, s)
  BY <1>1, <1>7, <1>9 DEF SystemRules
<1>11. /\ all \in Seq(Built) /\ Len(all) = Len(two) + Len(hosts)
       /\ \A i \in 1..Len(two) : all[i] = two[i]
  <2>1. two \in Seq(Built) /\ hosts \in Seq(Built)
    BY <1>6, <1>8
  <2> QED
    BY <1>9, <2>1
<1>12. Len(private) \in Nat /\ Len(hosts) \in Nat
  BY <1>5, <1>6
<1> QED
  BY <1>5, <1>8, <1>10, <1>11, <1>12

\* What is built: the panel's rules, the user's, and the default for the guests.
LEMMA BuildIs ==
  ASSUME NEW routing \in Routings, NEW s \in Chosen, NEW n, n = Normalize(routing)
  PROVE  /\ BuildRouting(routing, s) =
              (SystemRules(n, s) \o UserRules(Matching(Ordered(n)), s))
                \o <<Rule("guest", {}, {}, Outbound(n.default, s))>>
         /\ n \in NormalForm /\ n \in Routings
         /\ SystemRules(n, s) = SystemRules(routing, s)
         /\ SystemRules(n, s) \in Seq(Built)
         /\ UserRules(Matching(Ordered(n)), s) \in Seq(Built)
         /\ Rule("guest", {}, {}, Outbound(n.default, s)) \in Built
<1>1. n \in NormalForm /\ n.private = routing.private /\ n.hosts = routing.hosts
  BY NormalizeIs
<1>2. n \in Routings
  BY <1>1 DEF NormalForm
<1>3. Rule("guest", {}, {}, Outbound(n.default, s)) \in Built
  BY OutboundIs DEF Rule, Built
<1>4. UserRules(Matching(Ordered(n)), s) \in Seq(Built)
  BY <1>1, BuiltCounts, UserRulesIs
<1>5. SystemRules(n, s) = SystemRules(routing, s)
  BY <1>1 DEF SystemRules
<1>6. BuildRouting(routing, s) =
        (SystemRules(n, s) \o UserRules(Matching(Ordered(n)), s))
          \o <<Rule("guest", {}, {}, Outbound(n.default, s))>>
  BY DEF BuildRouting
<1> QED
  BY <1>1, <1>2, <1>3, <1>4, <1>5, <1>6, SystemRulesIs, Zenon

-----------------------------------------------------------------------------
(* What is saved and what runs.                                            *)

\* A saved routing has no empty lines.
SavedForm == {r \in Routings : \A i \in DOMAIN r.rules : Blank \notin r.rules[i].domains \cup r.rules[i].ips}

LEMMA NormalizedIsSavedForm ==
  ASSUME NEW r \in Routings
  PROVE  Normalize(r) \in SavedForm
<1>1. Normalize(r) \in Routings
  BY NormalizeIs DEF NormalForm
<1>2. ASSUME NEW i \in DOMAIN Normalize(r).rules
      PROVE  Blank \notin Normalize(r).rules[i].domains \cup Normalize(r).rules[i].ips
  <2>1. i \in DOMAIN r.rules /\ Normalize(r).rules[i] = Trimmed(r.rules[i])
    BY NormalizeIs
  <2>2. r.rules[i] \in RuleForms
    BY <2>1 DEF Routings
  <2> QED
    BY <2>1, <2>2 DEF Trimmed, RuleForms
<1> QED
  BY <1>1, <1>2 DEF SavedForm

LEMMA DefaultIsSavedForm == DefaultRouting \in SavedForm
<1>1. DefaultOrder \in Seq(Actions)
  BY DEF DefaultOrder, Actions
<1>2. DefaultOrder \in Seq(Texts)
  BY <1>1, ActionNames, SeqMonotonic
<1>3. {"IPIfNonMatch", "proxy"} \subseteq Texts
  BY TrafficAssumption DEF Actions, Strategies
<1>4. <<>> \in Seq(RuleForms) /\ DOMAIN <<>> = {}
  OBVIOUS
<1> QED
  BY <1>2, <1>3, <1>4 DEF DefaultRouting, SavedForm, Routings

LEMMA SavedIs ==
  ASSUME TypeOK
  PROVE  saved \in SavedForm
BY TrafficAssumption, NormalizedIsSavedForm, DefaultIsSavedForm DEF TypeOK

\* Normalizing again leaves the rules as they are.
LEMMA NormalizedTwice ==
  ASSUME NEW r \in SavedForm
  PROVE  r \in Routings /\ Normalize(r).rules = r.rules
<1>1. r \in Routings /\ r.rules \in Seq(RuleForms)
  BY DEF SavedForm, Routings
<1>2. /\ Normalize(r).rules \in Seq(RuleForms)
      /\ DOMAIN Normalize(r).rules = DOMAIN r.rules
      /\ \A i \in DOMAIN r.rules : Normalize(r).rules[i] = Trimmed(r.rules[i])
  BY <1>1, NormalizeIs DEF NormalForm, Routings
<1>3. ASSUME NEW i \in DOMAIN r.rules PROVE Trimmed(r.rules[i]) = r.rules[i]
  <2>1. r.rules[i] \in RuleForms
    BY <1>1
  <2>2. /\ r.rules[i].domains \ {Blank} = r.rules[i].domains
        /\ r.rules[i].ips \ {Blank} = r.rules[i].ips
    BY DEF SavedForm
  <2> QED
    BY <2>1, <2>2 DEF Trimmed, RuleForms
<1>4. Len(Normalize(r).rules) = Len(r.rules)
  BY <1>1, <1>2
<1> QED
  BY <1>1, <1>2, <1>3, <1>4, SeqEqual

(***************************************************************************)
(* The routing page shows what the next Apply builds, for every selection  *)
(* and every routing that passes validation: then no enabled rule lacks a  *)
(* matcher, and the filter of BuildRouting drops nothing (PreviewIsBuilt). *)
(***************************************************************************)
THEOREM PreviewAlwaysBuilt == TrafficSpec => []PreviewIsBuilt
<1>1. TypeOK => PreviewIsBuilt
  <2> SUFFICES ASSUME TypeOK, ValidateRouting(saved), NEW s \in Selections
               PROVE  BuildRoutingPreview(saved, s) = BuildRouting(saved, s)
    BY DEF PreviewIsBuilt
  <2>1. PICK n : n = Normalize(saved)
    OBVIOUS
  <2>2. n \in NormalForm
    BY <2>1, SavedIs, NormalizeIs DEF SavedForm
  <2>3. \A i \in DOMAIN n.rules : n.rules[i].enabled => HasMatcher(n.rules[i])
    BY <2>1 DEF ValidateRouting
  <2>4. /\ Ordered(n) \in Seq(RuleForms)
        /\ ToSet(Ordered(n)) = {rule \in ToSet(n.rules) : rule.enabled /\ rule.action \in Actions}
    BY <2>2, MatchingIs
  <2>5. ToSet(Ordered(n)) \subseteq {rule \in ToSet(Ordered(n)) : HasMatcher(rule)}
    BY <2>3, <2>4 DEF ToSet
  <2>6. Matching(Ordered(n)) = Ordered(n)
    BY <2>4, <2>5, KeptAll DEF Matching
  <2> QED
    BY <2>1, <2>6 DEF BuildRoutingPreview, BuildRouting
<1> QED
  BY <1>1, TypeCorrect, PTL

\* What is between the panel's rules and the default.
LEMMA MiddleIs ==
  ASSUME NEW T, NEW a \in Seq(T), NEW b \in Seq(T), NEW x \in T, NEW all,
         all = (a \o b) \o <<x>>
  PROVE  SubSeq(all, Len(a) + 1, Len(all) - 1) = b
<1>1. PICK ab : ab = a \o b
  OBVIOUS
<1>2. /\ ab \in Seq(T) /\ Len(a) \in Nat /\ Len(b) \in Nat /\ Len(ab) = Len(a) + Len(b)
      /\ \A i \in 1..Len(b) : ab[Len(a) + i] = b[i]
  BY <1>1
<1>3. all = ab \o <<x>>
  BY <1>1
<1>4. all \in Seq(T) /\ Len(all) = Len(ab) + 1 /\ \A i \in 1..Len(ab) : all[i] = ab[i]
  <2>1. ab \in Seq(T)
    BY <1>2
  <2> QED
    BY <1>3, <2>1
<1>5. PICK sub : sub = SubSeq(all, Len(a) + 1, Len(all) - 1)
  OBVIOUS
<1>6. /\ sub \in Seq(T) /\ Len(sub) = Len(b)
      /\ \A i \in 1..Len(b) : sub[i] = all[Len(a) + i]
  BY <1>2, <1>4, <1>5
<1>7. \A i \in 1..Len(b) : sub[i] = b[i]
  <2>1. \A i \in 1..Len(b) : Len(a) + i \in 1..Len(ab)
    BY <1>2
  <2> QED
    BY <1>2, <1>4, <1>6, <2>1
<1> QED
  BY <1>5, <1>6, <1>7, SeqEqual

(***************************************************************************)
(* Whatever order, actions and rules a client sends or a backup holds, the *)
(* config has each enabled rule with a known action and a matcher, and no  *)
(* more rules of the user than those (NoRuleIsLost).                       *)
(***************************************************************************)
THEOREM RulesNeverLost == TrafficSpec => []NoRuleIsLost
<1>1. TypeOK => NoRuleIsLost
  <2> SUFFICES ASSUME TypeOK, NEW s \in Selections
               PROVE  LET all == BuildRouting(saved, s)
                          built == SubSeq(all, Len(SystemRules(saved, s)) + 1, Len(all) - 1)
                      IN  /\ Len(built) = Cardinality(Valid(saved.rules))
                          /\ \A i \in Valid(saved.rules) :
                               Contains(built, Rule("any", saved.rules[i].domains, saved.rules[i].ips,
                                                    Outbound(saved.rules[i].action, s)))
    BY DEF NoRuleIsLost, Valid
  <2>1. PICK n : n = Normalize(saved)
    OBVIOUS
  <2>2. saved \in Routings /\ s \in Chosen
    BY SavedIs, TrafficAssumption DEF SavedForm, Chosen
  <2>3. n.rules = saved.rules
    BY <2>1, SavedIs, NormalizedTwice
  <2>4. PICK sys, rules, user, last1, all, built :
          /\ sys = SystemRules(saved, s) /\ rules = Matching(Ordered(n)) /\ user = UserRules(rules, s)
          /\ last1 = Rule("guest", {}, {}, Outbound(n.default, s))
          /\ all = BuildRouting(saved, s)
          /\ built = SubSeq(all, Len(SystemRules(saved, s)) + 1, Len(all) - 1)
    OBVIOUS
  <2>5. /\ all = (sys \o user) \o <<last1>> /\ n \in NormalForm
        /\ sys \in Seq(Built) /\ user \in Seq(Built) /\ last1 \in Built
    BY <2>1, <2>2, <2>4, BuildIs
  <2>6. /\ rules \in Seq(RuleForms) /\ Len(rules) = Cardinality(Valid(saved.rules))
        /\ \A i \in Valid(saved.rules) : saved.rules[i] \in ToSet(rules)
    BY <2>3, <2>4, <2>5, BuiltCounts
  <2>7. /\ Len(user) = Len(rules)
        /\ \A i \in 1..Len(rules) : user[i] =
             Rule("any", rules[i].domains, rules[i].ips, Outbound(rules[i].action, s))
    BY <2>4, <2>6, UserRulesIs
  <2>8. built = user
    BY <2>4, <2>5, MiddleIs
  <2>9. ASSUME NEW i \in Valid(saved.rules)
        PROVE  Contains(user, Rule("any", saved.rules[i].domains, saved.rules[i].ips,
                                   Outbound(saved.rules[i].action, s)))
    <3>1. PICK j \in 1..Len(rules) : rules[j] = saved.rules[i]
      BY <2>6 DEF ToSet
    <3>2. /\ j \in 1..Len(user)
          /\ user[j] = Rule("any", saved.rules[i].domains, saved.rules[i].ips,
                            Outbound(saved.rules[i].action, s))
      BY <2>7, <3>1
    <3> QED
      BY <3>2 DEF Contains
  <2> QED
    BY <2>4, <2>6, <2>7, <2>8, <2>9
<1> QED
  BY <1>1, TypeCorrect, PTL

\* What runs was built from a routing that was saved.
RunningInv ==
  \/ running = NoRules
  \/ \E r \in SavedForm, s \in Selections :
       running = [routing |-> r, rules |-> BuildRouting(r, s)]

LEMMA RunningStays ==
  ASSUME TypeOK, RunningInv, [TrafficNext]_trafficVars
  PROVE  RunningInv'
<1>1. CASE UNCHANGED running
  BY <1>1 DEF RunningInv
<1>2. ASSUME NEW s \in Selections, Apply(s)
      PROVE  RunningInv'
  <2>1. running' = [routing |-> saved, rules |-> BuildRouting(saved, s)]
    BY <1>2 DEF Apply
  <2>2. saved \in SavedForm
    BY SavedIs
  <2> QED
    BY <2>1, <2>2 DEF RunningInv
<1>3. UNCHANGED running \/ \E s \in Selections : Apply(s)
  BY DEF TrafficNext, trafficVars, UpdateRouting, RestoreRouting, Refresh, FailOpen, ScriptRuns
<1> QED
  BY <1>1, <1>2, <1>3

\* The bypass of private addresses comes before every rule of the user.
LEMMA PrivateDirect ==
  ASSUME NEW r \in Routings, NEW s \in Chosen, r.private
  PROVE  Decide(BuildRouting(r, s), "private") = "direct"
<1>1. PICK n : n = Normalize(r)
  OBVIOUS
<1>2. PICK sys, user, last1, two, all :
        /\ sys = SystemRules(r, s) /\ user = UserRules(Matching(Ordered(n)), s)
        /\ last1 = Rule("guest", {}, {}, Outbound(n.default, s))
        /\ two = sys \o user /\ all = BuildRouting(r, s)
  OBVIOUS
<1>3. /\ all = two \o <<last1>>
      /\ sys \in Seq(Built) /\ user \in Seq(Built) /\ last1 \in Built
  BY <1>1, <1>2, BuildIs
<1>4. sys[1] = ApiRule /\ sys[2] = PrivateRule /\ Len(sys) >= 2 /\ Len(sys) \in Nat
  BY <1>2, <1>3, SystemRulesIs
<1>5. two \in Seq(Built) /\ Len(two) \in Nat /\ Len(two) >= 2 /\ two[1] = ApiRule /\ two[2] = PrivateRule
  BY <1>2, <1>3, <1>4
<1>6. Len(all) \in Nat /\ Len(all) >= 2 /\ all[1] = ApiRule /\ all[2] = PrivateRule
  BY <1>3, <1>5
<1>7. ~Matches(all[1], "private") /\ Matches(all[2], "private") /\ all[2].outbound = "direct"
  BY <1>6 DEF Matches, ApiRule, PrivateRule, Rule
<1> DEFINE I == {i \in 1..Len(all) : Matches(all[i], "private")}
<1>8. 2 \in I /\ \A i \in I : 2 <= i
  BY <1>6, <1>7
<1>9. SelectInSeq(all, LAMBDA rule : Matches(rule, "private")) = 2
  <2>1. SelectInSeq(all, LAMBDA rule : Matches(rule, "private")) = IF I # {} THEN Min(I) ELSE 0
    BY DEF SelectInSeq
  <2>2. I \subseteq Nat
    BY <1>6
  <2>3. Min(I) = 2
    <3> HIDE DEF I
    <3> QED
      <4>1. PICK m : m = CHOOSE i \in I : \A j \in I : i <= j
        OBVIOUS
      <4>2. m \in I /\ \A j \in I : m <= j
        BY <1>8, <4>1
      <4>3. m = 2
        BY <1>8, <2>2, <4>2
      <4> QED
        BY <4>1, <4>3 DEF Min
  <2> QED
    BY <1>8, <2>1, <2>3
<1> QED
  BY <1>2, <1>7, <1>9 DEF Decide

(***************************************************************************)
(* No packet for the home network leaves through a server or is blocked by *)
(* a rule, as long as scripts do not overlap or xray's own bypass is on,   *)
(* whatever the user's rules say (PrivateStaysLocal).                      *)
(***************************************************************************)
THEOREM PrivateAlwaysLocal == TrafficSpec => []PrivateStaysLocal
<1>1. TrafficInit => RunningInv
  BY DEF TrafficInit, RunningInv
<1>2. TypeOK /\ RunningInv /\ [TrafficNext]_trafficVars => RunningInv'
  BY RunningStays
<1>3. NoHalfRedirect /\ RunningInv => PrivateStaysLocal
  <2> SUFFICES ASSUME NoHalfRedirect, RunningInv, running # NoRules, clean \/ running.routing.private,
                      NEW t \in Tables, Redirected(t, "private")
               PROVE  Path(t, "private") \in {"direct", "lost"}
    BY DEF PrivateStaysLocal, Path
  <2>1. ~clean
    BY DEF NoHalfRedirect
  <2>2. PICK r \in SavedForm, s \in Selections : running = [routing |-> r, rules |-> BuildRouting(r, s)]
    BY DEF RunningInv
  <2>3. r \in Routings /\ s \in Chosen /\ r.private
    BY <2>1, <2>2, TrafficAssumption DEF SavedForm, Chosen
  <2>4. Decide(running.rules, "private") = "direct"
    BY <2>2, <2>3, PrivateDirect
  <2> QED
    BY <2>4 DEF Path
<1> QED
  BY <1>1, <1>2, <1>3, TypeCorrect, NeverHalfRedirected, PTL DEF TrafficSpec
=============================================================================
