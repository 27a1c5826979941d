------------------------- MODULE GuestTrafficProofs -------------------------
(***************************************************************************)
(* Proofs about GuestTraffic and the scripts of GuestRules, for any number *)
(* of processes, any sites, routings and selections, and every fault.      *)
(*                                                                         *)
(* What a script does is proved as in Hoare's logic: Takes says that its   *)
(* commands lead from one set of tables to another, command by command.    *)
(***************************************************************************)
EXTENDS GuestTraffic, SequenceTheorems, TLAPS

Chains ==
  {c \in [made : BOOLEAN, bypass : SUBSET Bypassed, redirect : BOOLEAN, hooks : Nat] :
     c.made \/ c = NoChain}

Kernels == [nat : Chains, mangle : Chains, policy : BOOLEAN, route : BOOLEAN]

ChainCommands == {"N", "F", "X", "private", "vpn", "redirect", "unhook", "hook"}

CommandSet ==
  ({"nat", "mangle"} \X ChainCommands) \cup ({"rule"} \X {"add", "del"})
    \cup ({"route"} \X {"add", "flush"})

-----------------------------------------------------------------------------
(* Single commands.                                                        *)

LEMMA NoChainIsChain == NoChain \in Chains
BY DEF NoChain, Chains

LEMMA TableNames == Tables \subseteq {"nat", "mangle"}
BY RulesAssumption DEF Tables

\* iptables keeps a chain a chain.
LEMMA OnChainIsChain ==
  ASSUME NEW c \in Chains, NEW x \in ChainCommands
  PROVE  OnChain(c, x) \in Chains
<1>1. CASE x = "N"
  BY <1>1 DEF OnChain, Chains, NoChain
<1>2. CASE x = "F"
  <2>1. OnChain(c, x) = Flush(c)
    BY <1>2 DEF OnChain
  <2>2. Flush(NoChain) = NoChain
    <3>1. NoChain \in [made : BOOLEAN, bypass : SUBSET Bypassed, redirect : BOOLEAN, hooks : Nat]
      BY DEF NoChain
    <3>2. NoChain.bypass = {} /\ NoChain.redirect = FALSE
      BY DEF NoChain
    <3>3. [NoChain EXCEPT !.bypass = {}] = NoChain /\ [NoChain EXCEPT !.redirect = FALSE] = NoChain
      BY <3>1, <3>2
    <3>4. QED
      BY <3>3 DEF Flush
  <2>3. c.made => Flush(c) \in Chains
    BY DEF Flush, Chains
  <2>4. QED
    BY <2>1, <2>2, <2>3, NoChainIsChain DEF Chains
<1>3. CASE x = "X"
  BY <1>3, NoChainIsChain DEF OnChain
<1>4. CASE x = "hook"
  BY <1>4 DEF OnChain, Chains, NoChain
<1>5. CASE x = "unhook"
  BY <1>5 DEF OnChain, Chains, NoChain
<1>6. CASE x = "redirect"
  BY <1>6 DEF OnChain, AppendEntry, Chains, NoChain
<1>7. CASE x \in {"private", "vpn"}
  BY <1>7 DEF OnChain, AppendEntry, Chains, NoChain, Bypassed
<1>8. QED
  BY <1>1, <1>2, <1>3, <1>4, <1>5, <1>6, <1>7 DEF ChainCommands

\* A command on a chain changes that chain, the others none.
LEMMA ExecOnChain ==
  ASSUME NEW k \in Kernels, NEW t \in {"nat", "mangle"}, NEW x \in ChainCommands
  PROVE  /\ Exec(k, <<t, x>>) = [k EXCEPT ![t] = OnChain(k[t], x)]
         /\ Exec(k, <<t, x>>) \in Kernels
         /\ Exec(k, <<t, x>>)[t] = OnChain(k[t], x)
<1>1. Exec(k, <<t, x>>) = [k EXCEPT ![t] = OnChain(k[t], x)]
  BY DEF Exec
<1>2. k[t] \in Chains
  BY DEF Kernels
<1>3. OnChain(k[t], x) \in Chains
  BY <1>2, OnChainIsChain
<1>4. QED
  BY <1>1, <1>3 DEF Kernels

LEMMA ExecElsewhere ==
  ASSUME NEW k \in Kernels, NEW t \in {"nat", "mangle"}, NEW x \in ChainCommands,
         NEW u \in {"nat", "mangle"}, u # t
  PROVE  Exec(k, <<t, x>>)[u] = k[u]
<1>1. [k EXCEPT ![t] = OnChain(k[t], x)][u] = k[u]
  BY DEF Kernels
<1>2. QED
  BY <1>1, ExecOnChain

LEMMA ExecOnRoute ==
  ASSUME NEW k \in Kernels, NEW x \in {"add", "del", "flush"}
  PROVE  /\ Exec(k, <<"rule", x>>) \in Kernels
         /\ Exec(k, <<"rule", x>>).policy = (x = "add") /\ Exec(k, <<"rule", x>>).route = k.route
         /\ \A t \in {"nat", "mangle"} : Exec(k, <<"rule", x>>)[t] = k[t]
         /\ Exec(k, <<"route", x>>) \in Kernels
         /\ Exec(k, <<"route", x>>).route = (x = "add") /\ Exec(k, <<"route", x>>).policy = k.policy
         /\ \A t \in {"nat", "mangle"} : Exec(k, <<"route", x>>)[t] = k[t]
<1>1. Exec(k, <<"rule", x>>) = [k EXCEPT !.policy = (x = "add")]
  BY DEF Exec
<1>2. Exec(k, <<"route", x>>) = [k EXCEPT !.route = (x = "add")]
  BY DEF Exec
<1> DEFINE p == [k EXCEPT !.policy = (x = "add")]
           r == [k EXCEPT !.route = (x = "add")]
<1>3. p \in Kernels /\ p.policy = (x = "add") /\ p.route = k.route
      /\ \A t \in {"nat", "mangle"} : p[t] = k[t]
  BY DEF Kernels
<1>4. r \in Kernels /\ r.route = (x = "add") /\ r.policy = k.policy
      /\ \A t \in {"nat", "mangle"} : r[t] = k[t]
  BY DEF Kernels
<1>5. QED
  BY <1>1, <1>2, <1>3, <1>4

LEMMA CommandKinds ==
  ASSUME NEW c \in CommandSet
  PROVE  \/ \E x \in {"add", "del", "flush"} : c = <<"rule", x>> \/ c = <<"route", x>>
         \/ \E t \in {"nat", "mangle"}, x \in ChainCommands : c = <<t, x>>
BY DEF CommandSet

LEMMA ExecIsKernel ==
  ASSUME NEW k \in Kernels, NEW c \in CommandSet
  PROVE  Exec(k, c) \in Kernels
<1>1. ASSUME NEW x \in {"add", "del", "flush"}, c = <<"rule", x>> \/ c = <<"route", x>>
      PROVE  Exec(k, c) \in Kernels
  BY <1>1, ExecOnRoute
<1>2. ASSUME NEW t \in {"nat", "mangle"}, NEW x \in ChainCommands, c = <<t, x>>
      PROVE  Exec(k, c) \in Kernels
  BY <1>2, ExecOnChain
<1>3. QED
  BY <1>1, <1>2, CommandKinds

-----------------------------------------------------------------------------
(***************************************************************************)
(* Sequences of commands.  A proof outline puts an assertion, a set of     *)
(* tables out of A, before each command and after the last one.            *)
(***************************************************************************)
Outline(h, cmds) ==
  \A i \in 1..Len(cmds) : \A k \in h[i] : Exec(k, cmds[i]) \in h[i + 1]

Takes(A, P, cmds, Q) ==
  \E h \in [1..(Len(cmds) + 1) -> A] :
    h[1] = P /\ h[Len(cmds) + 1] = Q /\ Outline(h, cmds)

LEMMA TakesNothing ==
  ASSUME NEW A, NEW P \in A
  PROVE  Takes(A, P, <<>>, P) /\ \A Q : Takes(A, P, <<>>, Q) => P = Q
<1>1. [i \in 1..1 |-> P] \in [1..(Len(<<>>) + 1) -> A] /\ Outline([i \in 1..1 |-> P], <<>>)
  BY DEF Outline
<1>2. Takes(A, P, <<>>, P)
  BY <1>1 DEF Takes
<1>3. QED
  BY <1>2 DEF Takes

\* Short scripts, by the assertions between their commands.
LEMMA TakesSingle ==
  ASSUME NEW A, NEW P \in A, NEW Q \in A, NEW a, \A k \in P : Exec(k, a) \in Q
  PROVE  Takes(A, P, <<a>>, Q)
<1> DEFINE h == [i \in 1..2 |-> IF i = 1 THEN P ELSE Q]
<1>1. h \in [1..2 -> A] /\ h[1] = P /\ h[1 + 1] = Q /\ Len(<<a>>) = 1 /\ <<a>>[1] = a
  OBVIOUS
<1> HIDE DEF h
<1>2. Outline(h, <<a>>)
  BY <1>1 DEF Outline
<1>3. QED
  BY <1>1, <1>2 DEF Takes

LEMMA TakesThree ==
  ASSUME NEW A, NEW P \in A, NEW R \in A, NEW S \in A, NEW Q \in A, NEW a, NEW b, NEW c,
         \A k \in P : Exec(k, a) \in R,
         \A k \in R : Exec(k, b) \in S,
         \A k \in S : Exec(k, c) \in Q
  PROVE  Takes(A, P, <<a, b, c>>, Q)
<1> DEFINE h == [i \in 1..4 |-> IF i = 1 THEN P ELSE IF i = 2 THEN R ELSE IF i = 3 THEN S ELSE Q]
           cmds == <<a, b, c>>
<1>1. h \in [1..4 -> A] /\ h[1] = P /\ h[2] = R /\ h[3] = S /\ h[4] = Q
  OBVIOUS
<1>2. Len(cmds) = 3 /\ cmds[1] = a /\ cmds[2] = b /\ cmds[3] = c
  OBVIOUS
<1> HIDE DEF h, cmds
<1>3. ASSUME NEW i \in 1..3, NEW k \in h[i]
      PROVE  Exec(k, cmds[i]) \in h[i + 1]
  <2>1. i = 1 \/ i = 2 \/ i = 3
    OBVIOUS
  <2>2. 1 + 1 = 2 /\ 2 + 1 = 3 /\ 3 + 1 = 4
    OBVIOUS
  <2>3. QED
    BY <1>1, <1>2, <2>1, <2>2
<1>4. Outline(h, cmds)
  BY <1>2, <1>3 DEF Outline
<1>5. Takes(A, P, cmds, Q)
  BY <1>1, <1>2, <1>4 DEF Takes
<1>6. QED
  BY <1>5 DEF cmds

\* One script after another.
LEMMA TakesBoth ==
  ASSUME NEW A, NEW P, NEW R, NEW Q, NEW first \in Seq(CommandSet), NEW second \in Seq(CommandSet),
         Takes(A, P, first, R), Takes(A, R, second, Q)
  PROVE  Takes(A, P, first \o second, Q)
<1> DEFINE m == Len(first)
           n == Len(second)
           all == first \o second
<1>1. PICK f \in [1..(m + 1) -> A] : f[1] = P /\ f[m + 1] = R /\ Outline(f, first)
  BY DEF Takes
<1>2. PICK g \in [1..(n + 1) -> A] : g[1] = R /\ g[n + 1] = Q /\ Outline(g, second)
  BY DEF Takes
<1>3. m \in Nat /\ n \in Nat
  OBVIOUS
<1> DEFINE h == [i \in 1..(m + n + 1) |-> IF i <= m THEN f[i] ELSE g[i - m]]
<1>4. /\ h \in [1..(m + n + 1) -> A]
      /\ \A i \in 1..m : h[i] = f[i]
      /\ \A i \in 1..(n + 1) : h[m + i] = g[i]
  BY <1>3
<1>5. /\ Len(all) = m + n
      /\ \A i \in 1..m : all[i] = first[i]
      /\ \A i \in 1..n : all[m + i] = second[i]
  OBVIOUS
<1>6. h[m + 1] = R
  BY <1>2, <1>3, <1>4
<1> HIDE DEF h, all, m, n
<1>7. ASSUME NEW i \in 1..(m + n), NEW k \in h[i]
      PROVE  Exec(k, all[i]) \in h[i + 1]
  <2>1. CASE i <= m
    <3>1. i \in 1..m /\ (i + 1 \in 1..m \/ i + 1 = m + 1)
      BY <1>3, <2>1
    <3>2. h[i] = f[i] /\ h[i + 1] = f[i + 1] /\ all[i] = first[i]
      BY <1>1, <1>4, <1>5, <1>6, <3>1
    <3>3. QED
      BY <1>1, <3>1, <3>2 DEF Outline, m
  <2>2. CASE i > m
    <3>1. PICK j \in 1..n : i = m + j
      <4>1. i - m \in 1..n /\ i = m + (i - m)
        BY <1>3, <2>2
      <4>2. QED
        BY <4>1
    <3>2. j \in 1..(n + 1) /\ j + 1 \in 1..(n + 1) /\ i + 1 = m + (j + 1)
      BY <1>3, <3>1
    <3>3. h[i] = g[j] /\ h[i + 1] = g[j + 1] /\ all[i] = second[j]
      BY <1>4, <1>5, <3>1, <3>2
    <3>4. QED
      BY <1>2, <3>1, <3>3 DEF Outline, n
  <2>3. QED
    BY <1>3, <2>1, <2>2
<1>8. Outline(h, all)
  BY <1>5, <1>7 DEF Outline
<1>9. h[1] = P
  <2>1. CASE m = 0
    BY <1>1, <1>3, <1>6, <2>1
  <2>2. CASE m # 0
    <3>1. 1 \in 1..m
      BY <1>3, <2>2
    <3>2. QED
      BY <1>1, <1>4, <3>1
  <2>3. QED
    BY <2>1, <2>2
<1>10. h[(m + n) + 1] = Q
  <2>1. n + 1 \in 1..(n + 1) /\ (m + n) + 1 = m + (n + 1)
    BY <1>3
  <2>2. QED
    BY <1>2, <1>4, <2>1
<1>11. Takes(A, P, all, Q)
  BY <1>4, <1>5, <1>8, <1>9, <1>10 DEF Takes
<1>12. QED
  BY <1>11 DEF all

\* The assertion after the first command, and what remains of the script.
LEMMA TakesRest ==
  ASSUME NEW A, NEW P, NEW Q, NEW cmds \in Seq(CommandSet), cmds # <<>>,
         Takes(A, P, cmds, Q), NEW k \in P
  PROVE  \E R \in A : Exec(k, Head(cmds)) \in R /\ Takes(A, R, Tail(cmds), Q)
<1> DEFINE n == Len(cmds)
           rest == Tail(cmds)
<1>1. PICK h \in [1..(n + 1) -> A] : h[1] = P /\ h[n + 1] = Q /\ Outline(h, cmds)
  BY DEF Takes
<1>2. n \in Nat \ {0} /\ rest \in Seq(CommandSet) /\ Len(rest) = n - 1 /\ Head(cmds) = cmds[1]
      /\ \A i \in 1..(n - 1) : rest[i] = cmds[i + 1]
  OBVIOUS
<1> DEFINE g == [i \in 1..n |-> h[i + 1]]
<1>3. g \in [1..n -> A] /\ \A i \in 1..n : g[i] = h[i + 1]
  BY <1>2
<1> HIDE DEF g, rest
<1>4. ASSUME NEW i \in 1..(n - 1), NEW l \in g[i]
      PROVE  Exec(l, rest[i]) \in g[i + 1]
  <2>1. i + 1 \in 1..n /\ i \in 1..n
    BY <1>2
  <2>2. g[i] = h[i + 1] /\ g[i + 1] = h[(i + 1) + 1] /\ rest[i] = cmds[i + 1]
    BY <1>2, <1>3, <2>1
  <2>3. QED
    BY <1>1, <2>1, <2>2 DEF Outline
<1>5. Outline(g, rest)
  BY <1>2, <1>4 DEF Outline
<1>6. g \in [1..(Len(rest) + 1) -> A] /\ g[Len(rest) + 1] = Q
  BY <1>1, <1>2, <1>3
<1>7. 1 \in 1..n
  BY <1>2
<1>8. Exec(k, cmds[1]) \in h[1 + 1]
  BY <1>1, <1>7 DEF Outline
<1>9. g[1] \in A /\ Exec(k, cmds[1]) \in g[1]
  BY <1>3, <1>7, <1>8
<1>10. Takes(A, g[1], rest, Q)
  BY <1>5, <1>6 DEF Takes
<1>11. QED
  BY <1>2, <1>9, <1>10 DEF rest

-----------------------------------------------------------------------------
(***************************************************************************)
(* What the scripts do to tables in any state.  One part of a script works *)
(* on the chain of one table, so whatever says nothing of that chain stays *)
(* true: a frame of t is a set of kernels closed under its changes.        *)
(***************************************************************************)
Frames(t) == {S \in SUBSET Kernels : \A k \in S, c \in Chains : [k EXCEPT ![t] = c] \in S}

Spared(resolved) == {"private"} \cup IF resolved THEN {"vpn"} ELSE {}

\* The chain sends every site to xray and spares what it should.
Serves(chain, resolved) ==
  chain.hooks > 0 /\ chain.redirect /\ chain.bypass = Spared(resolved)

\* The kernels of S whose chain of t exists with these entries.
Written(S, t, bypass, redirect) ==
  {k \in S : k[t].made /\ k[t].bypass = bypass /\ k[t].redirect = redirect}

LEMMA ExecInFrame ==
  ASSUME NEW t \in {"nat", "mangle"}, NEW S \in Frames(t), NEW k \in S, NEW x \in ChainCommands
  PROVE  /\ Exec(k, <<t, x>>) \in S
         /\ Exec(k, <<t, x>>)[t] = OnChain(k[t], x)
         /\ k[t] \in Chains
<1>1. k \in Kernels
  BY DEF Frames
<1>2. k[t] \in Chains
  BY <1>1 DEF Kernels
<1>3. [k EXCEPT ![t] = OnChain(k[t], x)] \in S
  BY <1>2, OnChainIsChain DEF Frames
<1>4. QED
  BY <1>1, <1>2, <1>3, ExecOnChain

\* What each command makes of the entries of a chain.
LEMMA Empties ==
  ASSUME NEW c \in Chains
  PROVE  /\ OnChain(c, "N").made
         /\ OnChain(c, "F").made = c.made
         /\ OnChain(c, "F").bypass = {} /\ OnChain(c, "F").redirect = FALSE
BY DEF OnChain, Flush, Chains

LEMMA Appends ==
  ASSUME NEW c \in Chains, c.made, ~c.redirect, NEW x \in {"private", "vpn"}
  PROVE  /\ OnChain(c, x).made /\ OnChain(c, x).redirect = FALSE
         /\ OnChain(c, x).bypass = c.bypass \cup {x}
BY DEF OnChain, AppendEntry, Chains

LEMMA Redirecting ==
  ASSUME NEW c \in Chains, c.made, ~c.redirect
  PROVE  LET a == OnChain(c, "redirect") IN a.made /\ a.redirect = TRUE /\ a.bypass = c.bypass
BY DEF OnChain, AppendEntry, Chains

LEMMA Hooking ==
  ASSUME NEW c \in Chains, c.made, NEW x \in {"hook", "unhook"}
  PROVE  /\ OnChain(c, x).made /\ OnChain(c, x).redirect = c.redirect
         /\ OnChain(c, x).bypass = c.bypass
         /\ x = "hook" => OnChain(c, x).hooks > 0
<1>1. CASE x = "hook"
  BY <1>1 DEF OnChain, Chains
<1>2. CASE x = "unhook"
  BY <1>2 DEF OnChain, Chains
<1>3. QED
  BY <1>1, <1>2

LEMMA ChainPart ==
  ASSUME NEW t \in {"nat", "mangle"}, NEW resolved \in BOOLEAN
  PROVE  /\ ChainRules(t, resolved) \in Seq(CommandSet)
         /\ ChainRules(t, resolved) # <<>>
<1>1. \A x \in ChainCommands : <<t, x>> \in CommandSet
  BY DEF CommandSet
<1>2. << <<t, "N">>, <<t, "F">>, <<t, "private">> >> \in Seq(CommandSet)
  BY <1>1 DEF ChainCommands
<1>3. << <<t, "vpn">> >> \in Seq(CommandSet) /\ <<>> \in Seq(CommandSet)
  BY <1>1 DEF ChainCommands
<1>4. << <<t, "redirect">>, <<t, "unhook">>, <<t, "hook">> >> \in Seq(CommandSet)
  BY <1>1 DEF ChainCommands
<1>5. QED
  BY <1>2, <1>3, <1>4 DEF ChainRules

\* writeChainRules, from any state: the chain of t serves.
LEMMA ChainServes ==
  ASSUME NEW t \in {"nat", "mangle"}, NEW S \in Frames(t), NEW resolved \in BOOLEAN
  PROVE  Takes(SUBSET Kernels, S, ChainRules(t, resolved), {k \in S : Serves(k[t], resolved)})
<1> DEFINE A == SUBSET Kernels
           Made == {k \in S : k[t].made}
           Private == Written(S, t, {"private"}, FALSE)
           Full == Written(S, t, Spared(resolved), FALSE)
           Redirects == Written(S, t, Spared(resolved), TRUE)
           Served == {k \in S : Serves(k[t], resolved)}
<1>1. /\ S \in A /\ Made \in A /\ Private \in A /\ Full \in A /\ Redirects \in A /\ Served \in A
      /\ Written(S, t, {}, FALSE) \in A
  BY DEF Frames, Written
<1>2. ASSUME NEW k \in S, NEW x \in ChainCommands
      PROVE  Exec(k, <<t, x>>) \in S /\ Exec(k, <<t, x>>)[t] = OnChain(k[t], x) /\ k[t] \in Chains
  BY ExecInFrame
<1>3. /\ \A k \in S : Exec(k, <<t, "N">>) \in Made
      /\ \A k \in Made : Exec(k, <<t, "F">>) \in Written(S, t, {}, FALSE)
  <2>1. ASSUME NEW k \in S
        PROVE  Exec(k, <<t, "N">>) \in Made
    <3>1. Exec(k, <<t, "N">>) \in S /\ Exec(k, <<t, "N">>)[t] = OnChain(k[t], "N") /\ k[t] \in Chains
      BY <1>2 DEF ChainCommands
    <3>2. OnChain(k[t], "N").made
      BY <3>1, Empties
    <3>3. QED
      BY <3>1, <3>2
  <2>2. ASSUME NEW k \in Made
        PROVE  Exec(k, <<t, "F">>) \in Written(S, t, {}, FALSE)
    <3>1. Exec(k, <<t, "F">>) \in S /\ Exec(k, <<t, "F">>)[t] = OnChain(k[t], "F") /\ k[t] \in Chains
      BY <1>2 DEF ChainCommands
    <3>2. LET f == OnChain(k[t], "F") IN f.made /\ f.bypass = {} /\ f.redirect = FALSE
      BY <3>1, Empties
    <3>3. QED
      BY <3>1, <3>2 DEF Written
  <2>3. QED
    BY <2>1, <2>2
<1>4. ASSUME NEW bypass, NEW x \in {"private", "vpn"}, NEW k \in Written(S, t, bypass, FALSE)
      PROVE  Exec(k, <<t, x>>) \in Written(S, t, bypass \cup {x}, FALSE)
  <2>1. k \in S /\ k[t].made /\ k[t].bypass = bypass /\ ~k[t].redirect
    BY DEF Written
  <2>2. Exec(k, <<t, x>>) \in S /\ Exec(k, <<t, x>>)[t] = OnChain(k[t], x) /\ k[t] \in Chains
    BY <1>2, <2>1 DEF ChainCommands
  <2>3. LET a == OnChain(k[t], x) IN a.made /\ a.bypass = k[t].bypass \cup {x} /\ a.redirect = FALSE
    BY <2>1, <2>2, Appends
  <2>4. QED
    BY <2>1, <2>2, <2>3 DEF Written
<1>5. /\ \A k \in Written(S, t, {}, FALSE) : Exec(k, <<t, "private">>) \in Private
      /\ \A k \in Private : resolved => Exec(k, <<t, "vpn">>) \in Full
  <2>1. {} \cup {"private"} = {"private"}
    OBVIOUS
  <2>2. resolved => {"private"} \cup {"vpn"} = Spared(resolved)
    BY DEF Spared
  <2>3. \A k \in Written(S, t, {}, FALSE) :
          Exec(k, <<t, "private">>) \in Written(S, t, {} \cup {"private"}, FALSE)
    BY <1>4
  <2>4. \A k \in Written(S, t, {"private"}, FALSE) :
          Exec(k, <<t, "vpn">>) \in Written(S, t, {"private"} \cup {"vpn"}, FALSE)
    BY <1>4
  <2>5. QED
    BY <2>1, <2>2, <2>3, <2>4
<1>6. ASSUME NEW k \in Full
      PROVE  Exec(k, <<t, "redirect">>) \in Redirects
  <2>1. k \in S /\ k[t].made /\ k[t].bypass = Spared(resolved) /\ ~k[t].redirect
    BY DEF Written
  <2>2. /\ Exec(k, <<t, "redirect">>) \in S
        /\ Exec(k, <<t, "redirect">>)[t] = OnChain(k[t], "redirect")
        /\ k[t] \in Chains
    BY <1>2, <2>1 DEF ChainCommands
  <2>3. LET a == OnChain(k[t], "redirect")
        IN a.made /\ a.bypass = k[t].bypass /\ a.redirect = TRUE
    BY <2>1, <2>2, Redirecting
  <2>4. QED
    BY <2>1, <2>2, <2>3 DEF Written
<1>7. ASSUME NEW k \in Redirects, NEW x \in {"hook", "unhook"}
      PROVE  Exec(k, <<t, x>>) \in Redirects /\ (x = "hook" => Exec(k, <<t, x>>)[t].hooks > 0)
  <2>1. k \in S /\ k[t].made /\ k[t].bypass = Spared(resolved) /\ k[t].redirect = TRUE
    BY DEF Written
  <2>2. Exec(k, <<t, x>>) \in S /\ Exec(k, <<t, x>>)[t] = OnChain(k[t], x) /\ k[t] \in Chains
    BY <1>2, <2>1 DEF ChainCommands
  <2>3. LET a == OnChain(k[t], x)
        IN a.made /\ a.bypass = k[t].bypass /\ a.redirect = k[t].redirect
    BY <2>1, <2>2, Hooking
  <2>4. x = "hook" => OnChain(k[t], x).hooks > 0
    BY <2>1, <2>2, Hooking
  <2>5. QED
    BY <2>1, <2>2, <2>3, <2>4 DEF Written
<1>8. /\ \A k \in Redirects : Exec(k, <<t, "unhook">>) \in Redirects
      /\ \A k \in Redirects : Exec(k, <<t, "hook">>) \in Served
  BY <1>7 DEF Written, Serves
<1>9. Takes(A, S, << <<t, "N">>, <<t, "F">>, <<t, "private">> >>, Private)
  BY <1>1, <1>3, <1>5, TakesThree
<1>10. Takes(A, Private, IF resolved THEN << <<t, "vpn">> >> ELSE <<>>, Full)
  <2>1. CASE resolved
    BY <1>1, <1>5, <2>1, TakesSingle
  <2>2. CASE ~resolved
    BY <1>1, <2>2, TakesNothing DEF Spared
  <2>3. QED
    BY <2>1, <2>2
<1>11. Takes(A, Full, << <<t, "redirect">>, <<t, "unhook">>, <<t, "hook">> >>, Served)
  BY <1>1, <1>6, <1>8, TakesThree
<1> HIDE DEF A, Made, Private, Full, Redirects, Served
<1>12. Takes(A, S, ChainRules(t, resolved), Served)
  <2>1. \A x \in ChainCommands : <<t, x>> \in CommandSet
    BY DEF CommandSet
  <2>2. /\ << <<t, "N">>, <<t, "F">>, <<t, "private">> >> \in Seq(CommandSet)
        /\ (IF resolved THEN << <<t, "vpn">> >> ELSE <<>>) \in Seq(CommandSet)
        /\ << <<t, "redirect">>, <<t, "unhook">>, <<t, "hook">> >> \in Seq(CommandSet)
    BY <2>1 DEF ChainCommands
  <2>3. << <<t, "N">>, <<t, "F">>, <<t, "private">> >>
        \o (IF resolved THEN << <<t, "vpn">> >> ELSE <<>>) \in Seq(CommandSet)
    BY <2>2
  <2>4. Takes(A, S, << <<t, "N">>, <<t, "F">>, <<t, "private">> >>
                    \o (IF resolved THEN << <<t, "vpn">> >> ELSE <<>>), Full)
    BY <1>9, <1>10, <2>2, TakesBoth
  <2>5. QED
    BY <1>11, <2>2, <2>3, <2>4, TakesBoth DEF ChainRules
<1>13. QED
  BY <1>12 DEF A, Served

TeardownPart(t) == << <<t, "unhook">>, <<t, "F">>, <<t, "X">> >>

\* A part of the teardown, from any state: the chain of t redirects nothing.
LEMMA PartFrees ==
  ASSUME NEW t \in {"nat", "mangle"}, NEW S \in Frames(t)
  PROVE  Takes(SUBSET Kernels, S, TeardownPart(t), {k \in S : ~k[t].redirect})
<1> DEFINE Free == {k \in S : ~k[t].redirect}
<1>1. S \in SUBSET Kernels /\ Free \in SUBSET Kernels
  BY DEF Frames
<1>2. ASSUME NEW k \in S, NEW x \in ChainCommands
      PROVE  Exec(k, <<t, x>>) \in S /\ Exec(k, <<t, x>>)[t] = OnChain(k[t], x) /\ k[t] \in Chains
  BY ExecInFrame
<1>3. \A k \in S : Exec(k, <<t, "unhook">>) \in S
  BY <1>2 DEF ChainCommands
<1>4. ASSUME NEW k \in S
      PROVE  Exec(k, <<t, "F">>) \in Free
  <2>1. Exec(k, <<t, "F">>) \in S /\ Exec(k, <<t, "F">>)[t] = OnChain(k[t], "F") /\ k[t] \in Chains
    BY <1>2 DEF ChainCommands
  <2>2. QED
    BY <2>1, Empties
<1>5. ASSUME NEW k \in Free
      PROVE  Exec(k, <<t, "X">>) \in Free
  <2>1. Exec(k, <<t, "X">>) \in S /\ Exec(k, <<t, "X">>)[t] = OnChain(k[t], "X")
    BY <1>2 DEF ChainCommands
  <2>2. OnChain(k[t], "X") \in {k[t], NoChain} /\ NoChain.redirect = FALSE
    BY DEF OnChain, NoChain
  <2>3. QED
    BY <2>1, <2>2
<1> HIDE DEF Free
<1>6. Takes(SUBSET Kernels, S, TeardownPart(t), Free)
  BY <1>1, <1>3, <1>4, <1>5, TakesThree DEF TeardownPart
<1>7. QED
  BY <1>6 DEF Free

\* Conditions on the routing, and on the other chain, are frames.
LEMMA FrameOf ==
  ASSUME NEW t \in {"nat", "mangle"}
  PROVE  /\ Kernels \in Frames(t)
         /\ {k \in Kernels : k.policy /\ k.route} \in Frames(t)
         /\ \A S \in Frames(t), u \in {"nat", "mangle"} \ {t} :
              \A C : {k \in S : k[u] \in C} \in Frames(t)
<1>1. ASSUME NEW k \in Kernels, NEW c \in Chains
      PROVE  /\ [k EXCEPT ![t] = c] \in Kernels
             /\ [k EXCEPT ![t] = c].policy = k.policy /\ [k EXCEPT ![t] = c].route = k.route
             /\ \A u \in {"nat", "mangle"} \ {t} : [k EXCEPT ![t] = c][u] = k[u]
  BY DEF Kernels
<1>2. Kernels \in Frames(t)
  BY <1>1 DEF Frames
<1>3. {k \in Kernels : k.policy /\ k.route} \in Frames(t)
  BY <1>1 DEF Frames
<1>4. ASSUME NEW S \in Frames(t), NEW u \in {"nat", "mangle"} \ {t}, NEW C
      PROVE  {k \in S : k[u] \in C} \in Frames(t)
  BY <1>1, <1>4 DEF Frames
<1>5. QED
  BY <1>2, <1>3, <1>4

LEMMA Orders ==
  \/ TableOrder = <<"nat", "mangle">> /\ Len(TableOrder) = 2 /\ Tables = {"nat", "mangle"}
  \/ TableOrder = <<"nat">> /\ Len(TableOrder) = 1 /\ Tables = {"nat"}
  \/ TableOrder = <<"mangle">> /\ Len(TableOrder) = 1 /\ Tables = {"mangle"}
<1>1. CASE TableOrder = <<"nat", "mangle">>
  <2>1. DOMAIN TableOrder = {1, 2} /\ Len(TableOrder) = 2
    BY <1>1
  <2>2. QED
    BY <1>1, <2>1 DEF Tables
<1>2. CASE TableOrder = <<"nat">>
  <2>1. DOMAIN TableOrder = {1} /\ Len(TableOrder) = 1
    BY <1>2
  <2>2. QED
    BY <1>2, <2>1 DEF Tables
<1>3. CASE TableOrder = <<"mangle">>
  <2>1. DOMAIN TableOrder = {1} /\ Len(TableOrder) = 1
    BY <1>3
  <2>2. QED
    BY <1>3, <2>1 DEF Tables
<1>4. QED
  BY <1>1, <1>2, <1>3, RulesAssumption

LEMMA PartsAreCommands ==
  ASSUME NEW t \in {"nat", "mangle"}
  PROVE  /\ TeardownPart(t) \in Seq(CommandSet) /\ Len(TeardownPart(t)) = 3
         /\ \A resolved \in BOOLEAN :
              ChainRules(t, resolved) \in Seq(CommandSet) /\ ChainRules(t, resolved) # <<>>
<1>1. \A x \in ChainCommands : <<t, x>> \in CommandSet
  BY DEF CommandSet
<1>2. TeardownPart(t) \in Seq(CommandSet) /\ Len(TeardownPart(t)) = 3
  BY <1>1 DEF ChainCommands, TeardownPart
<1>3. QED
  BY <1>2, ChainPart

\* The whole scripts, as sequences of parts.
AllChains(resolved) ==
  IF Len(TableOrder) = 1 THEN ChainRules(TableOrder[1], resolved)
  ELSE ChainRules(TableOrder[1], resolved) \o ChainRules(TableOrder[2], resolved)

AllParts ==
  IF Len(TableOrder) = 1 THEN TeardownPart(TableOrder[1])
  ELSE TeardownPart(TableOrder[1]) \o TeardownPart(TableOrder[2])

RoutesUp == << <<"rule", "del">>, <<"rule", "add">>, <<"route", "flush">>, <<"route", "add">> >>

RoutesDown == << <<"rule", "del">>, <<"route", "flush">> >>

LEMMA ScriptsAre ==
  /\ \A resolved : RulesScript(resolved) = RoutesUp \o AllChains(resolved)
  /\ TeardownScript = AllParts \o RoutesDown
BY DEF RulesScript, TeardownScript, PerTable, AllChains, AllParts, RoutesUp, RoutesDown, TeardownPart

LEMMA ScriptsAreCommands ==
  /\ RoutesUp \in Seq(CommandSet) /\ RoutesUp # <<>>
  /\ RoutesDown \in Seq(CommandSet) /\ RoutesDown # <<>>
  /\ AllParts \in Seq(CommandSet)
  /\ \A resolved \in BOOLEAN : AllChains(resolved) \in Seq(CommandSet)
  /\ \A s \in Scripts : Commands(s) \in Seq(CommandSet) /\ Commands(s) # <<>>
<1>1. \A x \in {"add", "del"} : <<"rule", x>> \in CommandSet
  BY DEF CommandSet
<1>2. \A x \in {"add", "flush"} : <<"route", x>> \in CommandSet
  BY DEF CommandSet
<1>3. RoutesUp \in Seq(CommandSet) /\ Len(RoutesUp) = 4
  BY <1>1, <1>2 DEF RoutesUp
<1>4. RoutesDown \in Seq(CommandSet) /\ Len(RoutesDown) = 2
  BY <1>1, <1>2 DEF RoutesDown
<1>5. AllParts \in Seq(CommandSet)
  BY Orders, PartsAreCommands DEF AllParts
<1>6. \A resolved \in BOOLEAN : AllChains(resolved) \in Seq(CommandSet)
  BY Orders, PartsAreCommands DEF AllChains
<1>7. ASSUME NEW s \in Scripts
      PROVE  Commands(s) \in Seq(CommandSet) /\ Commands(s) # <<>>
  <2>1. CASE s = Teardown
    <3>1. Commands(s) = AllParts \o RoutesDown
      BY <2>1, ScriptsAre DEF Commands, Teardown
    <3>2. QED
      BY <1>4, <1>5, <3>1
  <2>2. ASSUME NEW b \in BOOLEAN, s = RulesOf(b)
        PROVE  Commands(s) \in Seq(CommandSet) /\ Commands(s) # <<>>
    <3>1. Commands(s) = RoutesUp \o AllChains(b)
      BY <2>2, ScriptsAre DEF Commands, RulesOf
    <3>2. AllChains(b) \in Seq(CommandSet)
      BY <1>6
    <3>3. QED
      BY <1>3, <3>1, <3>2
  <2>3. QED
    BY <2>1, <2>2 DEF Scripts
<1>8. RoutesUp # <<>> /\ RoutesDown # <<>>
  BY DEF RoutesUp, RoutesDown
<1>9. QED
  BY <1>3, <1>4, <1>5, <1>6, <1>7, <1>8

\* What a script is for, as tables.
Fulfilled(s) ==
  IF s.name = "teardown" THEN {k \in Kernels : \A t \in Tables : ~k[t].redirect}
  ELSE {k \in Kernels : k.policy /\ k.route /\ \A t \in Tables : Serves(k[t], s.resolved)}

Routed == {k \in Kernels : k.policy /\ k.route}

LEMMA RoutesComeUp == Takes(SUBSET Kernels, Kernels, RoutesUp, Routed)
<1> DEFINE Policed == {k \in Kernels : k.policy}
<1>1. \A k \in Kernels : Exec(k, <<"rule", "del">>) \in Kernels
  BY ExecOnRoute
<1>2. \A k \in Kernels : Exec(k, <<"rule", "add">>) \in Policed
  BY ExecOnRoute
<1>3. \A k \in Policed : Exec(k, <<"route", "flush">>) \in Policed
  BY ExecOnRoute
<1>4. \A k \in Policed : Exec(k, <<"route", "add">>) \in Routed
  BY ExecOnRoute DEF Routed
<1>5. Policed \in SUBSET Kernels /\ Kernels \in SUBSET Kernels /\ Routed \in SUBSET Kernels
  BY DEF Routed
<1> HIDE DEF Policed
<1>6. Takes(SUBSET Kernels, Kernels, << <<"rule", "del">> >>, Kernels)
  BY <1>1, <1>5, TakesSingle
<1>7. Takes(SUBSET Kernels, Kernels,
            << <<"rule", "add">>, <<"route", "flush">>, <<"route", "add">> >>, Routed)
  BY <1>2, <1>3, <1>4, <1>5, TakesThree
<1>8. /\ << <<"rule", "del">> >> \in Seq(CommandSet)
      /\ << <<"rule", "add">>, <<"route", "flush">>, <<"route", "add">> >> \in Seq(CommandSet)
  BY DEF CommandSet
<1>9. RoutesUp = << <<"rule", "del">> >>
                 \o << <<"rule", "add">>, <<"route", "flush">>, <<"route", "add">> >>
  BY DEF RoutesUp
<1>10. QED
  BY <1>6, <1>7, <1>8, <1>9, TakesBoth

\* From any state of the tables the rules script sends the guests to xray.
LEMMA RulesServe ==
  ASSUME NEW resolved \in BOOLEAN
  PROVE  Takes(SUBSET Kernels, Kernels, RulesScript(resolved), Fulfilled(RulesOf(resolved)))
<1> DEFINE Good(chain) == Serves(chain, resolved)
<1>1. ASSUME NEW t \in {"nat", "mangle"}
      PROVE  /\ Routed \in Frames(t)
             /\ Takes(SUBSET Kernels, Routed, ChainRules(t, resolved), {k \in Routed : Good(k[t])})
  BY FrameOf, ChainServes DEF Routed
<1>2. Fulfilled(RulesOf(resolved)) = {k \in Routed : \A t \in Tables : Good(k[t])}
  BY DEF Fulfilled, RulesOf, Routed
<1>3. Takes(SUBSET Kernels, Routed, AllChains(resolved), Fulfilled(RulesOf(resolved)))
  <2>1. CASE Len(TableOrder) = 1
    <3>1. PICK t \in {"nat", "mangle"} : TableOrder[1] = t /\ Tables = {t}
      BY <2>1, Orders
    <3>2. {k \in Routed : Good(k[t])} = Fulfilled(RulesOf(resolved))
      BY <1>2, <3>1
    <3>3. AllChains(resolved) = ChainRules(t, resolved)
      BY <2>1, <3>1 DEF AllChains
    <3>4. QED
      BY <1>1, <3>2, <3>3
  <2>2. CASE Len(TableOrder) # 1
    <3>1. TableOrder[1] = "nat" /\ TableOrder[2] = "mangle" /\ Tables = {"nat", "mangle"}
      BY <2>2, Orders
    <3>2. AllChains(resolved) = ChainRules("nat", resolved) \o ChainRules("mangle", resolved)
      BY <2>2, <3>1 DEF AllChains
    <3> DEFINE First == {k \in Routed : Good(k["nat"])}
               Both == {k \in First : Good(k["mangle"])}
    <3>3. First \in Frames("mangle")
      <4>1. First = {k \in Routed : k["nat"] \in {c \in Chains : Good(c)}}
        BY DEF Routed, Kernels
      <4>2. Routed \in Frames("mangle") /\ "nat" \in {"nat", "mangle"} \ {"mangle"}
        BY <1>1
      <4>3. {k \in Routed : k["nat"] \in {c \in Chains : Good(c)}} \in Frames("mangle")
        BY <4>2, FrameOf
      <4>4. QED
        BY <4>1, <4>3
    <3>4. Takes(SUBSET Kernels, Routed, ChainRules("nat", resolved), First)
      BY <1>1
    <3>5. Takes(SUBSET Kernels, First, ChainRules("mangle", resolved), Both)
      BY <3>3, ChainServes
    <3>6. Both = Fulfilled(RulesOf(resolved))
      BY <1>2, <3>1
    <3> HIDE DEF First, Both
    <3>7. /\ ChainRules("nat", resolved) \in Seq(CommandSet)
          /\ ChainRules("mangle", resolved) \in Seq(CommandSet)
      BY PartsAreCommands
    <3>8. QED
      BY <3>2, <3>4, <3>5, <3>6, <3>7, TakesBoth
  <2>3. QED
    BY <2>1, <2>2
<1>4. QED
  BY <1>3, RoutesComeUp, ScriptsAre, ScriptsAreCommands, TakesBoth

\* From any state of the tables the teardown script lets the guests go.
LEMMA TeardownServes ==
  Takes(SUBSET Kernels, Kernels, TeardownScript, Fulfilled(Teardown))
<1>1. ASSUME NEW t \in {"nat", "mangle"}
      PROVE  /\ Kernels \in Frames(t)
             /\ Takes(SUBSET Kernels, Kernels, TeardownPart(t), {k \in Kernels : ~k[t].redirect})
  BY FrameOf, PartFrees
<1>2. Fulfilled(Teardown) = {k \in Kernels : \A t \in Tables : ~k[t].redirect}
  BY DEF Fulfilled, Teardown
<1>3. Takes(SUBSET Kernels, Kernels, AllParts, Fulfilled(Teardown))
  <2>1. CASE Len(TableOrder) = 1
    <3>1. PICK t \in {"nat", "mangle"} : TableOrder[1] = t /\ Tables = {t}
      BY <2>1, Orders
    <3>2. {k \in Kernels : ~k[t].redirect} = Fulfilled(Teardown)
      BY <1>2, <3>1
    <3>3. AllParts = TeardownPart(t)
      BY <2>1, <3>1 DEF AllParts
    <3>4. QED
      BY <1>1, <3>2, <3>3
  <2>2. CASE Len(TableOrder) # 1
    <3>1. TableOrder[1] = "nat" /\ TableOrder[2] = "mangle" /\ Tables = {"nat", "mangle"}
      BY <2>2, Orders
    <3>2. AllParts = TeardownPart("nat") \o TeardownPart("mangle")
      BY <2>2, <3>1 DEF AllParts
    <3> DEFINE First == {k \in Kernels : ~k["nat"].redirect}
               Both == {k \in First : ~k["mangle"].redirect}
    <3>3. First \in Frames("mangle")
      <4>1. First = {k \in Kernels : k["nat"] \in {c \in Chains : ~c.redirect}}
        BY DEF Kernels
      <4>2. Kernels \in Frames("mangle") /\ "nat" \in {"nat", "mangle"} \ {"mangle"}
        BY <1>1
      <4>3. {k \in Kernels : k["nat"] \in {c \in Chains : ~c.redirect}} \in Frames("mangle")
        BY <4>2, FrameOf
      <4>4. QED
        BY <4>1, <4>3
    <3>4. Takes(SUBSET Kernels, Kernels, TeardownPart("nat"), First)
      BY <1>1
    <3>5. Takes(SUBSET Kernels, First, TeardownPart("mangle"), Both)
      BY <3>3, PartFrees
    <3>6. Both = Fulfilled(Teardown)
      BY <1>2, <3>1
    <3> HIDE DEF First, Both
    <3>7. TeardownPart("nat") \in Seq(CommandSet) /\ TeardownPart("mangle") \in Seq(CommandSet)
      BY PartsAreCommands
    <3>8. QED
      BY <3>2, <3>4, <3>5, <3>6, <3>7, TakesBoth
  <2>3. QED
    BY <2>1, <2>2
<1> DEFINE Free == Fulfilled(Teardown)
<1>4. Free \in SUBSET Kernels
  BY <1>2
<1>5. ASSUME NEW k \in Free
      PROVE  Exec(k, <<"rule", "del">>) \in Free /\ Exec(k, <<"route", "flush">>) \in Free
  <2>1. k \in Kernels /\ \A t \in Tables : ~k[t].redirect
    BY <1>2
  <2>2. /\ Exec(k, <<"rule", "del">>) \in Kernels
        /\ \A t \in Tables : Exec(k, <<"rule", "del">>)[t] = k[t]
    BY <2>1, TableNames, ExecOnRoute
  <2>3. /\ Exec(k, <<"route", "flush">>) \in Kernels
        /\ \A t \in Tables : Exec(k, <<"route", "flush">>)[t] = k[t]
    BY <2>1, TableNames, ExecOnRoute
  <2>4. QED
    BY <1>2, <2>1, <2>2, <2>3
<1> HIDE DEF Free
<1>6. /\ Takes(SUBSET Kernels, Free, << <<"rule", "del">> >>, Free)
      /\ Takes(SUBSET Kernels, Free, << <<"route", "flush">> >>, Free)
  BY <1>4, <1>5, TakesSingle
<1>7. << <<"rule", "del">> >> \in Seq(CommandSet) /\ << <<"route", "flush">> >> \in Seq(CommandSet)
  BY DEF CommandSet
<1>8. RoutesDown = << <<"rule", "del">> >> \o << <<"route", "flush">> >>
  BY DEF RoutesDown
<1>9. Takes(SUBSET Kernels, Free, RoutesDown, Free)
  BY <1>6, <1>7, <1>8, TakesBoth
<1>10. Takes(SUBSET Kernels, Kernels, AllParts, Free)
  BY <1>3 DEF Free
<1>11. Takes(SUBSET Kernels, Kernels, AllParts \o RoutesDown, Free)
  BY <1>9, <1>10, ScriptsAreCommands, TakesBoth
<1>12. QED
  BY <1>11, ScriptsAre DEF Free

-----------------------------------------------------------------------------
(***************************************************************************)
(* No half redirect.  Between any two commands of a script that runs alone *)
(* the assertions are sealed, no REDIRECT without the private bypass, and  *)
(* stable: a reload of the firewall in between keeps them.                 *)
(***************************************************************************)
Tight(chain) == chain.redirect => "private" \in chain.bypass

Sealed == {k \in Kernels : \A t \in Tables : Tight(k[t])}

Bypassing(t) == {k \in Sealed : k[t].made => "private" \in k[t].bypass}

Reloaded(k) ==
  { [k EXCEPT !.nat.hooks = 0, !.mangle.hooks = 0],
    [k EXCEPT !.nat = NoChain, !.mangle = NoChain] }

Stable == {P \in SUBSET Sealed : \A k \in P : Reloaded(k) \subseteq P}

LEMMA ReloadedIs ==
  ASSUME NEW k \in Kernels, NEW r \in Reloaded(k), NEW t \in {"nat", "mangle"}
  PROVE  /\ r \in Kernels
         /\ r[t].hooks = 0 /\ (r[t] = NoChain \/ (r[t].made = k[t].made
              /\ r[t].redirect = k[t].redirect /\ r[t].bypass = k[t].bypass))
<1>1. ASSUME NEW c \in Chains
      PROVE  /\ [c EXCEPT !.hooks = 0] \in Chains /\ [c EXCEPT !.hooks = 0].hooks = 0
             /\ [c EXCEPT !.hooks = 0].made = c.made
             /\ [c EXCEPT !.hooks = 0].redirect = c.redirect
             /\ [c EXCEPT !.hooks = 0].bypass = c.bypass
  <2>1. c \in [made : BOOLEAN, bypass : SUBSET Bypassed, redirect : BOOLEAN, hooks : Nat]
    BY DEF Chains
  <2>2. c = NoChain => [c EXCEPT !.hooks = 0] = c
    <3>1. NoChain.hooks = 0
      BY DEF NoChain
    <3>2. QED
      BY <2>1, <3>1
  <2>3. QED
    BY <2>1, <2>2 DEF Chains
<1>2. k.nat \in Chains /\ k.mangle \in Chains
  BY DEF Kernels
<1>3. CASE r = [k EXCEPT !.nat.hooks = 0, !.mangle.hooks = 0]
  <2>1. r = [k EXCEPT !.nat = [k.nat EXCEPT !.hooks = 0],
                      !.mangle = [k.mangle EXCEPT !.hooks = 0]]
    BY <1>3 DEF Kernels
  <2>2. r \in Kernels
    BY <1>1, <1>2, <2>1 DEF Kernels
  <2>3. r.nat = [k.nat EXCEPT !.hooks = 0] /\ r.mangle = [k.mangle EXCEPT !.hooks = 0]
    BY <2>1 DEF Kernels
  <2>4. r[t] = [k[t] EXCEPT !.hooks = 0] /\ k[t] \in Chains
    BY <1>2, <2>3
  <2>5. QED
    BY <1>1, <2>2, <2>4
<1>4. CASE r = [k EXCEPT !.nat = NoChain, !.mangle = NoChain]
  <2>1. r \in Kernels /\ r.nat = NoChain /\ r.mangle = NoChain
    BY <1>4, NoChainIsChain DEF Kernels
  <2>2. NoChain.hooks = 0
    BY DEF NoChain
  <2>3. QED
    BY <2>1, <2>2
<1>5. QED
  BY <1>3, <1>4 DEF Reloaded

LEMMA SealedIsStable ==
  Sealed \in Stable /\ \A t \in {"nat", "mangle"} : Bypassing(t) \in Stable
<1>1. ~NoChain.redirect /\ ~NoChain.made
  BY DEF NoChain
<1>2. ASSUME NEW k \in Sealed, NEW r \in Reloaded(k)
      PROVE  r \in Sealed
  BY <1>1, ReloadedIs, TableNames DEF Sealed, Tight
<1>3. ASSUME NEW t \in {"nat", "mangle"}, NEW k \in Bypassing(t), NEW r \in Reloaded(k)
      PROVE  r \in Bypassing(t)
  <2>1. k \in Sealed /\ k \in Kernels
    BY DEF Bypassing, Sealed
  <2>2. r \in Sealed
    BY <1>2, <2>1
  <2>3. r[t] = NoChain \/ (r[t].made = k[t].made /\ r[t].bypass = k[t].bypass)
    BY <2>1, ReloadedIs
  <2>4. QED
    BY <1>1, <2>2, <2>3 DEF Bypassing
<1>4. QED
  BY <1>2, <1>3 DEF Stable, Bypassing

\* Only a REDIRECT can break the seal, and only in a chain without the bypass.
LEMMA TightStays ==
  ASSUME NEW c \in Chains, Tight(c), NEW x \in ChainCommands,
         x = "redirect" => (c.made => "private" \in c.bypass)
  PROVE  /\ Tight(OnChain(c, x))
         /\ x = "private" => (OnChain(c, x).made => "private" \in OnChain(c, x).bypass)
         /\ x = "vpn" /\ (c.made => "private" \in c.bypass) =>
              (OnChain(c, x).made => "private" \in OnChain(c, x).bypass)
<1> USE DEF Tight
<1>1. CASE x \in {"N", "hook", "unhook"}
  BY <1>1 DEF OnChain, Chains
<1>2. CASE x = "F"
  BY <1>2, Empties
<1>3. CASE x = "X"
  BY <1>3 DEF OnChain, NoChain
<1>4. CASE x = "redirect"
  BY <1>4 DEF OnChain, AppendEntry, Chains
<1>5. CASE x \in {"private", "vpn"}
  <2>1. OnChain(c, x) = AppendEntry(c, x)
    BY <1>5 DEF OnChain
  <2>2. CASE ~c.made \/ c.redirect
    BY <1>5, <2>1, <2>2 DEF AppendEntry
  <2>3. CASE c.made /\ ~c.redirect
    BY <1>5, <2>3, Appends
  <2>4. QED
    BY <2>2, <2>3
<1>6. QED
  BY <1>1, <1>2, <1>3, <1>4, <1>5 DEF ChainCommands

LEMMA SealStays ==
  ASSUME NEW t \in Tables, NEW k \in Sealed, NEW x \in ChainCommands,
         x = "redirect" => k \in Bypassing(t)
  PROVE  /\ Exec(k, <<t, x>>) \in Sealed
         /\ x = "private" => Exec(k, <<t, x>>) \in Bypassing(t)
         /\ x = "vpn" /\ k \in Bypassing(t) => Exec(k, <<t, x>>) \in Bypassing(t)
<1> DEFINE n == Exec(k, <<t, x>>)
<1>1. t \in {"nat", "mangle"} /\ k \in Kernels /\ k[t] \in Chains /\ Tight(k[t])
  BY TableNames DEF Sealed, Kernels
<1>2. n \in Kernels /\ n[t] = OnChain(k[t], x)
  BY <1>1, ExecOnChain
<1>3. \A u \in {"nat", "mangle"} \ {t} : n[u] = k[u]
  BY <1>1, ExecElsewhere
<1>4. x = "redirect" => (k[t].made => "private" \in k[t].bypass)
  BY DEF Bypassing
<1>5. /\ Tight(n[t])
      /\ x = "private" => (n[t].made => "private" \in n[t].bypass)
      /\ x = "vpn" /\ (k[t].made => "private" \in k[t].bypass) =>
           (n[t].made => "private" \in n[t].bypass)
  BY <1>1, <1>2, <1>4, TightStays
<1> HIDE DEF n
<1>6. n \in Sealed
  BY <1>1, <1>2, <1>3, <1>5, TableNames DEF Sealed
<1>7. /\ x = "private" => n \in Bypassing(t)
      /\ x = "vpn" /\ k \in Bypassing(t) => n \in Bypassing(t)
  BY <1>5, <1>6 DEF Bypassing
<1>8. QED
  BY <1>6, <1>7 DEF n

\* writeChainRules appends the REDIRECT after the bypass.
LEMMA ChainSealed ==
  ASSUME NEW t \in Tables, NEW resolved \in BOOLEAN
  PROVE  Takes(Stable, Sealed, ChainRules(t, resolved), Sealed)
<1> DEFINE Begins == << <<t, "N">>, <<t, "F">>, <<t, "private">> >>
           Servers == IF resolved THEN << <<t, "vpn">> >> ELSE <<>>
           Ends == << <<t, "redirect">>, <<t, "unhook">>, <<t, "hook">> >>
           B == Bypassing(t)
<1>1. Sealed \in Stable /\ B \in Stable /\ B \subseteq Sealed
  BY TableNames, SealedIsStable DEF Bypassing
<1>2. ASSUME NEW k \in Sealed, NEW x \in {"N", "F", "unhook", "hook"}
      PROVE  Exec(k, <<t, x>>) \in Sealed
  BY SealStays DEF ChainCommands
<1>3. \A k \in Sealed : Exec(k, <<t, "private">>) \in B
  BY SealStays DEF ChainCommands
<1>4. \A k \in B : Exec(k, <<t, "vpn">>) \in B /\ Exec(k, <<t, "redirect">>) \in Sealed
  BY <1>1, SealStays DEF ChainCommands
<1> HIDE DEF B
<1>5. Takes(Stable, Sealed, Begins, B)
  BY <1>1, <1>2, <1>3, TakesThree
<1>6. Takes(Stable, B, Servers, B)
  <2>1. CASE resolved
    BY <1>1, <1>4, <2>1, TakesSingle
  <2>2. CASE ~resolved
    BY <1>1, <2>2, TakesNothing
  <2>3. QED
    BY <2>1, <2>2
<1>7. Takes(Stable, B, Ends, Sealed)
  BY <1>1, <1>2, <1>4, TakesThree
<1>8. \A x \in ChainCommands : <<t, x>> \in CommandSet
  BY TableNames DEF CommandSet
<1>9. Begins \in Seq(CommandSet) /\ Servers \in Seq(CommandSet) /\ Ends \in Seq(CommandSet)
  BY <1>8 DEF ChainCommands
<1>10. ChainRules(t, resolved) = Begins \o Servers \o Ends
  BY DEF ChainRules
<1> HIDE DEF Begins, Servers, Ends
<1>11. Begins \o Servers \in Seq(CommandSet)
  BY <1>9
<1>12. Takes(Stable, Sealed, Begins \o Servers, B)
  BY <1>5, <1>6, <1>9, TakesBoth
<1>13. QED
  BY <1>7, <1>9, <1>10, <1>11, <1>12, TakesBoth

LEMMA PartSealed ==
  ASSUME NEW t \in Tables
  PROVE  Takes(Stable, Sealed, TeardownPart(t), Sealed)
<1>1. \A k \in Sealed, x \in {"unhook", "F", "X"} : Exec(k, <<t, x>>) \in Sealed
  BY SealStays DEF ChainCommands
<1>2. QED
  BY <1>1, SealedIsStable, TakesThree DEF TeardownPart

LEMMA RoutesSealed ==
  ASSUME NEW c \in {<<"rule", "del">>, <<"rule", "add">>, <<"route", "flush">>, <<"route", "add">>}
  PROVE  Takes(Stable, Sealed, <<c>>, Sealed) /\ <<c>> \in Seq(CommandSet)
<1>1. ASSUME NEW k \in Sealed
      PROVE  Exec(k, c) \in Sealed
  <2>1. k \in Kernels /\ \A t \in Tables : Tight(k[t])
    BY DEF Sealed
  <2>2. Exec(k, c) \in Kernels /\ \A t \in Tables : Exec(k, c)[t] = k[t]
    BY <2>1, TableNames, ExecOnRoute
  <2>3. QED
    BY <2>1, <2>2 DEF Sealed
<1>2. <<c>> \in Seq(CommandSet)
  BY DEF CommandSet
<1>3. QED
  BY <1>1, <1>2, SealedIsStable, TakesSingle

\* Each script keeps the seal from the first command to the last.
LEMMA ScriptsSealed ==
  ASSUME NEW s \in Scripts
  PROVE  Takes(Stable, Sealed, Commands(s), Sealed)
<1> DEFINE Keeps(cmds) == cmds \in Seq(CommandSet) /\ Takes(Stable, Sealed, cmds, Sealed)
<1>1. ASSUME NEW a, NEW b, Keeps(a), Keeps(b)
      PROVE  Keeps(a \o b)
  BY <1>1, TakesBoth
<1>2. \A t \in Tables : Keeps(TeardownPart(t)) /\ \A b \in BOOLEAN : Keeps(ChainRules(t, b))
  BY TableNames, PartsAreCommands, PartSealed, ChainSealed
<1>3. /\ Keeps(<< <<"rule", "del">> >>) /\ Keeps(<< <<"rule", "add">> >>)
      /\ Keeps(<< <<"route", "flush">> >>) /\ Keeps(<< <<"route", "add">> >>)
  BY RoutesSealed
<1> HIDE DEF Keeps
<1>4. Keeps(RoutesUp) /\ Keeps(RoutesDown)
  <2>1. /\ RoutesUp = ((<< <<"rule", "del">> >> \o << <<"rule", "add">> >>)
                       \o << <<"route", "flush">> >>) \o << <<"route", "add">> >>
        /\ RoutesDown = << <<"rule", "del">> >> \o << <<"route", "flush">> >>
    BY DEF RoutesUp, RoutesDown
  <2>2. QED
    BY <1>1, <1>3, <2>1
<1>5. Keeps(AllParts) /\ \A b \in BOOLEAN : Keeps(AllChains(b))
  <2>1. CASE Len(TableOrder) = 1
    BY <1>2, <2>1, Orders DEF AllParts, AllChains
  <2>2. CASE Len(TableOrder) # 1
    <3>1. TableOrder[1] \in Tables /\ TableOrder[2] \in Tables
      BY <2>2, Orders
    <3>2. /\ Keeps(TeardownPart(TableOrder[1]) \o TeardownPart(TableOrder[2]))
          /\ \A b \in BOOLEAN :
               Keeps(ChainRules(TableOrder[1], b) \o ChainRules(TableOrder[2], b))
      BY <1>1, <1>2, <3>1
    <3>3. QED
      BY <2>2, <3>2 DEF AllParts, AllChains
  <2>3. QED
    BY <2>1, <2>2
<1>6. Keeps(AllParts \o RoutesDown) /\ \A b \in BOOLEAN : Keeps(RoutesUp \o AllChains(b))
  BY <1>1, <1>4, <1>5
<1>7. CASE s = Teardown
  <2>1. Commands(s) = AllParts \o RoutesDown
    BY <1>7, ScriptsAre DEF Commands, Teardown
  <2>2. QED
    BY <1>6, <2>1 DEF Keeps
<1>8. ASSUME NEW b \in BOOLEAN, s = RulesOf(b)
      PROVE  Takes(Stable, Sealed, Commands(s), Sealed)
  <2>1. Commands(s) = RoutesUp \o AllChains(b)
    BY <1>8, ScriptsAre DEF Commands, RulesOf
  <2>2. QED
    BY <1>6, <2>1 DEF Keeps
<1>9. QED
  BY <1>7, <1>8 DEF Scripts

\* Each script brings about what it is for, from any state of the tables.
LEMMA ScriptsServe ==
  ASSUME NEW s \in Scripts
  PROVE  Takes(SUBSET Kernels, Kernels, Commands(s), Fulfilled(s))
<1>1. CASE s = Teardown
  <2>1. Commands(s) = TeardownScript
    BY <1>1 DEF Commands, Teardown
  <2>2. QED
    BY <1>1, <2>1, TeardownServes
<1>2. ASSUME NEW b \in BOOLEAN, s = RulesOf(b)
      PROVE  Takes(SUBSET Kernels, Kernels, Commands(s), Fulfilled(s))
  <2>1. Commands(s) = RulesScript(b)
    BY <1>2 DEF Commands, RulesOf
  <2>2. QED
    BY <1>2, <2>1, RulesServe
<1>3. QED
  BY <1>1, <1>2 DEF Scripts

-----------------------------------------------------------------------------
(***************************************************************************)
(* The running scripts.  TypesInv is the type invariant; AloneInv says of  *)
(* a script nobody disturbs that what remains of it leads to what it is    *)
(* for; CleanInv that what remains of a script keeps the seal.             *)
(***************************************************************************)
TypesInv ==
  /\ kernel \in Kernels /\ \A t \in Tables : kernel[t].hooks <= MaxHooks
  /\ todo \in [Runners -> Seq(CommandSet)]
  /\ script \in [Runners -> Scripts \cup {NoScript}]
  /\ \A r \in Runners : todo[r] # <<>> <=> script[r] # NoScript
  /\ disturbed \subseteq Running
  /\ last \in Scripts \cup {NoScript} /\ clean \in BOOLEAN

AloneInv ==
  /\ \A r \in Running \ disturbed :
       /\ Running \subseteq {r}
       /\ \E P \in SUBSET Kernels :
            kernel \in P /\ Takes(SUBSET Kernels, P, todo[r], Fulfilled(script[r]))
  /\ Running # {} => last = NoScript
  /\ last # NoScript => kernel \in Fulfilled(last)

CleanInv ==
  clean =>
    /\ kernel \in Sealed
    /\ \A r, q \in Running : r = q
    /\ \A r \in Running :
         \E P \in Stable : kernel \in P /\ Takes(Stable, P, todo[r], Sealed)

ScriptsInv == TypesInv /\ AloneInv /\ CleanInv

\* What of a step of GuestTraffic concerns the scripts.
RulesNext ==
  \/ \E r \in Runners, s \in Scripts : Begin(r, s)
  \/ \E r \in Runners : RulesStep(r)
  \/ Environment

LEMMA StepsOfScripts == [TrafficNext]_trafficVars => [RulesNext]_rulesVars
<1>1. \A b \in BOOLEAN : RulesOf(b) \in Scripts
  BY DEF Scripts
<1>2. Teardown \in Scripts
  BY DEF Scripts
<1>3. QED
  BY <1>1, <1>2 DEF TrafficNext, trafficVars, rulesVars, RulesNext, UpdateRouting, RestoreRouting,
     Apply, Refresh, FailOpen, ScriptRuns

LEMMA CommandsLeft ==
  ASSUME NEW cmds \in Seq(CommandSet), cmds # <<>>
  PROVE  /\ Head(cmds) \in CommandSet /\ Tail(cmds) \in Seq(CommandSet)
         /\ (Tail(cmds) = <<>>) <=> (Len(cmds) = 1)
<1>1. Len(cmds) \in Nat /\ Len(cmds) # 0 /\ Head(cmds) \in CommandSet
  OBVIOUS
<1>2. Tail(cmds) \in Seq(CommandSet) /\ Len(Tail(cmds)) = Len(cmds) - 1
  OBVIOUS
<1>3. (Tail(cmds) = <<>>) <=> (Len(Tail(cmds)) = 0)
  BY <1>2, EmptySeq
<1>4. QED
  BY <1>1, <1>2, <1>3

LEMMA FulfilledIsSealed ==
  ASSUME NEW s \in Scripts
  PROVE  Fulfilled(s) \subseteq Sealed /\ Fulfilled(s) \in SUBSET Kernels
<1>1. Fulfilled(s) \in SUBSET Kernels
  BY DEF Fulfilled
<1>2. \A k \in Fulfilled(s), t \in Tables : Tight(k[t])
  BY DEF Fulfilled, Serves, Spared, Tight
<1>3. QED
  BY <1>1, <1>2 DEF Sealed

LEMMA NoScriptIsNone == NoScript \notin Scripts
BY DEF NoScript, Scripts, Teardown, RulesOf

\* What the steps of a running script do to everything but the tables.
LEMMA RunningSteps ==
  ASSUME TypesInv, NEW r \in Runners, RulesStep(r)
  PROVE  /\ r \in Running /\ todo[r] \in Seq(CommandSet) /\ todo[r] # <<>>
         /\ \A q \in Runners \ {r} : todo'[q] = todo[q] /\ script'[q] = script[q]
         /\ Running' = IF todo'[r] = <<>> THEN Running \ {r} ELSE Running
         /\ Command(r) \/ LosesCommand(r) => todo'[r] = Tail(todo[r])
         /\ Cut(r) => todo'[r] = <<>>
         /\ script'[r] = IF todo'[r] = <<>> THEN NoScript ELSE script[r]
<1> USE DEF TypesInv
<1>1. r \in Running /\ todo[r] \in Seq(CommandSet) /\ todo[r] # <<>>
  BY DEF RulesStep, Command, LosesCommand, Cut, Running
<1>2. (Tail(todo[r]) = <<>>) <=> (Len(todo[r]) = 1)
  BY <1>1, CommandsLeft
<1>3. /\ Command(r) \/ LosesCommand(r) => todo' = [todo EXCEPT ![r] = Tail(todo[r])]
      /\ Cut(r) => todo' = [todo EXCEPT ![r] = <<>>]
      /\ \/ script' = [script EXCEPT ![r] = NoScript] /\ todo'[r] = <<>>
         \/ script' = script /\ todo'[r] # <<>>
  <2>1. CASE Command(r)
    <3>1. todo' = [todo EXCEPT ![r] = Tail(todo[r])]
      BY <2>1 DEF Command, Advance
    <3>2. Cut(r) => todo' = [todo EXCEPT ![r] = <<>>]
      BY DEF Cut
    <3>3. IF Len(todo[r]) = 1 THEN script' = [script EXCEPT ![r] = NoScript] ELSE script' = script
      BY <2>1 DEF Command, Advance, Done
    <3>4. QED
      BY <1>2, <3>1, <3>2, <3>3
  <2>2. CASE LosesCommand(r)
    <3>1. todo' = [todo EXCEPT ![r] = Tail(todo[r])]
      BY <2>2 DEF LosesCommand
    <3>2. Cut(r) => todo' = [todo EXCEPT ![r] = <<>>]
      BY DEF Cut
    <3>3. script' = [script EXCEPT ![r] = IF Len(todo[r]) = 1 THEN NoScript ELSE @]
      BY <2>2 DEF LosesCommand
    <3>4. Len(todo[r]) # 1 => script' = script
      BY <3>3
    <3>5. QED
      BY <1>2, <3>1, <3>2, <3>3, <3>4
  <2>3. CASE Cut(r)
    <3>1. todo' = [todo EXCEPT ![r] = <<>>] /\ script' = [script EXCEPT ![r] = NoScript]
      BY <2>3 DEF Cut
    <3>2. Command(r) \/ LosesCommand(r) => todo' = [todo EXCEPT ![r] = Tail(todo[r])]
      BY DEF Command, Advance, LosesCommand
    <3>3. QED
      BY <3>1, <3>2
  <2>4. QED
    BY <2>1, <2>2, <2>3 DEF RulesStep
<1>4. /\ \A q \in Runners \ {r} : todo'[q] = todo[q] /\ script'[q] = script[q]
      /\ script'[r] = IF todo'[r] = <<>> THEN NoScript ELSE script[r]
  BY <1>1, <1>3 DEF RulesStep
<1>5. /\ Command(r) \/ LosesCommand(r) => todo'[r] = Tail(todo[r])
      /\ Cut(r) => todo'[r] = <<>>
  BY <1>3
<1>6. Running' = IF todo'[r] = <<>> THEN Running \ {r} ELSE Running
  BY <1>1, <1>4 DEF Running
<1>7. QED
  BY <1>1, <1>4, <1>5, <1>6

LEMMA TypesBegin ==
  ASSUME TypesInv, NEW r \in Runners, NEW s \in Scripts, Begin(r, s)
  PROVE  /\ TypesInv' /\ r \notin Running /\ Running' = Running \cup {r}
         /\ todo'[r] = Commands(s) /\ script'[r] = s
         /\ \A q \in Running : todo'[q] = todo[q] /\ script'[q] = script[q]
<1> USE DEF TypesInv
<1>1. Commands(s) \in Seq(CommandSet) /\ Commands(s) # <<>>
  BY ScriptsAreCommands
<1>2. /\ r \notin Running /\ todo' = [todo EXCEPT ![r] = Commands(s)]
      /\ script' = [script EXCEPT ![r] = s]
  BY DEF Begin, Running
<1>3. /\ todo' \in [Runners -> Seq(CommandSet)] /\ script' \in [Runners -> Scripts \cup {NoScript}]
      /\ todo'[r] = Commands(s) /\ script'[r] = s
      /\ \A q \in Runners \ {r} : todo'[q] = todo[q] /\ script'[q] = script[q]
  BY <1>1, <1>2
<1>4. Running' = Running \cup {r}
  BY <1>1, <1>3 DEF Running
<1>5. \A q \in Runners : todo'[q] # <<>> <=> script'[q] # NoScript
  BY <1>1, <1>3, NoScriptIsNone
<1>6. kernel' = kernel /\ disturbed' \subseteq Running' /\ last' \in {NoScript} /\ clean' \in BOOLEAN
  BY <1>4 DEF Begin
<1>7. QED
  BY <1>2, <1>3, <1>4, <1>5, <1>6 DEF Running

LEMMA TypesStep ==
  ASSUME TypesInv, NEW r \in Runners, RulesStep(r)
  PROVE  TypesInv'
<1> USE DEF TypesInv
<1>1. /\ r \in Running /\ todo[r] \in Seq(CommandSet) /\ todo[r] # <<>>
      /\ \A q \in Runners \ {r} : todo'[q] = todo[q] /\ script'[q] = script[q]
      /\ Running' = IF todo'[r] = <<>> THEN Running \ {r} ELSE Running
      /\ Command(r) \/ LosesCommand(r) => todo'[r] = Tail(todo[r])
      /\ Cut(r) => todo'[r] = <<>>
      /\ script'[r] = IF todo'[r] = <<>> THEN NoScript ELSE script[r]
  BY RunningSteps
<1>2. Head(todo[r]) \in CommandSet /\ Tail(todo[r]) \in Seq(CommandSet)
      /\ ((Tail(todo[r]) = <<>>) <=> (Len(todo[r]) = 1))
  BY <1>1, CommandsLeft
<1>3. script[r] \in Scripts
  BY <1>1
<1>4. CASE Command(r)
  <2>1. kernel' \in Kernels /\ \A t \in Tables : kernel'[t].hooks <= MaxHooks
    BY <1>2, <1>4, ExecIsKernel DEF Command
  <2>2. /\ todo' \in [Runners -> Seq(CommandSet)]
        /\ script' \in [Runners -> Scripts \cup {NoScript}]
    BY <1>2, <1>4 DEF Command, Advance, Done
  <2>3. /\ last' \in Scripts \cup {NoScript} /\ clean' \in BOOLEAN
        /\ disturbed' = IF todo'[r] = <<>> THEN disturbed \ {r} ELSE disturbed
    BY <1>1, <1>2, <1>3, <1>4 DEF Command, Advance, Done
  <2>4. QED
    BY <1>1, <1>3, <2>1, <2>2, <2>3
<1>5. CASE LosesCommand(r)
  <2>1. /\ todo' \in [Runners -> Seq(CommandSet)]
        /\ script' \in [Runners -> Scripts \cup {NoScript}]
    BY <1>2, <1>5 DEF LosesCommand
  <2>2. /\ UNCHANGED <<kernel, last>> /\ clean' \in BOOLEAN
        /\ disturbed' = IF todo'[r] = <<>> THEN disturbed \ {r} ELSE disturbed \cup {r}
    BY <1>1, <1>2, <1>5 DEF LosesCommand
  <2>3. QED
    BY <1>1, <1>3, <2>1, <2>2
<1>6. CASE Cut(r)
  <2>1. /\ todo' \in [Runners -> Seq(CommandSet)]
        /\ script' \in [Runners -> Scripts \cup {NoScript}]
    BY <1>6 DEF Cut
  <2>2. UNCHANGED <<kernel, last, clean>> /\ disturbed' = disturbed \ {r}
    BY <1>6 DEF Cut
  <2>3. QED
    BY <1>1, <1>3, <1>6, <2>1, <2>2
<1>7. QED
  BY <1>4, <1>5, <1>6 DEF RulesStep

LEMMA ReloadStep ==
  ASSUME TypesInv, FirmwareReloads
  PROVE  kernel' \in Reloaded(kernel) /\ Running' = Running /\ TypesInv'
<1>1. kernel' \in Reloaded(kernel) /\ Running' = Running
  BY DEF FirmwareReloads, Reloaded, Running
<1>2. kernel' \in Kernels /\ \A t \in Tables : kernel'[t].hooks <= MaxHooks
  <2>1. ASSUME NEW t \in {"nat", "mangle"}
        PROVE  kernel' \in Kernels /\ kernel'[t].hooks = 0
    BY <1>1, ReloadedIs DEF TypesInv
  <2>2. kernel' \in Kernels
    <3>1. "nat" \in {"nat", "mangle"}
      OBVIOUS
    <3>2. QED
      BY <2>1, <3>1, Zenon
  <2>3. 0 <= MaxHooks
    BY RulesAssumption
  <2>4. ASSUME NEW t \in Tables
        PROVE  kernel'[t].hooks <= MaxHooks
    <3>1. kernel'[t].hooks = 0
      BY <2>1, TableNames
    <3>2. QED
      BY <2>3, <3>1
  <2>5. QED
    BY <2>2, <2>4
<1>3. QED
  BY <1>1, <1>2 DEF FirmwareReloads, TypesInv

LEMMA BootedIs ==
  /\ Booted \in Kernels /\ Booted \in Sealed
  /\ \A t \in {"nat", "mangle"} : Booted[t] = NoChain
<1>1. Booted \in Kernels /\ \A t \in {"nat", "mangle"} : Booted[t] = NoChain
  BY NoChainIsChain DEF Booted, Kernels
<1>2. QED
  BY <1>1, TableNames DEF Sealed, Tight, NoChain

\* The tables after a boot, and nothing runs.
LEMMA AfterBoot ==
  /\ RulesInit => ScriptsInv
  /\ Reboot => ScriptsInv'
<1>1. \A t \in Tables : Booted[t].hooks <= MaxHooks
  BY BootedIs, TableNames, RulesAssumption DEF NoChain
<1>2. <<>> \in Seq(CommandSet)
  OBVIOUS
<1>3. ASSUME RulesInit
      PROVE  ScriptsInv
  <2>1. Running = {}
    BY <1>3 DEF RulesInit, Running
  <2>2. QED
    BY <1>1, <1>2, <1>3, <2>1, BootedIs DEF RulesInit, ScriptsInv, TypesInv, AloneInv, CleanInv
<1>4. ASSUME Reboot
      PROVE  ScriptsInv'
  <2>1. Running' = {}
    BY <1>4 DEF Reboot, Running
  <2>2. QED
    BY <1>1, <1>2, <1>4, <2>1, BootedIs DEF Reboot, ScriptsInv, TypesInv, AloneInv, CleanInv
<1>5. QED
  BY <1>3, <1>4

LEMMA AloneBegin ==
  ASSUME TypesInv, AloneInv, NEW r \in Runners, NEW s \in Scripts, Begin(r, s)
  PROVE  AloneInv'
<1>1. /\ r \notin Running /\ Running' = Running \cup {r}
      /\ todo'[r] = Commands(s) /\ script'[r] = s
  BY TypesBegin
<1>2. /\ kernel' = kernel /\ last' = NoScript
      /\ disturbed' = IF Running = {} THEN {} ELSE Running \cup {r}
  BY DEF Begin
<1>3. ASSUME NEW q \in Running' \ disturbed'
      PROVE  Running' \subseteq {q} /\ q = r
  BY <1>1, <1>2
<1>4. kernel' \in Kernels /\ Takes(SUBSET Kernels, Kernels, todo'[r], Fulfilled(script'[r]))
  BY <1>1, <1>2, ScriptsServe DEF TypesInv
<1>5. QED
  BY <1>2, <1>3, <1>4 DEF AloneInv

LEMMA AloneStep ==
  ASSUME TypesInv, AloneInv, NEW r \in Runners, RulesStep(r)
  PROVE  AloneInv'
<1>1. /\ r \in Running /\ todo[r] \in Seq(CommandSet) /\ todo[r] # <<>>
      /\ Running' = IF todo'[r] = <<>> THEN Running \ {r} ELSE Running
      /\ Command(r) \/ LosesCommand(r) => todo'[r] = Tail(todo[r])
      /\ Cut(r) => todo'[r] = <<>>
      /\ script'[r] = IF todo'[r] = <<>> THEN NoScript ELSE script[r]
  BY RunningSteps
<1>2. last = NoScript /\ script[r] \in Scripts /\ script[r] # NoScript
  BY <1>1, NoScriptIsNone DEF AloneInv, TypesInv
<1>3. \A q \in Running \ disturbed : q = r
  BY <1>1 DEF AloneInv
<1>4. (Tail(todo[r]) = <<>>) <=> (Len(todo[r]) = 1)
  BY <1>1, CommandsLeft
<1>5. ASSUME Running' \subseteq disturbed', last' = NoScript
      PROVE  AloneInv'
  BY <1>5 DEF AloneInv
<1>6. CASE LosesCommand(r)
  <2>1. /\ last' = last
        /\ disturbed' = IF todo'[r] = <<>> THEN disturbed \ {r} ELSE disturbed \cup {r}
    BY <1>1, <1>4, <1>6 DEF LosesCommand
  <2>2. QED
    BY <1>1, <1>2, <1>3, <1>5, <2>1
<1>7. CASE Cut(r)
  <2>1. last' = last /\ disturbed' = disturbed \ {r}
    BY <1>7 DEF Cut
  <2>2. QED
    BY <1>1, <1>2, <1>3, <1>5, <1>7, <2>1
<1>8. CASE Command(r) /\ r \in disturbed
  <2>1. last' = last /\ disturbed' = IF todo'[r] = <<>> THEN disturbed \ {r} ELSE disturbed
    BY <1>1, <1>4, <1>8 DEF Command, Advance, Done
  <2>2. QED
    BY <1>1, <1>2, <1>3, <1>5, <1>8, <2>1
<1>9. CASE Command(r) /\ r \notin disturbed
  <2>1. PICK P \in SUBSET Kernels :
          kernel \in P /\ Takes(SUBSET Kernels, P, todo[r], Fulfilled(script[r]))
    BY <1>1, <1>9 DEF AloneInv
  <2>2. PICK R \in SUBSET Kernels :
          /\ Exec(kernel, Head(todo[r])) \in R
          /\ Takes(SUBSET Kernels, R, Tail(todo[r]), Fulfilled(script[r]))
    BY <1>1, <2>1, TakesRest
  <2>3. kernel' \in R /\ todo'[r] = Tail(todo[r]) /\ Running \subseteq {r}
    BY <1>1, <1>9, <2>2 DEF Command, AloneInv
  <2>4. CASE todo'[r] = <<>>
    <3>1. Running' = {} /\ last' = script[r]
      BY <1>1, <1>4, <1>9, <2>3, <2>4 DEF Command, Advance, Done
    <3>2. R = Fulfilled(script[r])
      <4>1. Takes(SUBSET Kernels, R, <<>>, Fulfilled(script[r]))
        BY <2>2, <2>3, <2>4
      <4> DEFINE F == Fulfilled(script[r])
      <4> HIDE DEF F
      <4>2. Takes(SUBSET Kernels, R, <<>>, F) => R = F
        BY TakesNothing
      <4>3. QED
        BY <4>1, <4>2 DEF F
    <3>3. QED
      BY <2>3, <3>1, <3>2 DEF AloneInv
  <2>5. CASE todo'[r] # <<>>
    <3>1. Running' = Running /\ last' = last /\ disturbed' = disturbed /\ script'[r] = script[r]
      BY <1>1, <1>4, <1>9, <2>3, <2>5 DEF Command, Advance
    <3>2. \A q \in Running' \ disturbed' : q = r
      BY <1>3, <3>1
    <3>3. Takes(SUBSET Kernels, R, todo'[r], Fulfilled(script'[r]))
      BY <2>2, <2>3, <3>1
    <3>4. QED
      BY <1>2, <2>3, <3>1, <3>2, <3>3 DEF AloneInv
  <2>6. QED
    BY <2>4, <2>5
<1>10. QED
  BY <1>6, <1>7, <1>8, <1>9 DEF RulesStep

LEMMA AloneReload ==
  ASSUME TypesInv, AloneInv, FirmwareReloads
  PROVE  AloneInv'
<1>1. Running' = Running /\ disturbed' = Running
  BY ReloadStep DEF FirmwareReloads
<1>2. last' = IF last.name = "rules" THEN NoScript ELSE last
  BY DEF FirmwareReloads
<1>3. ASSUME last' # NoScript
      PROVE  kernel' \in Fulfilled(last')
  <2>1. last = Teardown /\ last' = Teardown
    BY <1>2, <1>3 DEF TypesInv, Scripts, RulesOf
  <2>2. kernel \in Fulfilled(Teardown)
    BY <2>1, NoScriptIsNone DEF AloneInv, Scripts
  <2>3. \A t \in Tables : ~kernel[t].redirect
    BY <2>2 DEF Fulfilled, Teardown
  <2>4. ASSUME NEW t \in Tables
        PROVE  kernel' \in Kernels /\ ~kernel'[t].redirect
    <3>1. t \in {"nat", "mangle"} /\ kernel \in Kernels /\ kernel' \in Reloaded(kernel)
      BY TableNames, ReloadStep DEF TypesInv
    <3>2. kernel' \in Kernels /\ (kernel'[t] = NoChain \/ kernel'[t].redirect = kernel[t].redirect)
      BY <3>1, ReloadedIs
    <3>3. QED
      BY <2>3, <3>2 DEF NoChain
  <2>5. kernel' \in Kernels
    BY ReloadStep DEF TypesInv
  <2>6. QED
    BY <2>1, <2>4, <2>5 DEF Fulfilled, Teardown
<1>4. Running' # {} => last' = NoScript
  BY <1>1, <1>2 DEF AloneInv
<1>5. QED
  BY <1>1, <1>3, <1>4 DEF AloneInv

LEMMA CleanBegin ==
  ASSUME TypesInv, CleanInv, NEW r \in Runners, NEW s \in Scripts, Begin(r, s)
  PROVE  CleanInv'
<1>1. /\ Running' = Running \cup {r} /\ todo'[r] = Commands(s) /\ kernel' = kernel
      /\ clean' = (clean /\ Running = {})
  BY TypesBegin DEF Begin
<1>2. SUFFICES ASSUME clean'
               PROVE  CleanInv'
  BY DEF CleanInv
<1>3. kernel' \in Sealed /\ Running' = {r}
  BY <1>1, <1>2 DEF CleanInv
<1>4. Sealed \in Stable /\ Takes(Stable, Sealed, todo'[r], Sealed)
  BY <1>1, SealedIsStable, ScriptsSealed
<1>5. QED
  BY <1>3, <1>4 DEF CleanInv

LEMMA CleanStep ==
  ASSUME TypesInv, AloneInv, CleanInv, NEW r \in Runners, RulesStep(r)
  PROVE  CleanInv'
<1>1. SUFFICES ASSUME clean'
               PROVE  CleanInv'
  BY DEF CleanInv
<1>2. /\ r \in Running /\ todo[r] \in Seq(CommandSet) /\ todo[r] # <<>>
      /\ \A q \in Runners \ {r} : todo'[q] = todo[q]
      /\ Running' = IF todo'[r] = <<>> THEN Running \ {r} ELSE Running
      /\ Command(r) => todo'[r] = Tail(todo[r])
      /\ Cut(r) => todo'[r] = <<>>
  BY RunningSteps
<1>3. (Tail(todo[r]) = <<>>) <=> (Len(todo[r]) = 1)
  BY <1>2, CommandsLeft
<1>4. ~LosesCommand(r)
  BY <1>1 DEF LosesCommand
<1>5. CASE Cut(r)
  <2>1. clean /\ kernel' = kernel
    BY <1>1, <1>5 DEF Cut
  <2>2. kernel \in Sealed /\ Running' = {}
    BY <1>2, <1>5, <2>1 DEF CleanInv
  <2>3. QED
    BY <2>1, <2>2 DEF CleanInv
<1>6. CASE Command(r) /\ clean
  <2>1. kernel \in Sealed /\ Running = {r}
    BY <1>2, <1>6 DEF CleanInv
  <2>2. PICK P \in Stable : kernel \in P /\ Takes(Stable, P, todo[r], Sealed)
    BY <1>2, <1>6 DEF CleanInv
  <2>3. PICK R \in Stable :
          Exec(kernel, Head(todo[r])) \in R /\ Takes(Stable, R, Tail(todo[r]), Sealed)
    BY <1>2, <2>2, TakesRest
  <2>4. kernel' \in R /\ todo'[r] = Tail(todo[r]) /\ R \subseteq Sealed
    BY <1>2, <1>6, <2>3 DEF Command, Stable
  <2>5. Running' \subseteq {r} /\ Takes(Stable, R, todo'[r], Sealed)
    BY <1>2, <2>1, <2>3, <2>4
  <2>6. QED
    BY <2>4, <2>5 DEF CleanInv
<1>7. CASE Command(r) /\ ~clean
  <2>1. todo'[r] = <<>> /\ r \notin disturbed
    BY <1>1, <1>2, <1>3, <1>7 DEF Command, Advance, Done
  <2>2. Running' = {}
    BY <1>2, <2>1 DEF AloneInv
  <2>3. last' = script[r]
    BY <1>2, <1>3, <1>7, <2>1 DEF Command, Advance, Done
  <2>4. script[r] \in Scripts /\ script[r] # NoScript
    BY <1>2, NoScriptIsNone DEF TypesInv
  <2>5. kernel' \in Fulfilled(script[r])
    BY <2>3, <2>4, AloneStep DEF AloneInv
  <2>6. kernel' \in Sealed
    BY <2>4, <2>5, FulfilledIsSealed
  <2>7. QED
    BY <2>2, <2>6 DEF CleanInv
<1>8. QED
  BY <1>4, <1>5, <1>6, <1>7 DEF RulesStep

LEMMA CleanReload ==
  ASSUME TypesInv, CleanInv, FirmwareReloads
  PROVE  CleanInv'
<1>1. kernel' \in Reloaded(kernel) /\ Running' = Running /\ UNCHANGED <<todo, clean>>
  BY ReloadStep DEF FirmwareReloads
<1>2. SUFFICES ASSUME clean
               PROVE  CleanInv'
  BY <1>1 DEF CleanInv
<1>3. \A P \in Stable : kernel \in P => kernel' \in P
  BY <1>1 DEF Stable
<1>4. kernel' \in Sealed
  BY <1>2, <1>3, SealedIsStable DEF CleanInv
<1>5. \A q \in Running' :
        \E P \in Stable : kernel' \in P /\ Takes(Stable, P, todo'[q], Sealed)
  BY <1>1, <1>2, <1>3 DEF CleanInv
<1>6. QED
  BY <1>1, <1>2, <1>4, <1>5 DEF CleanInv

LEMMA ScriptsNext == ScriptsInv /\ [RulesNext]_rulesVars => ScriptsInv'
<1> SUFFICES ASSUME ScriptsInv, [RulesNext]_rulesVars
             PROVE  ScriptsInv'
  OBVIOUS
<1> USE DEF ScriptsInv
<1>1. ASSUME NEW r \in Runners, NEW s \in Scripts, Begin(r, s)
      PROVE  ScriptsInv'
  BY <1>1, TypesBegin, AloneBegin, CleanBegin
<1>2. ASSUME NEW r \in Runners, RulesStep(r)
      PROVE  ScriptsInv'
  BY <1>2, TypesStep, AloneStep, CleanStep
<1>3. CASE FirmwareReloads
  BY <1>3, ReloadStep, AloneReload, CleanReload
<1>4. CASE Reboot
  BY <1>4, AfterBoot
<1>5. CASE UNCHANGED rulesVars
  BY <1>5 DEF rulesVars, TypesInv, AloneInv, CleanInv, Running
<1>6. QED
  BY <1>1, <1>2, <1>3, <1>4, <1>5 DEF RulesNext, Environment

LEMMA ScriptsAlways == TrafficSpec => []ScriptsInv
<1>1. TrafficInit => ScriptsInv
  BY AfterBoot DEF TrafficInit
<1>2. ScriptsInv /\ [TrafficNext]_trafficVars => ScriptsInv'
  BY ScriptsNext, StepsOfScripts
<1>3. QED
  BY <1>1, <1>2, PTL DEF TrafficSpec

\* A teardown that ended undisturbed has freed the guests, whatever the tables
\* held when it began and however many scripts had overlapped before (TeardownFrees).
THEOREM TeardownAlwaysFrees == TrafficSpec => []TeardownFrees
<1>1. ScriptsInv => TeardownFrees
  BY NoScriptIsNone DEF ScriptsInv, AloneInv, TeardownFrees, Fulfilled, Teardown, Redirected, Scripts
<1>2. QED
  BY <1>1, ScriptsAlways, PTL

\* A rules script that ended undisturbed has repaired the tables, whatever they
\* held: the sites go to xray, what it spares does not (RulesRepair).
THEOREM RulesAlwaysRepair == TrafficSpec => []RulesRepair
<1>1. ScriptsInv => RulesRepair
  <2> SUFFICES ASSUME ScriptsInv, last.name = "rules", NEW t \in Tables
               PROVE  /\ Arrives(t)
                      /\ \A d \in Destinations : Redirected(t, d) <=>
                           d \in Sites \/ (d = "vpn" /\ ~last.resolved)
    BY DEF RulesRepair
  <2>1. PICK b \in BOOLEAN : last = RulesOf(b)
    BY DEF ScriptsInv, TypesInv, Scripts, Teardown, NoScript
  <2>2. last # NoScript /\ last.resolved = b /\ last.name # "teardown"
    BY <2>1, NoScriptIsNone DEF Scripts, RulesOf
  <2>3. kernel \in Fulfilled(last)
    BY <2>2 DEF ScriptsInv, AloneInv
  <2>4. kernel.policy /\ kernel.route /\ Serves(kernel[t], b)
    BY <2>2, <2>3 DEF Fulfilled
  <2>5. ASSUME NEW d \in Destinations
        PROVE  Redirected(t, d) <=> d \in Sites \/ (d = "vpn" /\ ~b)
    <3>1. Redirected(t, d) <=> d \notin Spared(b)
      BY <2>4 DEF Redirected, Serves
    <3>2. QED
      BY <3>1, RulesAssumption DEF Spared, Destinations, Bypassed
  <2>6. QED
    BY <2>2, <2>4, <2>5 DEF Arrives
<1>2. QED
  BY <1>1, ScriptsAlways, PTL

\* While scripts run one at a time nothing for the home network is redirected, not
\* between two commands, after a killed script or a reload (NoHalfRedirect).
THEOREM NeverHalfRedirected == TrafficSpec => []NoHalfRedirect
<1>1. ScriptsInv => NoHalfRedirect
  BY DEF ScriptsInv, CleanInv, NoHalfRedirect, Redirected, Sealed, Tight
<1>2. QED
  BY <1>1, ScriptsAlways, PTL

\* Every variable keeps its type: no jump too many, a chain that does not exist is
\* empty, a process runs a script while it has commands left, and the saved
\* routing is always a normalized one (TypeOK).
THEOREM TypeCorrect == TrafficSpec => []TypeOK
<1> DEFINE SavedInv == saved \in {DefaultRouting} \cup {Normalize(r) : r \in Submitted}
<1>1. TrafficInit => SavedInv
  BY DEF TrafficInit
<1>2. SavedInv /\ [TrafficNext]_trafficVars => SavedInv'
  BY DEF TrafficNext, trafficVars, UpdateRouting, RestoreRouting, Apply, Refresh, FailOpen, ScriptRuns
<1>3. ScriptsInv /\ SavedInv => TypeOK
  <2> SUFFICES ASSUME TypesInv, SavedInv
               PROVE  TypeOK
    BY DEF ScriptsInv
  <2>1. ASSUME NEW t \in Tables
        PROVE  /\ kernel[t].hooks \in 0..MaxHooks /\ kernel[t].bypass \subseteq Bypassed
               /\ ~kernel[t].made => kernel[t] = NoChain
    <3>1. kernel[t] \in Chains /\ kernel[t].hooks <= MaxHooks
      BY TableNames DEF TypesInv, Kernels
    <3>2. QED
      BY <3>1, RulesAssumption DEF Chains
  <2>2. kernel.policy \in BOOLEAN /\ kernel.route \in BOOLEAN
    BY DEF TypesInv, Kernels
  <2>3. QED
    BY <2>1, <2>2 DEF TypesInv, TypeOK
<1> HIDE DEF SavedInv
<1>4. QED
  BY <1>1, <1>2, <1>3, ScriptsAlways, PTL DEF TrafficSpec
=============================================================================
