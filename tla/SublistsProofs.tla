--------------------------- MODULE SublistsProofs ---------------------------
(***************************************************************************)
(* What Kept returns, for every sequence: its members, its length, and     *)
(* what becomes of it when sequences are put together.                     *)
(*                                                                         *)
(* Kept is a recursive function.  That it exists for each length, and that *)
(* a set which has <<>> and is closed under Append has every sequence, are *)
(* proved by induction on a set of natural numbers, from the least element *)
(* of its complement.  The rest is induction on a set of sequences.        *)
(***************************************************************************)
EXTENDS Sublists, SequenceTheorems, FiniteSetTheorems, WellFoundedInduction, TLAPS

-----------------------------------------------------------------------------
(* Induction.                                                              *)

\* The order of the naturals is well-founded.
LEMMA LeastElement ==
  ASSUME NEW T, T \subseteq Nat, T # {}
  PROVE  \E n \in T : \A m \in T : n <= m
<1> DEFINE R == {ss \in Nat \X Nat : ss[1] < ss[2]}
<1>1. IsWellFoundedOn(R, Nat)
  BY NatLessThanWellFounded, Zenon DEF OpToRel
<1> HIDE DEF R
<1>2. PICK n \in T : \A m \in T : ~ (<<m, n>> \in R)
  BY <1>1, WFMin, Zenon
<1>3. \A m \in T : <<m, n>> \in R <=> m < n
  BY Zenon DEF R
<1>4. n \in T /\ \A m \in T : ~ (m < n)
  BY <1>2, <1>3, Zenon
<1>5. \A i, j \in Nat : ~ (j < i) => i <= j
  OBVIOUS
<1> HIDE DEF R
<1>6. \A m \in T : n <= m
  BY <1>4, <1>5, Zenon
<1> QED
  BY <1>4, <1>6, Zenon

\* Induction, for a set of natural numbers.
LEMMA NatInd ==
  ASSUME NEW S, 0 \in S, \A n \in Nat : n \in S => n+1 \in S
  PROVE Nat \subseteq S
<1> SUFFICES ASSUME Nat \ S # {} PROVE FALSE
  OBVIOUS
<1>1. PICK n \in Nat \ S : \A m \in Nat \ S : n <= m
  BY LeastElement
<1> QED
  BY <1>1

\* Induction, for a set of sequences.
LEMMA SeqInd ==
  ASSUME NEW T, NEW S, <<>> \in S,
         \A s \in Seq(T), x \in T : s \in S => Append(s, x) \in S
  PROVE  Seq(T) \subseteq S
<1> DEFINE N == {n \in Nat : \A s \in Seq(T) : Len(s) = n => s \in S}
<1>1. 0 \in N
  BY EmptySeq, Zenon
<1>2. ASSUME NEW n \in Nat, n \in N PROVE n + 1 \in N
  <2> SUFFICES ASSUME NEW s \in Seq(T), Len(s) = n + 1 PROVE s \in S
    OBVIOUS
  <2>1. PICK h \in Seq(T), x \in T : Len(h) = n /\ s = Append(h, x)
    <3>1. DEFINE h == [i \in 1..n |-> s[i]]
    <3>2. h \in Seq(T) /\ Len(h) = n /\ s[n + 1] \in T
      OBVIOUS
    <3>3. s = Append(h, s[n + 1])
      <4>1. /\ Append(h, s[n + 1]) \in Seq(T) /\ Len(Append(h, s[n + 1])) = n + 1
            /\ \A i \in 1..n + 1 : Append(h, s[n + 1])[i] = s[i]
        BY <3>2
      <4> HIDE DEF h
      <4> QED
        BY <4>1, SeqEqual
    <3> QED
      BY <3>2, <3>3
  <2> QED
    BY <1>2, <2>1
<1>3. Nat \subseteq N
  <2> HIDE DEF N
  <2> QED
    BY <1>1, <1>2, NatInd
<1> QED
  BY <1>3

-----------------------------------------------------------------------------
(* Kept.                                                                   *)

\* Kept is the last of the filtered prefixes.
Filtered(f, seq, keep) ==
  f = [i \in 0..Len(seq) |->
         IF i = 0 THEN <<>>
         ELSE IF seq[i] \in keep THEN Append(f[i - 1], seq[i]) ELSE f[i - 1]]

\* There is one, built up prefix by prefix.
LEMMA FilteredExists ==
  ASSUME NEW T, NEW seq \in Seq(T), NEW keep
  PROVE  \E f : Filtered(f, seq, keep)
<1> DEFINE Step(f, i) == IF i = 0 THEN <<>>
                         ELSE IF seq[i] \in keep THEN Append(f[i - 1], seq[i]) ELSE f[i - 1]
           S == {n \in Nat : \E f : f = [i \in 0..n |-> Step(f, i)]}
<1>1. 0 \in S
  <2>1. [i \in 0..0 |-> <<>>] = [i \in 0..0 |-> Step([j \in 0..0 |-> <<>>], i)]
    OBVIOUS
  <2> QED
    BY <2>1
<1>2. ASSUME NEW n \in Nat, n \in S PROVE n + 1 \in S
  <2>1. PICK f : f = [i \in 0..n |-> Step(f, i)]
    BY <1>2
  <2> DEFINE g == [i \in 0..n + 1 |-> IF i = n + 1 THEN Step(f, i) ELSE f[i]]
  <2>2. ASSUME NEW i \in 0..n + 1 PROVE g[i] = Step(g, i)
    <3>1. CASE i = 0
      BY <2>1, <3>1
    <3>2. CASE i = n + 1
      <4>1. i - 1 \in 0..n /\ g[i - 1] = f[i - 1]
        BY <3>2
      <4> QED
        BY <3>2, <4>1
    <3>3. CASE i \in 1..n
      <4>1. i - 1 \in 0..n /\ g[i - 1] = f[i - 1] /\ g[i] = f[i]
        BY <3>3
      <4>2. f[i] = Step(f, i)
        <5> HIDE DEF Step
        <5>1. i \in 0..n
          BY <3>3
        <5> QED
          BY <2>1, <5>1, Zenon
      <4> QED
        BY <3>3, <4>1, <4>2
    <3> QED
      BY <3>1, <3>2, <3>3
  <2>3. g = [i \in 0..n + 1 |-> Step(g, i)]
    <3> HIDE DEF Step
    <3>1. g = [i \in 0..n + 1 |-> g[i]]
      OBVIOUS
    <3> QED
      BY <2>2, <3>1, Zenon
  <2> HIDE DEF Step, g
  <2>4. n + 1 \in Nat
    OBVIOUS
  <2> QED
    BY <2>3, <2>4, Zenon
<1>3. Len(seq) \in S
  <2> HIDE DEF S
  <2> QED
    BY <1>1, <1>2, NatInd
<1>4. PICK f : f = [i \in 0..Len(seq) |-> Step(f, i)]
  BY <1>3
<1>5. Filtered(f, seq, keep)
  BY <1>4 DEF Filtered
<1> QED
  BY <1>5

LEMMA KeptIsFiltered ==
  ASSUME NEW T, NEW seq \in Seq(T), NEW keep
  PROVE  \E f : Filtered(f, seq, keep) /\ Kept(seq, keep) = f[Len(seq)]
<1> DEFINE g == CHOOSE f : Filtered(f, seq, keep)
<1>1. Filtered(g, seq, keep)
  BY FilteredExists
<1>2. Kept(seq, keep) = g[Len(seq)]
  BY DEF Kept, Filtered
<1> HIDE DEF g
<1> QED
  BY <1>1, <1>2

LEMMA FilteredStep ==
  ASSUME NEW T, NEW seq \in Seq(T), NEW keep, NEW f, Filtered(f, seq, keep)
  PROVE  /\ f[0] = <<>>
         /\ \A i \in 1..Len(seq) :
              f[i] = IF seq[i] \in keep THEN Append(f[i - 1], seq[i]) ELSE f[i - 1]
<1> DEFINE Step(g, i) == IF i = 0 THEN <<>>
                         ELSE IF seq[i] \in keep THEN Append(g[i - 1], seq[i]) ELSE g[i - 1]
<1>1. f = [i \in 0..Len(seq) |-> Step(f, i)]
  BY DEF Filtered
<1>2. \A i \in 0..Len(seq) : f[i] = Step(f, i)
  <2> HIDE DEF Step
  <2> QED
    BY <1>1, Zenon
<1>3. Len(seq) \in Nat
  OBVIOUS
<1>4. 0 \in 0..Len(seq) /\ \A i \in 1..Len(seq) : i \in 0..Len(seq) /\ i # 0
  BY <1>3
<1> HIDE <1>1
<1> QED
  BY <1>2, <1>4

LEMMA KeptEmpty ==
  ASSUME NEW keep
  PROVE  Kept(<<>>, keep) = <<>>
<1>1. PICK e \in Seq({}) : e = <<>> /\ Len(e) = 0
  BY EmptySeq, Zenon
<1>2. PICK f : Filtered(f, e, keep) /\ Kept(e, keep) = f[Len(e)]
  BY KeptIsFiltered
<1>3. f[0] = <<>>
  BY <1>2, FilteredStep
<1> QED
  BY <1>1, <1>2, <1>3

\* One more element is the last to be copied.
LEMMA KeptAppend ==
  ASSUME NEW T, NEW seq \in Seq(T), NEW x \in T, NEW keep
  PROVE  Kept(Append(seq, x), keep) =
           IF x \in keep THEN Append(Kept(seq, keep), x) ELSE Kept(seq, keep)
<1>1. PICK app : app = Append(seq, x)
  OBVIOUS
<1>2. /\ app \in Seq(T) /\ Len(seq) \in Nat /\ Len(app) = Len(seq) + 1
      /\ app[Len(seq) + 1] = x /\ \A i \in 1..Len(seq) : app[i] = seq[i]
  BY <1>1
<1>3. PICK f : Filtered(f, seq, keep) /\ Kept(seq, keep) = f[Len(seq)]
  BY KeptIsFiltered
<1>4. PICK g : Filtered(g, app, keep) /\ Kept(app, keep) = g[Len(app)]
  BY <1>2, KeptIsFiltered
<1>5. /\ f[0] = <<>>
      /\ \A i \in 1..Len(seq) : f[i] = IF seq[i] \in keep THEN Append(f[i - 1], seq[i]) ELSE f[i - 1]
  BY <1>3, FilteredStep
<1>6. /\ g[0] = <<>>
      /\ \A i \in 1..Len(app) : g[i] = IF app[i] \in keep THEN Append(g[i - 1], app[i]) ELSE g[i - 1]
  BY <1>2, <1>4, FilteredStep
<1> DEFINE N == {n \in Nat : n <= Len(seq) => f[n] = g[n]}
<1>7. 0 \in N
  BY <1>5, <1>6
<1>8. ASSUME NEW n \in Nat, n \in N PROVE n + 1 \in N
  <2> SUFFICES ASSUME n + 1 <= Len(seq) PROVE f[n + 1] = g[n + 1]
    OBVIOUS
  <2>1. f[n] = g[n]
    BY <1>2, <1>8
  <2>2. n + 1 \in 1..Len(seq) /\ n + 1 \in 1..Len(app) /\ (n + 1) - 1 = n
    BY <1>2
  <2> QED
    BY <1>2, <1>5, <1>6, <2>1, <2>2
<1>9. Len(seq) \in N
  <2>1. Nat \subseteq N
    <3> HIDE DEF N
    <3> QED
      BY <1>7, <1>8, NatInd
  <2> QED
    BY <1>2, <2>1
<1>10. f[Len(seq)] = g[Len(seq)]
  BY <1>2, <1>9
<1>11. g[Len(seq) + 1] = IF x \in keep THEN Append(g[Len(seq)], x) ELSE g[Len(seq)]
  <2>1. Len(seq) + 1 \in 1..Len(app) /\ (Len(seq) + 1) - 1 = Len(seq)
    BY <1>2
  <2> QED
    BY <1>2, <1>6, <2>1
<1> QED
  BY <1>1, <1>2, <1>3, <1>4, <1>10, <1>11

-----------------------------------------------------------------------------
(* Members, positions and lengths.                                         *)

LEMMA AppendToSet ==
  ASSUME NEW T, NEW seq \in Seq(T), NEW x \in T
  PROVE  ToSet(Append(seq, x)) = ToSet(seq) \cup {x}
<1> DEFINE app == Append(seq, x)
<1>1. app \in Seq(T) /\ Len(app) = Len(seq) + 1
  OBVIOUS
<1>2. \A i \in 1..Len(seq) : app[i] = seq[i]
  OBVIOUS
<1>3. app[Len(seq) + 1] = x
  OBVIOUS
<1> HIDE DEF app
<1>4. Len(seq) \in Nat /\ DOMAIN seq = 1..Len(seq) /\ DOMAIN app = 1..Len(seq) + 1
  BY <1>1
<1>5. ToSet(app) = ToSet(seq) \cup {x}
  BY <1>2, <1>3, <1>4 DEF ToSet
<1> QED
  BY <1>5 DEF app

\* Kept returns a sequence of what is asked for.
LEMMA KeptMembers ==
  ASSUME NEW T, NEW seq \in Seq(T), NEW keep
  PROVE  /\ Kept(seq, keep) \in Seq(T)
         /\ ToSet(Kept(seq, keep)) = ToSet(seq) \cap keep
<1> DEFINE S == {s \in Seq(T) : Kept(s, keep) \in Seq(T)
                               /\ ToSet(Kept(s, keep)) = ToSet(s) \cap keep}
<1>1. <<>> \in S
  <2>1. <<>> \in Seq(T) /\ ToSet(<<>>) = {}
    BY DEF ToSet
  <2> QED
    BY <2>1, KeptEmpty
<1>2. ASSUME NEW s \in Seq(T), NEW x \in T, s \in S PROVE Append(s, x) \in S
  <2>1. Append(s, x) \in Seq(T) /\ ToSet(Append(s, x)) = ToSet(s) \cup {x}
    BY AppendToSet
  <2>2. /\ Append(Kept(s, keep), x) \in Seq(T)
        /\ ToSet(Append(Kept(s, keep), x)) = ToSet(Kept(s, keep)) \cup {x}
    BY <1>2, AppendToSet
  <2>3. Kept(Append(s, x), keep) =
          IF x \in keep THEN Append(Kept(s, keep), x) ELSE Kept(s, keep)
    BY KeptAppend
  <2>4. Kept(Append(s, x), keep) \in Seq(T)
    BY <1>2, <2>2, <2>3
  <2>5. ToSet(Kept(Append(s, x), keep)) = ToSet(Append(s, x)) \cap keep
    BY <1>2, <2>1, <2>2, <2>3
  <2> QED
    BY <2>1, <2>4, <2>5
<1>3. seq \in S
  <2> HIDE DEF S
  <2> QED
    BY <1>1, <1>2, SeqInd
<1> QED
  BY <1>3

LEMMA InjectiveAppend ==
  ASSUME NEW T, NEW seq \in Seq(T), NEW x \in T, IsInjective(seq), x \notin ToSet(seq)
  PROVE  IsInjective(Append(seq, x))
<1>1. PICK app : app = Append(seq, x)
  OBVIOUS
<1>2. Len(seq) \in Nat /\ DOMAIN seq = 1..Len(seq) /\ DOMAIN app = 1..Len(seq) + 1
  BY <1>1
<1>3. (\A i \in 1..Len(seq) : app[i] = seq[i]) /\ app[Len(seq) + 1] = x
  BY <1>1
<1>4. \A i \in 1..Len(seq) : seq[i] # x
  BY <1>2 DEF ToSet
<1>5. ASSUME NEW i \in 1..Len(seq) + 1, NEW j \in 1..Len(seq) + 1, app[i] = app[j]
      PROVE  i = j
  BY <1>2, <1>3, <1>4, <1>5 DEF IsInjective
<1>6. IsInjective(app)
  BY <1>2, <1>5 DEF IsInjective
<1> QED
  BY <1>1, <1>6

LEMMA KeptInjective ==
  ASSUME NEW T, NEW seq \in Seq(T), NEW keep, IsInjective(seq)
  PROVE  IsInjective(Kept(seq, keep))
<1> DEFINE S == {s \in Seq(T) : IsInjective(s) => IsInjective(Kept(s, keep))}
<1>1. <<>> \in S
  BY KeptEmpty DEF IsInjective
<1>2. ASSUME NEW s \in Seq(T), NEW x \in T, s \in S PROVE Append(s, x) \in S
  <2> SUFFICES ASSUME IsInjective(Append(s, x)) PROVE IsInjective(Kept(Append(s, x), keep))
    OBVIOUS
  <2>1. IsInjective(s) /\ x \notin ToSet(s)
    <3>1. PICK app : app = Append(s, x)
      OBVIOUS
    <3>2. /\ Len(s) \in Nat /\ DOMAIN s = 1..Len(s) /\ DOMAIN app = 1..Len(s) + 1
          /\ (\A i \in 1..Len(s) : app[i] = s[i]) /\ app[Len(s) + 1] = x
      BY <3>1
    <3>3. \A i, j \in 1..Len(s) + 1 : app[i] = app[j] => i = j
      BY <3>1, <3>2 DEF IsInjective
    <3>4. \A i, j \in 1..Len(s) : s[i] = s[j] => i = j
      BY <3>2, <3>3
    <3>5. \A i \in 1..Len(s) : s[i] # x
      BY <3>2, <3>3
    <3> QED
      BY <3>2, <3>4, <3>5 DEF IsInjective, ToSet
  <2>2. IsInjective(Kept(s, keep))
    BY <1>2, <2>1
  <2>3. Kept(s, keep) \in Seq(T) /\ x \notin ToSet(Kept(s, keep))
    BY <2>1, KeptMembers
  <2>4. IsInjective(Append(Kept(s, keep), x))
    BY <2>2, <2>3, InjectiveAppend
  <2> QED
    BY <2>2, <2>4, KeptAppend
<1>3. seq \in S
  <2> HIDE DEF S
  <2> QED
    BY <1>1, <1>2, SeqInd
<1> QED
  BY <1>3

LEMMA ToSetIs ==
  ASSUME NEW T, NEW seq \in Seq(T)
  PROVE  ToSet(seq) = {seq[i] : i \in 1..Len(seq)} /\ ToSet(seq) \subseteq T
BY DEF ToSet

LEMMA ConcatToSet ==
  ASSUME NEW T, NEW s \in Seq(T), NEW t \in Seq(T)
  PROVE  s \o t \in Seq(T) /\ ToSet(s \o t) = ToSet(s) \cup ToSet(t)
<1>1. PICK st : st = s \o t
  OBVIOUS
<1>2. /\ Len(s) \in Nat /\ Len(t) \in Nat /\ st \in Seq(T)
      /\ Len(st) = Len(s) + Len(t)
  BY <1>1
<1>3. /\ \A i \in 1..Len(s) : i \in 1..Len(st) /\ st[i] = s[i]
      /\ \A i \in 1..Len(t) : Len(s) + i \in 1..Len(st) /\ st[Len(s) + i] = t[i]
  BY <1>1, <1>2
<1>4. /\ ToSet(s) = {s[i] : i \in 1..Len(s)} /\ ToSet(t) = {t[i] : i \in 1..Len(t)}
      /\ ToSet(st) = {st[i] : i \in 1..Len(st)}
  BY <1>2, ToSetIs
<1>5. ASSUME NEW i \in 1..Len(st) PROVE st[i] \in ToSet(s) \cup ToSet(t)
  <2>1. CASE i \in 1..Len(s)
    BY <1>3, <1>4, <2>1
  <2>2. CASE i \notin 1..Len(s)
    <3>1. PICK j \in 1..Len(t) : Len(s) + j = i
      <4>1. i - Len(s) \in 1..Len(t) /\ Len(s) + (i - Len(s)) = i
        BY <1>2, <2>2
      <4> QED
        BY <4>1
    <3>2. st[i] = t[j]
      BY <1>3, <3>1
    <3> QED
      BY <1>4, <3>2
  <2> QED
    BY <2>1, <2>2
<1>6. ToSet(st) \subseteq ToSet(s) \cup ToSet(t)
  BY <1>4, <1>5
<1>7. \A i \in 1..Len(s) : s[i] \in ToSet(st)
  BY <1>3, <1>4
<1>8. ASSUME NEW i \in 1..Len(t) PROVE t[i] \in ToSet(st)
  <2>1. Len(s) + i \in 1..Len(st) /\ st[Len(s) + i] = t[i]
    BY <1>3
  <2> QED
    BY <1>4, <2>1
<1>9. ToSet(s) \subseteq ToSet(st) /\ ToSet(t) \subseteq ToSet(st)
  BY <1>4, <1>7, <1>8
<1> QED
  BY <1>1, <1>2, <1>6, <1>9


\* Nothing is dropped that is wanted.
LEMMA KeptAll ==
  ASSUME NEW T, NEW seq \in Seq(T), NEW keep, ToSet(seq) \subseteq keep
  PROVE  Kept(seq, keep) = seq
<1> DEFINE S == {s \in Seq(T) : ToSet(s) \subseteq keep => Kept(s, keep) = s}
<1>1. <<>> \in S
  BY KeptEmpty
<1>2. ASSUME NEW s \in Seq(T), NEW x \in T, s \in S PROVE Append(s, x) \in S
  <2>1. Append(s, x) \in Seq(T) /\ ToSet(Append(s, x)) = ToSet(s) \cup {x}
    BY AppendToSet
  <2>2. Kept(Append(s, x), keep) =
          IF x \in keep THEN Append(Kept(s, keep), x) ELSE Kept(s, keep)
    BY KeptAppend
  <2> QED
    BY <1>2, <2>1, <2>2
<1>3. seq \in S
  <2> HIDE DEF S
  <2> QED
    BY <1>1, <1>2, SeqInd
<1> QED
  BY <1>3

\* Filtering twice is filtering for both.
LEMMA KeptKept ==
  ASSUME NEW T, NEW seq \in Seq(T), NEW A, NEW B
  PROVE  Kept(Kept(seq, A), B) = Kept(seq, A \cap B)
<1> DEFINE S == {s \in Seq(T) : Kept(Kept(s, A), B) = Kept(s, A \cap B)}
<1>1. <<>> \in S
  BY KeptEmpty
<1>2. ASSUME NEW s \in Seq(T), NEW x \in T, s \in S PROVE Append(s, x) \in S
  <2>1. Append(s, x) \in Seq(T) /\ Kept(s, A) \in Seq(T)
    BY KeptMembers
  <2>2. /\ Kept(Append(s, x), A) = IF x \in A THEN Append(Kept(s, A), x) ELSE Kept(s, A)
        /\ Kept(Append(s, x), A \cap B) =
             IF x \in A \cap B THEN Append(Kept(s, A \cap B), x) ELSE Kept(s, A \cap B)
    BY KeptAppend
  <2>3. Kept(Append(Kept(s, A), x), B) =
          IF x \in B THEN Append(Kept(Kept(s, A), B), x) ELSE Kept(Kept(s, A), B)
    BY <2>1, KeptAppend
  <2>4. Kept(Kept(s, A), B) = Kept(s, A \cap B)
    BY <1>2
  <2>5. Kept(Kept(Append(s, x), A), B) = Kept(Append(s, x), A \cap B)
    <3>1. CASE x \in A /\ x \in B
      BY <2>2, <2>3, <2>4, <3>1
    <3>2. CASE x \in A /\ x \notin B
      BY <2>2, <2>3, <2>4, <3>2
    <3>3. CASE x \notin A
      BY <2>2, <2>4, <3>3
    <3> QED
      BY <3>1, <3>2, <3>3
  <2> QED
    BY <2>1, <2>5
<1>3. seq \in S
  <2> HIDE DEF S
  <2> QED
    BY <1>1, <1>2, SeqInd
<1> QED
  BY <1>3

\* Filtering what is put together is putting together what is filtered.
LEMMA KeptConcat ==
  ASSUME NEW T, NEW s \in Seq(T), NEW t \in Seq(T), NEW keep
  PROVE  Kept(s \o t, keep) = Kept(s, keep) \o Kept(t, keep)
<1> DEFINE S == {u \in Seq(T) : Kept(s \o u, keep) = Kept(s, keep) \o Kept(u, keep)}
<1>1. <<>> \in S
  <2>1. s \o <<>> = s /\ Kept(s, keep) \o <<>> = Kept(s, keep) /\ <<>> \in Seq(T)
    BY KeptMembers, ConcatEmptySeq, EmptySeq
  <2> QED
    BY <2>1, KeptEmpty
<1>2. ASSUME NEW u \in Seq(T), NEW x \in T, u \in S PROVE Append(u, x) \in S
  <2>1. /\ Append(u, x) \in Seq(T) /\ s \o u \in Seq(T)
        /\ Kept(s, keep) \in Seq(T) /\ Kept(u, keep) \in Seq(T)
    BY KeptMembers
  <2>2. s \o Append(u, x) = Append(s \o u, x)
    BY AppendIsConcat, ConcatAssociative
  <2>3. Kept(s, keep) \o Append(Kept(u, keep), x) = Append(Kept(s, keep) \o Kept(u, keep), x)
    BY <2>1, AppendIsConcat, ConcatAssociative
  <2>4. /\ Kept(Append(s \o u, x), keep) =
             IF x \in keep THEN Append(Kept(s \o u, keep), x) ELSE Kept(s \o u, keep)
        /\ Kept(Append(u, x), keep) =
             IF x \in keep THEN Append(Kept(u, keep), x) ELSE Kept(u, keep)
    BY <2>1, KeptAppend
  <2>5. Kept(s \o u, keep) = Kept(s, keep) \o Kept(u, keep)
    BY <1>2
  <2>6. Kept(s \o Append(u, x), keep) = Kept(s, keep) \o Kept(Append(u, x), keep)
    BY <2>2, <2>3, <2>4, <2>5
  <2> QED
    BY <2>1, <2>6
<1>3. t \in S
  <2> HIDE DEF S
  <2> QED
    BY <1>1, <1>2, SeqInd
<1> QED
  BY <1>3

\* As many are copied as there are positions that hold a wanted member.
Wanted(seq, keep) == {i \in 1..Len(seq) : seq[i] \in keep}

LEMMA KeptLength ==
  ASSUME NEW T, NEW seq \in Seq(T), NEW keep
  PROVE  /\ IsFiniteSet(Wanted(seq, keep))
         /\ Len(Kept(seq, keep)) = Cardinality(Wanted(seq, keep))
<1> DEFINE S == {s \in Seq(T) : /\ IsFiniteSet(Wanted(s, keep))
                               /\ Len(Kept(s, keep)) = Cardinality(Wanted(s, keep))}
<1>1. <<>> \in S
  <2>1. Wanted(<<>>, keep) = {}
    BY DEF Wanted
  <2> QED
    BY <2>1, KeptEmpty, FS_EmptySet
<1>2. ASSUME NEW s \in Seq(T), NEW x \in T, s \in S PROVE Append(s, x) \in S
  <2>1. PICK app : app = Append(s, x)
    OBVIOUS
  <2>2. /\ app \in Seq(T) /\ Len(s) \in Nat /\ Len(app) = Len(s) + 1
        /\ (\A i \in 1..Len(s) : app[i] = s[i]) /\ app[Len(s) + 1] = x
    BY <2>1
  <2>3. Wanted(app, keep) = Wanted(s, keep) \cup (IF x \in keep THEN {Len(s) + 1} ELSE {})
    BY <2>2 DEF Wanted
  <2>4. Len(s) + 1 \notin Wanted(s, keep)
    BY <2>2 DEF Wanted
  <2>5. /\ IsFiniteSet(Wanted(app, keep))
        /\ Cardinality(Wanted(app, keep)) =
             IF x \in keep THEN Cardinality(Wanted(s, keep)) + 1 ELSE Cardinality(Wanted(s, keep))
    <3>1. CASE x \in keep
      <4>1. Wanted(app, keep) = Wanted(s, keep) \cup {Len(s) + 1}
        BY <2>3, <3>1
      <4> QED
        BY <1>2, <2>4, <3>1, <4>1, FS_AddElement
    <3>2. CASE x \notin keep
      BY <1>2, <2>3, <3>2
    <3> QED
      BY <3>1, <3>2
  <2>6. Kept(s, keep) \in Seq(T)
    BY KeptMembers
  <2>7. Kept(app, keep) = IF x \in keep THEN Append(Kept(s, keep), x) ELSE Kept(s, keep)
    BY <2>1, KeptAppend
  <2>8. Len(Append(Kept(s, keep), x)) = Len(Kept(s, keep)) + 1
    BY <2>6, AppendProperties
  <2>9. Len(Kept(app, keep)) = Cardinality(Wanted(app, keep))
    BY <1>2, <2>5, <2>7, <2>8
  <2> QED
    BY <2>1, <2>2, <2>5, <2>9
<1>3. seq \in S
  <2> HIDE DEF S
  <2> QED
    BY <1>1, <1>2, SeqInd
<1> QED
  BY <1>3

-----------------------------------------------------------------------------
(* Lists without repetitions.                                              *)

\* Once returns the same members, each once.
LEMMA OnceIs ==
  ASSUME NEW T, NEW seq \in Seq(T)
  PROVE  Once(seq) \in Seq(T) /\ IsInjective(Once(seq)) /\ ToSet(Once(seq)) = ToSet(seq)
<1>1. Len(seq) \in Nat /\ DOMAIN seq = 1..Len(seq) /\ \A i \in 1..Len(seq) : seq[i] \in T
  OBVIOUS
<1>2. PICK places : places = [i \in DOMAIN seq |-> i]
  OBVIOUS
<1>3. PICK least : least = {i \in DOMAIN seq : \A j \in DOMAIN seq : j < i => seq[j] # seq[i]}
  OBVIOUS
<1>4. PICK firsts : firsts = Kept(places, least)
  OBVIOUS
<1>5. places \in Seq(1..Len(seq)) /\ IsInjective(places) /\ ToSet(places) = 1..Len(seq)
  <2>1. DOMAIN places = 1..Len(seq) /\ \A i \in 1..Len(seq) : places[i] = i
    BY <1>1, <1>2
  <2>2. places \in [1..Len(seq) -> 1..Len(seq)]
    BY <1>1, <1>2
  <2>3. places \in Seq(1..Len(seq))
    BY <1>1, <2>2
  <2> QED
    BY <2>1, <2>3 DEF IsInjective, ToSet
<1>6. firsts \in Seq(1..Len(seq)) /\ IsInjective(firsts) /\ ToSet(firsts) = least
  <2>1. firsts \in Seq(1..Len(seq)) /\ ToSet(firsts) = (1..Len(seq)) \cap least
    BY <1>4, <1>5, KeptMembers
  <2> QED
    BY <1>1, <1>3, <1>4, <1>5, <2>1, KeptInjective
<1>7. /\ Len(firsts) \in Nat /\ DOMAIN firsts = 1..Len(firsts)
      /\ \A k \in 1..Len(firsts) : firsts[k] \in 1..Len(seq) /\ firsts[k] \in least
  BY <1>6 DEF ToSet
<1>8. PICK once : once = [k \in 1..Len(firsts) |-> seq[firsts[k]]]
  OBVIOUS
<1>9. Once(seq) = once
  BY <1>2, <1>3, <1>4, <1>7, <1>8 DEF Once
<1>10. once \in Seq(T) /\ DOMAIN once = 1..Len(firsts)
  <2>1. once \in [1..Len(firsts) -> T]
    BY <1>1, <1>7, <1>8
  <2> QED
    BY <1>7, <2>1
<1>11. ASSUME NEW k \in 1..Len(firsts), NEW l \in 1..Len(firsts), once[k] = once[l]
       PROVE  k = l
  <2>1. seq[firsts[k]] = seq[firsts[l]]
    BY <1>8, <1>11
  <2>2. ~(firsts[k] < firsts[l]) /\ ~(firsts[l] < firsts[k])
    BY <1>1, <1>3, <1>7, <2>1
  <2>3. firsts[k] = firsts[l]
    BY <1>1, <1>7, <2>2
  <2> QED
    BY <1>6, <1>7, <2>3 DEF IsInjective
<1>12. ASSUME NEW x \in ToSet(seq) PROVE \E k \in 1..Len(firsts) : once[k] = x
  <2>1. PICK at : at = {i \in 1..Len(seq) : seq[i] = x}
    OBVIOUS
  <2>2. at \subseteq Nat /\ at # {}
    BY <1>1, <2>1 DEF ToSet
  <2>3. PICK i \in at : \A j \in at : i <= j
    BY <2>2, LeastElement
  <2>4. i \in 1..Len(seq) /\ seq[i] = x /\ \A j \in 1..Len(seq) : j < i => seq[j] # x
    BY <1>1, <2>1, <2>3
  <2>5. i \in least
    BY <1>1, <1>3, <2>4
  <2>6. PICK k \in 1..Len(firsts) : firsts[k] = i
    BY <1>6, <1>7, <2>5 DEF ToSet
  <2> QED
    BY <1>8, <2>4, <2>6
<1>13. ToSet(once) = ToSet(seq)
  <2>1. ToSet(once) = {once[k] : k \in 1..Len(firsts)}
    BY <1>10 DEF ToSet
  <2>2. \A k \in 1..Len(firsts) : once[k] \in ToSet(seq)
    BY <1>1, <1>7, <1>8 DEF ToSet
  <2> QED
    BY <1>12, <2>1, <2>2
<1> QED
  BY <1>9, <1>10, <1>11, <1>13 DEF IsInjective
=============================================================================
