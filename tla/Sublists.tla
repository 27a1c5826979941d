------------------------------ MODULE Sublists -------------------------------
(***************************************************************************)
(* The loop that copies the wanted members of a list, which the panel      *)
(* writes out wherever it filters servers, IDs, subscriptions or rules.    *)
(***************************************************************************)
EXTENDS SequencesExt

\* The members of seq that are in keep, in their order.
Kept(seq, keep) ==
  LET kept[i \in 0..Len(seq)] ==
        IF i = 0 THEN <<>>
        ELSE IF seq[i] \in keep THEN Append(kept[i - 1], seq[i]) ELSE kept[i - 1]
  IN  kept[Len(seq)]

\* The members of seq, each where it is first.
Once(seq) ==
  LET firsts == Kept([i \in DOMAIN seq |-> i],
                     {i \in DOMAIN seq : \A j \in DOMAIN seq : j < i => seq[j] # seq[i]})
  IN  [k \in DOMAIN firsts |-> seq[firsts[k]]]
=============================================================================
