---------------------------- MODULE MCSelection ----------------------------
(* Instances of Selection for TLC; the other constants are in the .cfg files. *)
EXTENDS Selection

\* What a subscription URL returns, of the servers a, b (VLESS) and t (Trojan).
MixedLists == {<<>>, <<"a">>, <<"t", "a", "t">>}
TwoLists  == {<<"a">>, <<"b", "a">>}

FiveIds == 1..5
SixIds == 1..6
=============================================================================
