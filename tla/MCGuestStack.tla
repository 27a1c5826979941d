---------------------------- MODULE MCGuestStack ----------------------------
(* Instances of GuestStack for TLC; the constants are in the .cfg files.   *)
EXTENDS GuestStack, TLC

\* Callers of Apply differ in nothing but their name.
HandlerSymmetry == Permutations(Handlers)
=============================================================================
