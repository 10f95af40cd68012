--------------------------- MODULE MCCredentials ---------------------------
(***************************************************************************)
(* Credentials on a small instance: slots and accounts are alike.          *)
(***************************************************************************)
EXTENDS Credentials, TLC

Symmetry == Permutations(Slots) \cup Permutations(Accounts)
=============================================================================
