----------------------------- MODULE MCMailings -----------------------------
(***************************************************************************)
(* Notices and letters on a small instance.                                *)
(***************************************************************************)
EXTENDS Mailings, TLC

Symmetry == Permutations(Slots) \cup Permutations(Tasks) \cup Permutations(Clients)
                \cup Permutations(Statuses)
=============================================================================
