----------------------------- MODULE MCPostings -----------------------------
(***************************************************************************)
(* Postings on a small instance.                                           *)
(***************************************************************************)
EXTENDS Postings, TLC

Symmetry == Permutations(Slots) \cup Permutations(Companies) \cup Permutations(Ids)
=============================================================================
