---------------------------- MODULE MCCatalogue ----------------------------
(***************************************************************************)
(* The catalogue on a small instance.                                      *)
(***************************************************************************)
EXTENDS Catalogue, TLC

Symmetry == Permutations(Slots) \cup Permutations(Ids) \cup Permutations(Names)
                \cup Permutations(Subscriptions) \cup Permutations(Companies)
=============================================================================
