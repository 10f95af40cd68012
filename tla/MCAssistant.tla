---------------------------- MODULE MCAssistant -----------------------------
(***************************************************************************)
(* Account, CV profile and the assistant's turns on a small instance.      *)
(***************************************************************************)
EXTENDS Assistant, TLC

\* Writers of account and CV; turns around an upsert, two that nothing fails and one that
\* fails; two turns that share answers; replies to what a turn offered.
SomeBudgets ==
    {[profile |-> 3, reply |-> 0, turn |-> 0, elsewhere |-> 0, fault |-> 1],
     [profile |-> 1, reply |-> 0, turn |-> 2, elsewhere |-> 1, fault |-> 0],
     [profile |-> 1, reply |-> 0, turn |-> 1, elsewhere |-> 1, fault |-> 1],
     [profile |-> 0, reply |-> 0, turn |-> 2, elsewhere |-> 1, fault |-> 1],
     [profile |-> 0, reply |-> 3, turn |-> 1, elsewhere |-> 1, fault |-> 1]}

Symmetry == Permutations(Slots) \cup Permutations(Turns) \cup Permutations(Names)
=============================================================================
